---------------------------- MODULE WorkerProofs ----------------------------
(***************************************************************************)
(* What holds of one worker and of who looks after it, for every number of *)
(* components, adapters, workers and requests: the order in which a worker *)
(* goes up and comes down (WorkerLife), what a reported reload means       *)
(* (AdapterCommand), and whom the watchdog may end (WorkerWatch).  Each    *)
(* part defines its inductive invariant first, then one lemma per action.  *)
(***************************************************************************)
EXTENDS WorkerLife, AdapterCommand, WorkerWatch, TLAPS, FiniteSetTheorems, WellFoundedInduction

\* A set of numbers has a least one; the CHOOSEs of the models rest on it.
LEMMA LeastExists ==
  ASSUME NEW T \in SUBSET Nat, T # {}
  PROVE  \E m \in T : \A n \in T : m <= n
<1> DEFINE R == OpToRel(<, Nat)
<1>1. IsWellFoundedOn(R, Nat)
  BY NatLessThanWellFounded
<1>2. \A x, y \in Nat : y < x => <<y, x>> \in R
  BY DEF OpToRel
<1> HIDE DEF R
<1>3. PICK m \in T : \A y \in T : ~(<<y, m>> \in R)
  BY <1>1, WFMin
<1>4. ASSUME NEW n \in T PROVE m <= n
  <2>1. ~(n < m)
    BY <1>2, <1>3
  <2> QED
    BY <2>1
<1> QED
  BY <1>4

-----------------------------------------------------------------------------
(* The life of one worker *)

\* The main task has not begun to tear down.
GoingUp == main.at \in {"boot", "construct", "once", "start", "serve", "drain"}

\* Where the main task is tells how far the cluster member and a promotion may be.
Places ==
  /\ main.at = "construct" => main.k \in 1 .. Beans + 1
  /\ main.at = "start" => main.k \in Adapter
  /\ main.at = "stop" => main.k \in 0 .. AdapterCount
  /\ main.at = "boot" => cluster = "closed"
  /\ main.at \in {"boot", "construct", "destroy", "over"} => cluster # "listening" /\ promo.at = "idle"
  /\ main.at = "over" /\ "hook" \notin hurt => cluster = "closed"

\* What a promotion has started is part of what it set out to start.
PromotionShape ==
  /\ promo.at \in {"idle", "once"} => promo.todo = {} /\ promo.done = {}
  /\ promo.done \subseteq promo.todo
  /\ promo.at = "start" => promo.done # promo.todo

\* The adapters above the one whose stop() is next are down.
StopsAll ==
  /\ main.at \in {"stop", "quiesce"} /\ ~late => promo.at = "idle"
  /\ ~late /\ "stop" \notin hurt =>
       /\ main.at = "stop" => \A a \in held : a <= main.k
       /\ main.at \in {"quiesce", "destroy", "over"} => held = {}

\* Components go up from the first and down from the last.
BeansInOrder ==
  /\ main.at = "boot" => \A i \in Bean : bean[i] = "absent"
  /\ main.at = "construct" => \A i \in Bean : bean[i] = IF i < main.k THEN "up" ELSE "absent"
  /\ \A i, j \in Bean : i < j /\ bean[j] # "absent" => bean[i] # "absent"
  /\ main.at \notin {"destroy", "over"} => \A i \in Bean : bean[i] # "down"
  /\ \A i, j \in Bean : i < j /\ bean[i] = "down" => bean[j] # "up"
  /\ main.at = "over" /\ "hook" \notin hurt => \A i \in Bean : bean[i] # "up"

\* An adapter waits on the shelf, or is being promoted, or is up: one of them.
Accounted ==
  GoingUp =>
    /\ shelf \cap held = {} /\ started \subseteq held
    /\ promo.todo \cap (shelf \cup started) = {}
    /\ promo.at = "start" => held \cap promo.todo = promo.done
    /\ promo.at = "rollback" => held \cap promo.todo \subseteq promo.done

\* The startup has not come to adapter a yet, and nobody else touches it before.
Ahead(a) == main.at \in {"boot", "construct", "once"} \/ (main.at = "start" /\ a >= main.k)
AheadUntouched == \A a \in Adapter : Ahead(a) => a \notin shelf \cup promo.todo \cup held \cup started

LifeInv == LifeTypeOK /\ Places /\ PromotionShape /\ StopsAll /\ BeansInOrder /\ Accounted /\ AheadUntouched

LEMMA LowestIsLowest ==
  ASSUME NEW S \in SUBSET Nat, S # {}
  PROVE  Lowest(S) \in S /\ \A y \in S : Lowest(S) <= y
<1>1. \E m \in S : \A n \in S : m <= n
  BY LeastExists
<1> QED
  BY <1>1 DEF Lowest

LEMMA HighestIsHighest ==
  ASSUME NEW N \in Nat, NEW S \in SUBSET (1 .. N), S # {}
  PROVE  Highest(S) \in S /\ \A y \in S : Highest(S) >= y
<1> DEFINE T == {N - x : x \in S}
<1>1. \A x \in S : x \in 1 .. N /\ N - x \in Nat
  OBVIOUS
<1>2. T \in SUBSET Nat /\ T # {}
  <2>1. \A y \in T : y \in Nat
    BY <1>1
  <2> QED
    BY <2>1
<1>3. PICK m \in T : \A n \in T : m <= n
  <2> HIDE DEF T
  <2> QED
    BY <1>2, LeastExists
<1>4. PICK x \in S : m = N - x
  OBVIOUS
<1>5. ASSUME NEW y \in S PROVE x >= y
  <2>1. N - y \in T
    OBVIOUS
  <2>2. N - x <= N - y
    BY <1>3, <1>4, <2>1
  <2> QED
    BY <1>1, <2>2
<1> QED
  BY <1>5 DEF Highest

LEMMA LaunchingIsNext ==
  ASSUME LifeTypeOK, PromotionShape, promo.at = "start"
  PROVE  Launching \in promo.todo \ promo.done
<1>1. promo.todo \in SUBSET Adapter
  BY DEF LifeTypeOK
<1>2. promo.todo \ promo.done \in SUBSET Nat
  BY <1>1, WorkerLifeAssumption DEF Adapter
<1>3. promo.todo \ promo.done # {}
  BY DEF PromotionShape
<1> QED
  BY <1>2, <1>3, LowestIsLowest DEF Launching

\* StartFrom: either everything from k on waits on the shelf and the adapters are
\* served, or those before the next one do and it starts.
LEMMA StartFromEffect ==
  ASSUME NEW k \in 1 .. AdapterCount + 1, NEW up, StartFrom(k, up)
  PROVE  \/ /\ shelf' = shelf \cup (k .. AdapterCount)
            /\ main' = [at |-> "serve", k |-> 0] /\ served' = up
         \/ \E next \in k .. AdapterCount :
              /\ shelf' = shelf \cup (k .. next - 1)
              /\ main' = [at |-> "start", k |-> next] /\ served' = served
<1> DEFINE waiting == {a \in k .. AdapterCount : role \/ a \notin SingletonAdapters}
<1>1. CASE waiting = {}
  <2>1. shelf' = shelf \cup (k .. (AdapterCount + 1) - 1)
    BY <1>1 DEF StartFrom
  <2>2. (AdapterCount + 1) - 1 = AdapterCount
    BY WorkerLifeAssumption
  <2> QED
    BY <1>1, <2>1, <2>2 DEF StartFrom
<1>2. CASE waiting # {}
  <2>1. waiting \in SUBSET Nat
    BY WorkerLifeAssumption
  <2>2. Lowest(waiting) \in waiting
    BY <1>2, <2>1, LowestIsLowest
  <2>3. /\ shelf' = shelf \cup (k .. Lowest(waiting) - 1)
        /\ main' = [at |-> "start", k |-> Lowest(waiting)] /\ served' = served
    BY <1>2 DEF StartFrom
  <2> HIDE DEF waiting
  <2>4. Lowest(waiting) \in k .. AdapterCount
    BY <2>2 DEF waiting
  <2> QED
    BY <2>3, <2>4
<1> QED
  BY <1>1, <1>2

LEMMA BootKeeps == LifeInv /\ Boot => LifeInv'
<1> SUFFICES ASSUME LifeInv, Boot PROVE LifeInv'
  OBVIOUS
<1> USE WorkerLifeAssumption DEF LifeInv, Adapter, Bean, NoPromotion
<1>1. LifeTypeOK'
  BY SMT DEF Boot, LifeTypeOK, Places, PromotionShape
<1>2. Places'
  BY SMT DEF Boot, Places, LifeTypeOK
<1>3. PromotionShape'
  BY SMT DEF Boot, PromotionShape, LifeTypeOK, Places
<1>4. StopsAll'
  BY SMT DEF Boot, StopsAll, LifeTypeOK, Places, PromotionShape
<1>5. BeansInOrder'
  BY SMT DEF Boot, BeansInOrder, LifeTypeOK, Places
<1>6. Accounted'
  BY SMT DEF Boot, Accounted, LifeTypeOK, Places, PromotionShape, AheadUntouched, GoingUp
<1>7. AheadUntouched'
  BY SMT DEF Boot, AheadUntouched, LifeTypeOK, Places, PromotionShape, Accounted, Ahead, GoingUp
<1> QED
  BY <1>1, <1>2, <1>3, <1>4, <1>5, <1>6, <1>7 DEF LifeInv

LEMMA PostConstructsKeeps == LifeInv /\ PostConstructs => LifeInv'
<1> SUFFICES ASSUME LifeInv, PostConstructs PROVE LifeInv'
  OBVIOUS
<1> USE WorkerLifeAssumption DEF LifeInv, Adapter, Bean, NoPromotion
<1>1. LifeTypeOK'
  <2>1. main' \in [at : {"boot", "construct", "once", "start", "serve", "drain", "stop", "quiesce",
                    "destroy", "over"}, k : 0 .. Beans + AdapterCount + 1]
    BY SMT DEF PostConstructs, LifeTypeOK, Places
  <2>2. held' \in SUBSET Adapter /\ shelf' \in SUBSET Adapter /\ started' \in SUBSET Adapter
    BY SMT DEF PostConstructs, LifeTypeOK, Places
  <2>3. served' \in SUBSET Adapter /\ extra' \in SUBSET Adapter /\ broken' \in SUBSET Adapter
    BY SMT DEF PostConstructs, LifeTypeOK, Places
  <2>4. promo' \in [at : {"idle", "once", "start", "rollback"}, todo : SUBSET Adapter, done : SUBSET Adapter]
    BY SMT DEF PostConstructs, LifeTypeOK, PromotionShape
  <2>5. role' \in BOOLEAN /\ late' \in BOOLEAN
    BY DEF PostConstructs, LifeTypeOK
  <2> QED
    BY <2>1, <2>2, <2>3, <2>4, <2>5 DEF PostConstructs, LifeTypeOK
<1>2. Places'
  BY SMT DEF PostConstructs, Places, LifeTypeOK
<1>3. PromotionShape'
  BY SMT DEF PostConstructs, PromotionShape, LifeTypeOK, Places
<1>4. StopsAll'
  BY SMT DEF PostConstructs, StopsAll, LifeTypeOK, Places, PromotionShape
<1>5. BeansInOrder'
  BY SMT DEF PostConstructs, BeansInOrder, LifeTypeOK, Places
<1>6. Accounted'
  BY SMT DEF PostConstructs, Accounted, LifeTypeOK, Places, PromotionShape, AheadUntouched, GoingUp
<1>7. AheadUntouched'
  BY SMT DEF PostConstructs, AheadUntouched, LifeTypeOK, Places, PromotionShape, Accounted, Ahead, GoingUp
<1> QED
  BY <1>1, <1>2, <1>3, <1>4, <1>5, <1>6, <1>7 DEF LifeInv

LEMMA ListenKeeps == LifeInv /\ Listen => LifeInv'
<1> SUFFICES ASSUME LifeInv, Listen PROVE LifeInv'
  OBVIOUS
<1> USE WorkerLifeAssumption DEF LifeInv, Adapter, Bean, NoPromotion
<1>1. \/ main' = [at |-> "once", k |-> 0] /\ UNCHANGED <<shelf, served>>
      \/ /\ shelf' = shelf \cup (1 .. AdapterCount)
         /\ main' = [at |-> "serve", k |-> 0] /\ served' = started
      \/ \E next \in 1 .. AdapterCount :
           /\ shelf' = shelf \cup (1 .. next - 1)
           /\ main' = [at |-> "start", k |-> next] /\ served' = served
  BY StartFromEffect DEF Listen
<1>2. \A a \in shelf' : a \in shelf \/ a \in 1 .. AdapterCount
  BY <1>1, SMT DEF Places, Listen
<1>3. (1 .. AdapterCount) \subseteq Adapter
  BY SMT DEF Places, Listen
<1>4. LifeTypeOK'
  <2>1. main' \in [at : {"boot", "construct", "once", "start", "serve", "drain", "stop", "quiesce",
                    "destroy", "over"}, k : 0 .. Beans + AdapterCount + 1]
    BY <1>1, SMT DEF Listen, LifeTypeOK, Places
  <2>2. shelf' \in SUBSET Adapter /\ held' \in SUBSET Adapter /\ started' \in SUBSET Adapter
    BY <1>2, <1>3 DEF Listen, LifeTypeOK, Places
  <2>3. served' \in SUBSET Adapter
    BY <1>1, <2>2 DEF LifeTypeOK
  <2> QED
    BY <2>1, <2>2, <2>3 DEF Listen, LifeTypeOK
<1>5. Places'
  BY <1>1, SMT DEF Listen, Places, LifeTypeOK
<1>6. PromotionShape'
  BY <1>1, SMT DEF Listen, PromotionShape, LifeTypeOK, Places
<1>7. StopsAll'
  BY <1>1, SMT DEF Listen, StopsAll, LifeTypeOK, Places, PromotionShape
<1>8. BeansInOrder'
  BY <1>1, SMT DEF Listen, BeansInOrder, LifeTypeOK, Places
<1>9. Accounted'
  <2>1. \A a \in 1 .. AdapterCount : Ahead(a)
    BY SMT DEF Listen, Ahead, Places
  <2>2. GoingUp /\ promo' = promo
    BY DEF GoingUp, Listen
  <2>3. \A a \in shelf' : a \notin held' /\ a \notin promo'.todo
    BY <1>2, <1>3, <2>1, <2>2 DEF Listen, Accounted, AheadUntouched
  <2>4. started' \subseteq held' /\ promo'.todo \cap started' = {}
    BY <2>2 DEF Listen, Accounted
  <2>5. promo'.todo \cap held' = promo.todo \cap held
    BY <2>2 DEF Listen
  <2> QED
    BY <2>2, <2>3, <2>4, <2>5 DEF Accounted
<1>10. AheadUntouched'
  BY <1>1, SMT DEF Listen, AheadUntouched, LifeTypeOK, Places, PromotionShape, Accounted, Ahead, GoingUp
<1> QED
  BY <1>4, <1>5, <1>6, <1>7, <1>8, <1>9, <1>10 DEF LifeInv

LEMMA RunOnceReturnsKeeps == LifeInv /\ RunOnceReturns => LifeInv'
<1> SUFFICES ASSUME LifeInv, RunOnceReturns PROVE LifeInv'
  OBVIOUS
<1> USE WorkerLifeAssumption DEF LifeInv, Adapter, Bean, NoPromotion
<1>1. \/ /\ shelf' = shelf \cup (1 .. AdapterCount)
         /\ main' = [at |-> "serve", k |-> 0] /\ served' = started
      \/ \E next \in 1 .. AdapterCount :
           /\ shelf' = shelf \cup (1 .. next - 1)
           /\ main' = [at |-> "start", k |-> next] /\ served' = served
  BY StartFromEffect DEF RunOnceReturns
<1>2. \A a \in shelf' : a \in shelf \/ a \in 1 .. AdapterCount
  BY <1>1, SMT DEF Places, RunOnceReturns
<1>3. (1 .. AdapterCount) \subseteq Adapter
  BY SMT DEF Places, RunOnceReturns
<1>4. LifeTypeOK'
  <2>1. main' \in [at : {"boot", "construct", "once", "start", "serve", "drain", "stop", "quiesce",
                    "destroy", "over"}, k : 0 .. Beans + AdapterCount + 1]
    BY <1>1, SMT DEF RunOnceReturns, LifeTypeOK, Places
  <2>2. shelf' \in SUBSET Adapter /\ held' \in SUBSET Adapter /\ started' \in SUBSET Adapter
    BY <1>2, <1>3 DEF RunOnceReturns, LifeTypeOK, Places
  <2>3. served' \in SUBSET Adapter
    BY <1>1, <2>2 DEF LifeTypeOK
  <2> QED
    BY <2>1, <2>2, <2>3 DEF RunOnceReturns, LifeTypeOK
<1>5. Places'
  BY <1>1, SMT DEF RunOnceReturns, Places, LifeTypeOK
<1>6. PromotionShape'
  BY <1>1, SMT DEF RunOnceReturns, PromotionShape, LifeTypeOK, Places
<1>7. StopsAll'
  BY <1>1, SMT DEF RunOnceReturns, StopsAll, LifeTypeOK, Places, PromotionShape
<1>8. BeansInOrder'
  BY <1>1, SMT DEF RunOnceReturns, BeansInOrder, LifeTypeOK, Places
<1>9. Accounted'
  <2>1. \A a \in 1 .. AdapterCount : Ahead(a)
    BY SMT DEF RunOnceReturns, Ahead, Places
  <2>2. GoingUp /\ promo' = promo
    BY DEF GoingUp, RunOnceReturns
  <2>3. \A a \in shelf' : a \notin held' /\ a \notin promo'.todo
    BY <1>2, <1>3, <2>1, <2>2 DEF RunOnceReturns, Accounted, AheadUntouched
  <2>4. started' \subseteq held' /\ promo'.todo \cap started' = {}
    BY <2>2 DEF RunOnceReturns, Accounted
  <2>5. promo'.todo \cap held' = promo.todo \cap held
    BY <2>2 DEF RunOnceReturns
  <2> QED
    BY <2>2, <2>3, <2>4, <2>5 DEF Accounted
<1>10. AheadUntouched'
  BY <1>1, SMT DEF RunOnceReturns, AheadUntouched, LifeTypeOK, Places, PromotionShape, Accounted, Ahead, GoingUp
<1> QED
  BY <1>4, <1>5, <1>6, <1>7, <1>8, <1>9, <1>10 DEF LifeInv

LEMMA StartReturnsKeeps == LifeInv /\ StartReturns => LifeInv'
<1> SUFFICES ASSUME LifeInv, StartReturns PROVE LifeInv'
  OBVIOUS
<1> USE WorkerLifeAssumption DEF LifeInv, Adapter, Bean, NoPromotion
<1>1. /\ main.k + 1 \in 1 .. AdapterCount + 1
      /\ StartFrom(main.k + 1, started')
  BY DEF StartReturns, Places
<1>2. \/ /\ shelf' = shelf \cup (main.k + 1 .. AdapterCount)
         /\ main' = [at |-> "serve", k |-> 0] /\ served' = started'
      \/ \E next \in main.k + 1 .. AdapterCount :
           /\ shelf' = shelf \cup (main.k + 1 .. next - 1)
           /\ main' = [at |-> "start", k |-> next] /\ served' = served
  BY <1>1, StartFromEffect
<1>3. \A a \in shelf' : a \in shelf \/ a \in main.k + 1 .. AdapterCount
  BY <1>2, SMT DEF Places, StartReturns
<1>4. (main.k + 1 .. AdapterCount) \subseteq Adapter
  BY SMT DEF Places, StartReturns
<1>5. LifeTypeOK'
  <2>1. main' \in [at : {"boot", "construct", "once", "start", "serve", "drain", "stop", "quiesce",
                    "destroy", "over"}, k : 0 .. Beans + AdapterCount + 1]
    BY <1>2, SMT DEF StartReturns, LifeTypeOK, Places
  <2>2. shelf' \in SUBSET Adapter /\ held' \in SUBSET Adapter /\ started' \in SUBSET Adapter
    BY <1>3, <1>4 DEF StartReturns, LifeTypeOK, Places
  <2>3. served' \in SUBSET Adapter
    BY <1>2, <2>2 DEF LifeTypeOK
  <2> QED
    BY <2>1, <2>2, <2>3 DEF StartReturns, LifeTypeOK
<1>6. Places'
  BY <1>2, SMT DEF StartReturns, Places, LifeTypeOK
<1>7. PromotionShape'
  BY <1>2, SMT DEF StartReturns, PromotionShape, LifeTypeOK, Places
<1>8. StopsAll'
  BY <1>2, SMT DEF StartReturns, StopsAll, LifeTypeOK, Places, PromotionShape
<1>9. BeansInOrder'
  BY <1>2, SMT DEF StartReturns, BeansInOrder, LifeTypeOK, Places
<1>10. Accounted'
  <2>1. \A a \in main.k + 1 .. AdapterCount : Ahead(a) /\ a # main.k
    BY SMT DEF StartReturns, Ahead, Places
  <2>2. GoingUp /\ promo' = promo
    BY DEF GoingUp, StartReturns
  <2>3. \A a \in shelf' : a \notin held' /\ a \notin promo'.todo
    BY <1>3, <1>4, <2>1, <2>2 DEF StartReturns, Accounted, AheadUntouched, Ahead, Places
  <2>4. started' \subseteq held' /\ promo'.todo \cap started' = {}
    BY <2>2 DEF StartReturns, Accounted, AheadUntouched, Ahead, Places
  <2>5. promo'.todo \cap held' = promo.todo \cap held
    BY <2>2 DEF StartReturns, AheadUntouched, Ahead, Places
  <2> QED
    BY <2>2, <2>3, <2>4, <2>5 DEF Accounted
<1>11. AheadUntouched'
  BY <1>2, SMT DEF StartReturns, AheadUntouched, LifeTypeOK, Places, PromotionShape, Accounted, Ahead, GoingUp
<1> QED
  BY <1>5, <1>6, <1>7, <1>8, <1>9, <1>10, <1>11 DEF LifeInv

LEMMA StartupFailsKeeps == LifeInv /\ StartupFails => LifeInv'
<1> SUFFICES ASSUME LifeInv, StartupFails PROVE LifeInv'
  OBVIOUS
<1> USE WorkerLifeAssumption DEF LifeInv, Adapter, Bean, NoPromotion
<1>1. LifeTypeOK'
  <2>1. main' \in [at : {"boot", "construct", "once", "start", "serve", "drain", "stop", "quiesce",
                    "destroy", "over"}, k : 0 .. Beans + AdapterCount + 1]
    BY SMT DEF StartupFails, Unwind, Halfway, LifeTypeOK, Places
  <2>2. held' \in SUBSET Adapter /\ shelf' \in SUBSET Adapter /\ started' \in SUBSET Adapter
    BY SMT DEF StartupFails, Unwind, Halfway, LifeTypeOK, Places
  <2>3. served' \in SUBSET Adapter /\ extra' \in SUBSET Adapter /\ broken' \in SUBSET Adapter
    BY SMT DEF StartupFails, Unwind, Halfway, LifeTypeOK, Places
  <2>4. promo' \in [at : {"idle", "once", "start", "rollback"}, todo : SUBSET Adapter, done : SUBSET Adapter]
    BY SMT DEF StartupFails, Unwind, Halfway, LifeTypeOK, PromotionShape
  <2>5. role' \in BOOLEAN /\ late' \in BOOLEAN
    BY DEF StartupFails, Unwind, Halfway, LifeTypeOK
  <2> QED
    BY <2>1, <2>2, <2>3, <2>4, <2>5 DEF StartupFails, Unwind, Halfway, LifeTypeOK
<1>2. Places'
  BY SMT DEF StartupFails, Unwind, Halfway, Places, LifeTypeOK
<1>3. PromotionShape'
  BY SMT DEF StartupFails, Unwind, Halfway, PromotionShape, LifeTypeOK, Places
<1>4. StopsAll'
  <2>1. main'.at = "stop" /\ main'.k = AdapterCount
    BY DEF StartupFails, Unwind
  <2>2. ~late' => promo'.at = "idle"
    BY DEF StartupFails, Unwind
  <2>3. \A a \in held' : a <= AdapterCount
    BY <1>1 DEF LifeTypeOK
  <2> QED
    BY <2>1, <2>2, <2>3 DEF StopsAll
<1>5. BeansInOrder'
  BY SMT DEF StartupFails, Unwind, Halfway, BeansInOrder, LifeTypeOK, Places
<1>6. Accounted'
  BY SMT DEF StartupFails, Unwind, Halfway, Accounted, LifeTypeOK, Places, PromotionShape, AheadUntouched, GoingUp
<1>7. AheadUntouched'
  BY SMT DEF StartupFails, Unwind, Halfway, AheadUntouched, LifeTypeOK, Places, PromotionShape, Accounted, Ahead, GoingUp
<1> QED
  BY <1>1, <1>2, <1>3, <1>4, <1>5, <1>6, <1>7 DEF LifeInv

LEMMA PromoteKeeps == LifeInv /\ Promote => LifeInv'
<1> SUFFICES ASSUME LifeInv, Promote PROVE LifeInv'
  OBVIOUS
<1> USE WorkerLifeAssumption DEF LifeInv, Adapter, Bean, NoPromotion
<1>1. LifeTypeOK'
  BY SMT DEF Promote, Launch, LifeTypeOK, Places, PromotionShape
<1>2. Places'
  BY SMT DEF Promote, Launch, Places, LifeTypeOK
<1>3. PromotionShape'
  BY SMT DEF Promote, Launch, PromotionShape, LifeTypeOK, Places
<1>4. StopsAll'
  <2>1. main' = main /\ held' = held /\ hurt' = hurt
    BY DEF Promote
  <2>2. ~late' => ~late /\ main.at \notin {"stop", "quiesce"}
    BY DEF Promote
  <2> QED
    BY <2>1, <2>2 DEF StopsAll
<1>5. BeansInOrder'
  BY SMT DEF Promote, Launch, BeansInOrder, LifeTypeOK, Places
<1>6. Accounted'
  BY SMT DEF Promote, Launch, Accounted, LifeTypeOK, Places, PromotionShape, AheadUntouched, GoingUp
<1>7. AheadUntouched'
  BY SMT DEF Promote, Launch, AheadUntouched, LifeTypeOK, Places, PromotionShape, Accounted, Ahead, GoingUp
<1> QED
  BY <1>1, <1>2, <1>3, <1>4, <1>5, <1>6, <1>7 DEF LifeInv

LEMMA PromotionOnceKeeps == LifeInv /\ PromotionOnce => LifeInv'
<1> SUFFICES ASSUME LifeInv, PromotionOnce PROVE LifeInv'
  OBVIOUS
<1> USE WorkerLifeAssumption DEF LifeInv, Adapter, Bean, NoPromotion
<1>1. LifeTypeOK'
  BY SMT DEF PromotionOnce, Launch, LifeTypeOK, Places, PromotionShape
<1>2. Places'
  BY SMT DEF PromotionOnce, Launch, Places, LifeTypeOK
<1>3. PromotionShape'
  BY SMT DEF PromotionOnce, Launch, PromotionShape, LifeTypeOK, Places
<1>4. StopsAll'
  BY SMT DEF PromotionOnce, Launch, StopsAll, LifeTypeOK, Places, PromotionShape
<1>5. BeansInOrder'
  BY SMT DEF PromotionOnce, Launch, BeansInOrder, LifeTypeOK, Places
<1>6. Accounted'
  <2>1. promo' = [at |-> promo'.at, todo |-> shelf, done |-> {}] /\ shelf' = {}
    BY DEF PromotionOnce, Launch
  <2>2. promo'.todo = shelf /\ promo'.done = {} /\ promo'.at # "rollback"
    BY <2>1 DEF PromotionOnce, Launch
  <2>3. UNCHANGED <<main, held, started>>
    BY DEF PromotionOnce
  <2> QED
    BY <2>1, <2>2, <2>3 DEF Accounted, GoingUp
<1>7. AheadUntouched'
  BY SMT DEF PromotionOnce, Launch, AheadUntouched, LifeTypeOK, Places, PromotionShape, Accounted, Ahead, GoingUp
<1> QED
  BY <1>1, <1>2, <1>3, <1>4, <1>5, <1>6, <1>7 DEF LifeInv

LEMMA PromotionStartKeeps == LifeInv /\ PromotionStart => LifeInv'
<1> SUFFICES ASSUME LifeInv, PromotionStart PROVE LifeInv'
  OBVIOUS
<1> USE WorkerLifeAssumption DEF LifeInv, Adapter, Bean, NoPromotion
<1>1. promo.at = "start" => Launching \in promo.todo \ promo.done
  BY LaunchingIsNext
<1>2. LifeTypeOK'
  BY <1>1, SMT DEF PromotionStart, LifeTypeOK, Places, PromotionShape
<1>3. Places'
  BY <1>1, SMT DEF PromotionStart, Places, LifeTypeOK
<1>4. PromotionShape'
  BY <1>1, SMT DEF PromotionStart, PromotionShape, LifeTypeOK, Places
<1>5. StopsAll'
  BY <1>1, SMT DEF PromotionStart, StopsAll, LifeTypeOK, Places, PromotionShape
<1>6. BeansInOrder'
  BY <1>1, SMT DEF PromotionStart, BeansInOrder, LifeTypeOK, Places
<1>7. Accounted'
  BY <1>1, SMT DEF PromotionStart, Accounted, LifeTypeOK, Places, PromotionShape, AheadUntouched, GoingUp
<1>8. AheadUntouched'
  BY <1>1, SMT DEF PromotionStart, AheadUntouched, LifeTypeOK, Places, PromotionShape, Accounted, Ahead, GoingUp
<1> QED
  BY <1>2, <1>3, <1>4, <1>5, <1>6, <1>7, <1>8 DEF LifeInv

LEMMA PromotionFailsKeeps == LifeInv /\ PromotionFails => LifeInv'
<1> SUFFICES ASSUME LifeInv, PromotionFails PROVE LifeInv'
  OBVIOUS
<1> USE WorkerLifeAssumption DEF LifeInv, Adapter, Bean, NoPromotion
<1>1. \/ /\ promo.at = "once" /\ promo' = [at |-> "idle", todo |-> {}, done |-> {}]
         /\ held' = held
      \/ /\ promo.at = "start" /\ held' \in {held, held \cup {Launching}}
         /\ promo' = [promo EXCEPT !.at = "rollback", !.done = promo.done \cup {Launching}]
         /\ Launching \in promo.todo \ promo.done
  BY LaunchingIsNext DEF PromotionFails, Halfway, ToStop
<1>2. \/ promo.at = "once" /\ promo'.at = "idle" /\ promo'.todo = {} /\ promo'.done = {} /\ held' = held
      \/ /\ promo.at = "start" /\ held' \in {held, held \cup {Launching}}
         /\ promo'.at = "rollback" /\ promo'.todo = promo.todo
         /\ promo'.done = promo.done \cup {Launching}
         /\ Launching \in promo.todo \ promo.done
  <2>1. CASE promo.at = "once"
    BY <1>1, <2>1
  <2>2. CASE promo.at = "start"
    <3>1. promo' = [promo EXCEPT !.at = "rollback", !.done = promo.done \cup {Launching}]
      BY <1>1, <2>2
    <3>2. promo \in [at : {"idle", "once", "start", "rollback"}, todo : SUBSET Adapter, done : SUBSET Adapter]
      BY DEF LifeTypeOK
    <3> HIDE DEF LifeInv
    <3>3. promo'.at = "rollback" /\ promo'.todo = promo.todo
          /\ promo'.done = promo.done \cup {Launching}
      BY <3>1, <3>2
    <3> QED
      BY <1>1, <2>2, <3>3
  <2> QED
    BY <1>1, <2>1, <2>2
<1>3. UNCHANGED <<main, bean, shelf, started, served, extra, broken, cluster, stop, late, hurt>>
  BY DEF PromotionFails
<1>4. LifeTypeOK'
  <2>1. promo' \in [at : {"idle", "once", "start", "rollback"}, todo : SUBSET Adapter, done : SUBSET Adapter]
    <3>1. Launching \in Adapter \/ promo.at = "once"
      BY <1>1 DEF LifeTypeOK
    <3>2. promo \in [at : {"idle", "once", "start", "rollback"}, todo : SUBSET Adapter, done : SUBSET Adapter]
      BY DEF LifeTypeOK
    <3>3. CASE promo.at = "once"
      BY <1>1, <3>3
    <3>4. CASE promo.at = "start"
      <4>1. promo' = [promo EXCEPT !.at = "rollback", !.done = promo.done \cup {Launching}]
        BY <1>1, <3>4
      <4>2. promo.done \cup {Launching} \in SUBSET Adapter
        BY <3>1, <3>2, <3>4
      <4> HIDE DEF LifeInv, Adapter
      <4> QED
        BY <3>2, <4>1, <4>2
    <3> QED
      BY <1>1, <3>3, <3>4
  <2>2. held' \in SUBSET Adapter
    BY <1>2 DEF LifeTypeOK
  <2>3. role' \in BOOLEAN
    BY DEF PromotionFails, LifeTypeOK
  <2> QED
    BY <1>3, <2>1, <2>2, <2>3 DEF LifeTypeOK
<1>5. Places'
  BY <1>1, SMT DEF PromotionFails, Halfway, ToStop, Places, LifeTypeOK
<1>6. PromotionShape'
  BY <1>2 DEF PromotionShape
<1>7. StopsAll'
  BY <1>1, SMT DEF PromotionFails, Halfway, ToStop, StopsAll, LifeTypeOK, Places, PromotionShape
<1>8. BeansInOrder'
  BY <1>1, SMT DEF PromotionFails, Halfway, ToStop, BeansInOrder, LifeTypeOK, Places
<1>9. Accounted'
  BY <1>2, <1>3 DEF Accounted, GoingUp, PromotionShape
<1>10. AheadUntouched'
  BY <1>2, <1>3 DEF AheadUntouched, Ahead, PromotionShape
<1> QED
  BY <1>4, <1>5, <1>6, <1>7, <1>8, <1>9, <1>10 DEF LifeInv

LEMMA RollBackKeeps == LifeInv /\ RollBack => LifeInv'
<1> SUFFICES ASSUME LifeInv, RollBack PROVE LifeInv'
  OBVIOUS
<1> USE WorkerLifeAssumption DEF LifeInv, Adapter, Bean, NoPromotion
<1>1. promo.done # {} => Highest(promo.done) \in promo.done
  BY HighestIsHighest DEF LifeTypeOK
<1>2. LifeTypeOK'
  <2>1. main' \in [at : {"boot", "construct", "once", "start", "serve", "drain", "stop", "quiesce",
                    "destroy", "over"}, k : 0 .. Beans + AdapterCount + 1]
    BY <1>1, SMT DEF RollBack, LifeTypeOK, Places
  <2>2. held' \in SUBSET Adapter /\ shelf' \in SUBSET Adapter /\ started' \in SUBSET Adapter
    BY <1>1, SMT DEF RollBack, LifeTypeOK, Places
  <2>3. served' \in SUBSET Adapter /\ extra' \in SUBSET Adapter /\ broken' \in SUBSET Adapter
    BY <1>1, SMT DEF RollBack, LifeTypeOK, Places
  <2>4. promo' \in [at : {"idle", "once", "start", "rollback"}, todo : SUBSET Adapter, done : SUBSET Adapter]
    BY <1>1, SMT DEF RollBack, LifeTypeOK, PromotionShape
  <2>5. role' \in BOOLEAN /\ late' \in BOOLEAN
    BY DEF RollBack, LifeTypeOK
  <2> QED
    BY <2>1, <2>2, <2>3, <2>4, <2>5 DEF RollBack, LifeTypeOK
<1>3. Places'
  BY <1>1, SMT DEF RollBack, Places, LifeTypeOK
<1>4. PromotionShape'
  BY <1>1, SMT DEF RollBack, PromotionShape, LifeTypeOK, Places
<1>5. StopsAll'
  BY <1>1, SMT DEF RollBack, StopsAll, LifeTypeOK, Places, PromotionShape
<1>6. BeansInOrder'
  BY <1>1, SMT DEF RollBack, BeansInOrder, LifeTypeOK, Places
<1>7. Accounted'
  BY <1>1, SMT DEF RollBack, Accounted, LifeTypeOK, Places, PromotionShape, AheadUntouched, GoingUp
<1>8. AheadUntouched'
  BY <1>1, SMT DEF RollBack, AheadUntouched, LifeTypeOK, Places, PromotionShape, Accounted, Ahead, GoingUp
<1> QED
  BY <1>2, <1>3, <1>4, <1>5, <1>6, <1>7, <1>8 DEF LifeInv

LEMMA SignalKeeps == LifeInv /\ Signal => LifeInv'
<1> SUFFICES ASSUME LifeInv, Signal PROVE LifeInv'
  OBVIOUS
<1> USE WorkerLifeAssumption DEF LifeInv, Adapter, Bean, NoPromotion
<1>1. LifeTypeOK'
  BY SMT DEF Signal, LifeTypeOK, Places, PromotionShape
<1>2. Places'
  BY SMT DEF Signal, Places, LifeTypeOK
<1>3. PromotionShape'
  BY SMT DEF Signal, PromotionShape, LifeTypeOK, Places
<1>4. StopsAll'
  BY SMT DEF Signal, StopsAll, LifeTypeOK, Places, PromotionShape
<1>5. BeansInOrder'
  BY SMT DEF Signal, BeansInOrder, LifeTypeOK, Places
<1>6. Accounted'
  BY SMT DEF Signal, Accounted, LifeTypeOK, Places, PromotionShape, AheadUntouched, GoingUp
<1>7. AheadUntouched'
  BY SMT DEF Signal, AheadUntouched, LifeTypeOK, Places, PromotionShape, Accounted, Ahead, GoingUp
<1> QED
  BY <1>1, <1>2, <1>3, <1>4, <1>5, <1>6, <1>7 DEF LifeInv

LEMMA CancelledKeeps == LifeInv /\ Cancelled => LifeInv'
<1> SUFFICES ASSUME LifeInv, Cancelled PROVE LifeInv'
  OBVIOUS
<1> USE WorkerLifeAssumption DEF LifeInv, Adapter, Bean, NoPromotion
<1>1. LifeTypeOK'
  <2>1. main' \in [at : {"boot", "construct", "once", "start", "serve", "drain", "stop", "quiesce",
                    "destroy", "over"}, k : 0 .. Beans + AdapterCount + 1]
    BY SMT DEF Cancelled, Unwind, Halfway, LifeTypeOK, Places
  <2>2. held' \in SUBSET Adapter /\ shelf' \in SUBSET Adapter /\ started' \in SUBSET Adapter
    BY SMT DEF Cancelled, Unwind, Halfway, LifeTypeOK, Places
  <2>3. served' \in SUBSET Adapter /\ extra' \in SUBSET Adapter /\ broken' \in SUBSET Adapter
    BY SMT DEF Cancelled, Unwind, Halfway, LifeTypeOK, Places
  <2>4. promo' \in [at : {"idle", "once", "start", "rollback"}, todo : SUBSET Adapter, done : SUBSET Adapter]
    BY SMT DEF Cancelled, Unwind, Halfway, LifeTypeOK, PromotionShape
  <2>5. role' \in BOOLEAN /\ late' \in BOOLEAN
    BY DEF Cancelled, Unwind, Halfway, LifeTypeOK
  <2> QED
    BY <2>1, <2>2, <2>3, <2>4, <2>5 DEF Cancelled, Unwind, Halfway, LifeTypeOK
<1>2. Places'
  BY SMT DEF Cancelled, Unwind, Halfway, Places, LifeTypeOK
<1>3. PromotionShape'
  BY SMT DEF Cancelled, Unwind, Halfway, PromotionShape, LifeTypeOK, Places
<1>4. StopsAll'
  <2>1. CASE main.at \in {"construct", "once", "start"}
    <3>1. main'.at = "stop" /\ main'.k = AdapterCount
      BY <2>1 DEF Cancelled, Unwind
    <3>2. ~late' => promo'.at = "idle"
      BY <2>1 DEF Cancelled, Unwind
    <3>3. \A a \in held' : a <= AdapterCount
      BY <1>1 DEF LifeTypeOK
    <3> QED
      BY <3>1, <3>2, <3>3 DEF StopsAll
  <2>2. CASE main.at \notin {"construct", "once", "start"}
    BY <2>2, SMT DEF Cancelled, StopsAll, LifeTypeOK, Places, PromotionShape
  <2> QED
    BY <2>1, <2>2
<1>5. BeansInOrder'
  BY SMT DEF Cancelled, Unwind, Halfway, BeansInOrder, LifeTypeOK, Places
<1>6. Accounted'
  BY SMT DEF Cancelled, Unwind, Halfway, Accounted, LifeTypeOK, Places, PromotionShape, AheadUntouched, GoingUp
<1>7. AheadUntouched'
  BY SMT DEF Cancelled, Unwind, Halfway, AheadUntouched, LifeTypeOK, Places, PromotionShape, Accounted, Ahead, GoingUp
<1> QED
  BY <1>1, <1>2, <1>3, <1>4, <1>5, <1>6, <1>7 DEF LifeInv

LEMMA ServesDrainedKeeps == LifeInv /\ ServesDrained => LifeInv'
<1> SUFFICES ASSUME LifeInv, ServesDrained PROVE LifeInv'
  OBVIOUS
<1> USE WorkerLifeAssumption DEF LifeInv, Adapter, Bean, NoPromotion
<1>1. LifeTypeOK'
  BY SMT DEF ServesDrained, Unwind, LifeTypeOK, Places, PromotionShape
<1>2. Places'
  BY SMT DEF ServesDrained, Unwind, Places, LifeTypeOK
<1>3. PromotionShape'
  BY SMT DEF ServesDrained, Unwind, PromotionShape, LifeTypeOK, Places
<1>4. StopsAll'
  <2>1. main'.at = "stop" /\ main'.k = AdapterCount
    BY DEF ServesDrained, Unwind
  <2>2. ~late' => promo'.at = "idle"
    BY DEF ServesDrained, Unwind
  <2>3. \A a \in held' : a <= AdapterCount
    BY <1>1 DEF LifeTypeOK
  <2> QED
    BY <2>1, <2>2, <2>3 DEF StopsAll
<1>5. BeansInOrder'
  BY SMT DEF ServesDrained, Unwind, BeansInOrder, LifeTypeOK, Places
<1>6. Accounted'
  BY SMT DEF ServesDrained, Unwind, Accounted, LifeTypeOK, Places, PromotionShape, AheadUntouched, GoingUp
<1>7. AheadUntouched'
  BY SMT DEF ServesDrained, Unwind, AheadUntouched, LifeTypeOK, Places, PromotionShape, Accounted, Ahead, GoingUp
<1> QED
  BY <1>1, <1>2, <1>3, <1>4, <1>5, <1>6, <1>7 DEF LifeInv

LEMMA StopAdapterKeeps == LifeInv /\ StopAdapter => LifeInv'
<1> SUFFICES ASSUME LifeInv, StopAdapter PROVE LifeInv'
  OBVIOUS
<1> USE WorkerLifeAssumption DEF LifeInv, Adapter, Bean, NoPromotion
<1>1. LifeTypeOK'
  BY SMT DEF StopAdapter, LifeTypeOK, Places, PromotionShape
<1>2. Places'
  BY SMT DEF StopAdapter, Places, LifeTypeOK
<1>3. PromotionShape'
  BY SMT DEF StopAdapter, PromotionShape, LifeTypeOK, Places
<1>4. StopsAll'
  BY SMT DEF StopAdapter, StopsAll, LifeTypeOK, Places, PromotionShape
<1>5. BeansInOrder'
  BY SMT DEF StopAdapter, BeansInOrder, LifeTypeOK, Places
<1>6. Accounted'
  BY SMT DEF StopAdapter, Accounted, LifeTypeOK, Places, PromotionShape, AheadUntouched, GoingUp
<1>7. AheadUntouched'
  BY SMT DEF StopAdapter, AheadUntouched, LifeTypeOK, Places, PromotionShape, Accounted, Ahead, GoingUp
<1> QED
  BY <1>1, <1>2, <1>3, <1>4, <1>5, <1>6, <1>7 DEF LifeInv

LEMMA QuiesceKeeps == LifeInv /\ Quiesce => LifeInv'
<1> SUFFICES ASSUME LifeInv, Quiesce PROVE LifeInv'
  OBVIOUS
<1> USE WorkerLifeAssumption DEF LifeInv, Adapter, Bean, NoPromotion
<1>1. LifeTypeOK'
  BY SMT DEF Quiesce, LifeTypeOK, Places, PromotionShape
<1>2. Places'
  BY SMT DEF Quiesce, Places, LifeTypeOK
<1>3. PromotionShape'
  BY SMT DEF Quiesce, PromotionShape, LifeTypeOK, Places
<1>4. StopsAll'
  BY SMT DEF Quiesce, StopsAll, LifeTypeOK, Places, PromotionShape
<1>5. BeansInOrder'
  BY SMT DEF Quiesce, BeansInOrder, LifeTypeOK, Places
<1>6. Accounted'
  BY SMT DEF Quiesce, Accounted, LifeTypeOK, Places, PromotionShape, AheadUntouched, GoingUp
<1>7. AheadUntouched'
  BY SMT DEF Quiesce, AheadUntouched, LifeTypeOK, Places, PromotionShape, Accounted, Ahead, GoingUp
<1> QED
  BY <1>1, <1>2, <1>3, <1>4, <1>5, <1>6, <1>7 DEF LifeInv

LEMMA QuiescedKeeps == LifeInv /\ Quiesced => LifeInv'
<1> SUFFICES ASSUME LifeInv, Quiesced PROVE LifeInv'
  OBVIOUS
<1> USE WorkerLifeAssumption DEF LifeInv, Adapter, Bean, NoPromotion
<1>1. promo.at = "start" => Launching \in Adapter
  BY LaunchingIsNext DEF LifeTypeOK
<1>2. LifeTypeOK'
  BY <1>1, SMT DEF Quiesced, Halfway, LifeTypeOK, Places, PromotionShape
<1>3. Places'
  BY <1>1, SMT DEF Quiesced, Halfway, Places, LifeTypeOK
<1>4. PromotionShape'
  BY <1>1, SMT DEF Quiesced, Halfway, PromotionShape, LifeTypeOK, Places
<1>5. StopsAll'
  BY <1>1, SMT DEF Quiesced, Halfway, StopsAll, LifeTypeOK, Places, PromotionShape
<1>6. BeansInOrder'
  BY <1>1, SMT DEF Quiesced, Halfway, BeansInOrder, LifeTypeOK, Places
<1>7. Accounted'
  BY <1>1, SMT DEF Quiesced, Halfway, Accounted, LifeTypeOK, Places, PromotionShape, AheadUntouched, GoingUp
<1>8. AheadUntouched'
  BY <1>1, SMT DEF Quiesced, Halfway, AheadUntouched, LifeTypeOK, Places, PromotionShape, Accounted, Ahead, GoingUp
<1> QED
  BY <1>2, <1>3, <1>4, <1>5, <1>6, <1>7, <1>8 DEF LifeInv

LEMMA DestroyKeeps == LifeInv /\ Destroy => LifeInv'
<1> SUFFICES ASSUME LifeInv, Destroy PROVE LifeInv'
  OBVIOUS
<1> USE WorkerLifeAssumption DEF LifeInv, Adapter, Bean, NoPromotion
<1>1. Highest(ToDestroy) \in ToDestroy /\ \A i \in ToDestroy : Highest(ToDestroy) >= i
  BY HighestIsHighest DEF Destroy, ToDestroy
<1>2. LifeTypeOK'
  BY <1>1, SMT DEF Destroy, ToDestroy, LifeTypeOK, Places, PromotionShape
<1>3. Places'
  BY <1>1, SMT DEF Destroy, ToDestroy, Places, LifeTypeOK
<1>4. PromotionShape'
  BY <1>1, SMT DEF Destroy, ToDestroy, PromotionShape, LifeTypeOK, Places
<1>5. StopsAll'
  BY <1>1, SMT DEF Destroy, ToDestroy, StopsAll, LifeTypeOK, Places, PromotionShape
<1>6. BeansInOrder'
  BY <1>1, SMT DEF Destroy, ToDestroy, BeansInOrder, LifeTypeOK, Places
<1>7. Accounted'
  BY <1>1, SMT DEF Destroy, ToDestroy, Accounted, LifeTypeOK, Places, PromotionShape, AheadUntouched, GoingUp
<1>8. AheadUntouched'
  BY <1>1, SMT DEF Destroy, ToDestroy, AheadUntouched, LifeTypeOK, Places, PromotionShape, Accounted, Ahead, GoingUp
<1> QED
  BY <1>2, <1>3, <1>4, <1>5, <1>6, <1>7, <1>8 DEF LifeInv

LEMMA CloseKeeps == LifeInv /\ Close => LifeInv'
<1> SUFFICES ASSUME LifeInv, Close PROVE LifeInv'
  OBVIOUS
<1> USE WorkerLifeAssumption DEF LifeInv, Adapter, Bean, NoPromotion
<1>1. LifeTypeOK'
  BY SMT DEF Close, ToDestroy, LifeTypeOK, Places, PromotionShape
<1>2. Places'
  BY SMT DEF Close, ToDestroy, Places, LifeTypeOK
<1>3. PromotionShape'
  BY SMT DEF Close, ToDestroy, PromotionShape, LifeTypeOK, Places
<1>4. StopsAll'
  BY SMT DEF Close, ToDestroy, StopsAll, LifeTypeOK, Places, PromotionShape
<1>5. BeansInOrder'
  BY SMT DEF Close, ToDestroy, BeansInOrder, LifeTypeOK, Places
<1>6. Accounted'
  BY SMT DEF Close, ToDestroy, Accounted, LifeTypeOK, Places, PromotionShape, AheadUntouched, GoingUp
<1>7. AheadUntouched'
  BY SMT DEF Close, ToDestroy, AheadUntouched, LifeTypeOK, Places, PromotionShape, Accounted, Ahead, GoingUp
<1> QED
  BY <1>1, <1>2, <1>3, <1>4, <1>5, <1>6, <1>7 DEF LifeInv

\* What serve() does, and a step of another part, changes nothing the invariant
\* speaks of but the types of served and extra.
LEMMA ServingKeeps ==
  ASSUME LifeInv, \/ \E a \in Adapter : Break(a) \/ ServeEnds(a)
                  \/ UNCHANGED lifeVars
  PROVE  LifeInv'
<1> USE DEF LifeInv
<1>1. UNCHANGED <<main, bean, held, shelf, started, role, promo, cluster, stop, late, hurt>>
  BY DEF Break, ServeEnds, lifeVars
<1>2. served' \in SUBSET Adapter /\ extra' \in SUBSET Adapter /\ broken' \in SUBSET Adapter
  BY DEF LifeTypeOK, Break, ServeEnds, lifeVars
<1>3. LifeTypeOK'
  BY <1>1, <1>2 DEF LifeTypeOK
<1>4. Places' /\ PromotionShape' /\ StopsAll' /\ BeansInOrder'
  BY <1>1 DEF Places, PromotionShape, StopsAll, BeansInOrder
<1>5. Accounted' /\ AheadUntouched'
  BY <1>1 DEF Accounted, GoingUp, AheadUntouched, Ahead
<1> QED
  BY <1>3, <1>4, <1>5

LEMMA LifeInvStep == LifeInv /\ [LifeNext]_lifeVars => LifeInv'
<1> SUFFICES ASSUME LifeInv, [LifeNext]_lifeVars PROVE LifeInv'
  OBVIOUS
<1>1. CASE MainStep
  BY <1>1, BootKeeps, PostConstructsKeeps, ListenKeeps, RunOnceReturnsKeeps, StartReturnsKeeps,
     CancelledKeeps, ServesDrainedKeeps, StopAdapterKeeps, QuiesceKeeps, QuiescedKeeps,
     DestroyKeeps, CloseKeeps DEF MainStep
<1>2. CASE PromotionStep
  BY <1>2, PromotionOnceKeeps, PromotionStartKeeps, RollBackKeeps DEF PromotionStep
<1>3. CASE StartupFails \/ Promote \/ PromotionFails \/ Signal
  BY <1>3, StartupFailsKeeps, PromoteKeeps, PromotionFailsKeeps, SignalKeeps
<1>4. CASE \/ \E a \in Adapter : Break(a) \/ ServeEnds(a)
           \/ UNCHANGED lifeVars
  BY <1>4, ServingKeeps
<1> QED
  BY <1>1, <1>2, <1>3, <1>4 DEF LifeNext

LEMMA LifeInvHolds == LifeSpec => []LifeInv
<1>1. LifeInit => LifeInv
  <2> SUFFICES ASSUME LifeInit PROVE LifeInv
    OBVIOUS
  <2> USE WorkerLifeAssumption DEF LifeInit, NoPromotion
  <2>1. LifeTypeOK
    <3>1. main.at = "boot" /\ main.k = 0 /\ 0 \in 0 .. Beans + AdapterCount + 1
      OBVIOUS
    <3>2. bean \in [Bean -> {"absent", "up", "down"}]
      OBVIOUS
    <3>3. role \in BOOLEAN /\ late \in BOOLEAN
      OBVIOUS
    <3>4. promo \in [at : {"idle", "once", "start", "rollback"}, todo : SUBSET Adapter, done : SUBSET Adapter]
      OBVIOUS
    <3> QED
      BY <3>1, <3>2, <3>3, <3>4 DEF LifeTypeOK
  <2>2. Places /\ PromotionShape /\ StopsAll
    BY DEF Places, PromotionShape, StopsAll
  <2>3. BeansInOrder
    BY DEF BeansInOrder
  <2>4. Accounted /\ AheadUntouched
    BY DEF Accounted, GoingUp, AheadUntouched, Ahead
  <2> QED
    BY <2>1, <2>2, <2>3, <2>4 DEF LifeInv
<1> QED
  BY <1>1, LifeInvStep, PTL DEF LifeSpec

\* However startup, promotion, failure and shutdown interleave: adapters are down
\* before components are torn down unless a promotion was late or a stop() broke,
\* components go down in reverse, and the health report is true.
THEOREM WorkerIsOrderly == LifeSpec => []LifeIsOrderly
<1>1. LifeInv => LifeIsOrderly
  <2> SUFFICES ASSUME LifeInv PROVE LifeIsOrderly
    OBVIOUS
  <2> USE DEF LifeInv
  <2>1. OnlyLatePromotionsOutlive
    BY DEF OnlyLatePromotionsOutlive, AdaptersStopFirst, StopsAll
  <2>2. TornDownInReverse
    BY DEF TornDownInReverse, BeansInOrder, Places
  <2>3. HealthIsTrue
    BY DEF HealthIsTrue, Health, Accounted, GoingUp
  <2> QED
    BY <2>1, <2>2, <2>3 DEF LifeIsOrderly
<1> QED
  BY <1>1, LifeInvHolds, PTL
-----------------------------------------------------------------------------
(* Reloading adapters in every process *)

\* What a reload reports, whom it has heard from, and the letters about it.
Result  == {"reloaded", "unchanged", "failed"}
AnswerSets == UNION {[D -> Result] : D \in SUBSET Targets}
Filed   == [at : {"asked", "reported", "gone"}, by : Members, since : Nat, answers : AnswerSets]
Letters == {CommandOf(r) : r \in Requests}
             \cup {Ack(r, w, result) : r \in Requests, w \in Members, result \in Result}

\* A waiter was made for r: before that, nothing is about it.
Asked(r) == request[r].at # "unasked"

\* w serves what r is about, or will when it is back.
Fresh(w, r) == serves[w] = Down \/ serves[w] >= request[r].since

\* Types: versions are numbers, and letters are of two kinds.
CommandState ==
  /\ disk \in Nat
  /\ serves \in [Members -> {Down} \cup Nat]
  /\ request \in [Requests -> Filed \cup {Unasked}]
  /\ toBoss \in SUBSET Requests
  /\ mailbox \in [Members -> SUBSET Letters]
  /\ running \in [Members -> SUBSET Requests]

\* Whatever is under way is about a request that was made.
OnlyAsked ==
  /\ \A r \in toBoss : Asked(r)
  /\ \A w \in Members : \A r \in running[w] : Asked(r)
  /\ \A w \in Members : \A m \in mailbox[w] : Asked(m.of)

\* No request is about files that are not there yet.
SinceIsPast == \A r \in Requests : request[r].since <= disk

\* Every success that is recorded, or in a letter, is true of who answers now in
\* that place: the process that said so, or one that read the files later.
AnswersAreTrue ==
  \A r \in Requests : Asked(r) =>
    \A w \in DOMAIN request[r].answers : request[r].answers[w] # "failed" => Fresh(w, r)
AcksAreTrue ==
  \A v \in Members : \A m \in mailbox[v] :
    m.kind = "ack" /\ m.result # "failed" => Fresh(m.from, m.of)

CommandInv == CommandState /\ OnlyAsked /\ SinceIsPast /\ AnswersAreTrue /\ AcksAreTrue

\* A request is filed when it is asked.
LEMMA FiledIsAsked ==
  ASSUME CommandState, NEW r \in Requests
  PROVE  /\ Asked(r) => request[r] \in Filed
         /\ ~Asked(r) => request[r] = Unasked
BY DEF CommandState, Asked, Filed, Unasked

\* What every step has to show: who was asked stays asked about the same version,
\* versions only grow, and every answer that is new is true.
LEMMA StepKeeps ==
  ASSUME CommandInv, CommandState', disk' >= disk,
         \A w \in Members : serves'[w] \in {serves[w], Down, disk},
         \A q \in Requests : Asked(q) => Asked(q)' /\ request'[q].since = request[q].since,
         \A q \in Requests : ~Asked(q) /\ Asked(q)'
            => request'[q].since <= disk /\ DOMAIN request'[q].answers = {},
         \A q \in Requests : Asked(q) => \A w \in DOMAIN request'[q].answers :
            \/ w \in DOMAIN request[q].answers /\ request'[q].answers[w] = request[q].answers[w]
            \/ request'[q].answers[w] = "failed"
            \/ Fresh(w, q)',
         \A w \in Members : \A m \in mailbox'[w] :
            \/ m \in mailbox[w]
            \/ Asked(m.of)' /\ (m.kind = "ack" /\ m.result # "failed" => Fresh(m.from, m.of)'),
         \A r \in toBoss' : Asked(r)',
         \A w \in Members : \A r \in running'[w] : Asked(r)'
  PROVE  CommandInv'
<1> USE DEF CommandInv
<1>1. ASSUME NEW w \in Members, NEW q \in Requests, Asked(q), Fresh(w, q) PROVE Fresh(w, q)'
  <2>1. /\ serves[w] \in {Down} \cup Nat /\ disk \in Nat
        /\ request[q].since <= disk
        /\ request'[q].since = request[q].since
        /\ serves'[w] \in {serves[w], Down, disk}
    BY <1>1 DEF CommandState, SinceIsPast
  <2> QED
    BY <1>1, <2>1 DEF Fresh
<1>2. ASSUME NEW w \in Members, NEW m \in mailbox[w]
      PROVE  m.of \in Requests /\ (m.kind = "ack" => m.from \in Members)
  <2>1. m \in Letters
    BY DEF CommandState
  <2> QED
    BY <2>1 DEF Letters, CommandOf, Ack
<1>3. OnlyAsked'
  BY <1>2 DEF OnlyAsked
<1>4. SinceIsPast'
  <2>1. ASSUME NEW q \in Requests PROVE request'[q].since <= disk'
    <3>1. disk \in Nat /\ disk' \in Nat
      BY DEF CommandState
    <3>2. CASE Asked(q)
      <4>1. request[q].since \in Nat
        BY <3>2, FiledIsAsked DEF Filed
      <4> QED
        BY <3>1, <3>2, <4>1 DEF SinceIsPast
    <3>3. CASE ~Asked(q) /\ ~Asked(q)'
      <4>1. request'[q] = Unasked
        BY <3>3 DEF CommandState, Asked, Filed
      <4> QED
        BY <3>1, <4>1 DEF Unasked
    <3>4. CASE ~Asked(q) /\ Asked(q)'
      <4>1. request'[q] \in Filed
        BY <3>4 DEF CommandState, Asked, Unasked
      <4>2. request'[q].since \in Nat
        BY <4>1 DEF Filed
      <4> QED
        BY <3>1, <3>4, <4>2
    <3> QED
      BY <3>2, <3>3, <3>4
  <2> QED
    BY <2>1 DEF SinceIsPast
<1>5. AnswersAreTrue'
  <2> SUFFICES ASSUME NEW q \in Requests, Asked(q)', NEW w \in DOMAIN request'[q].answers,
                      request'[q].answers[w] # "failed"
               PROVE  Fresh(w, q)'
    BY DEF AnswersAreTrue
  <2>1. Asked(q)
    OBVIOUS
  <2>2. CASE w \in DOMAIN request[q].answers /\ request'[q].answers[w] = request[q].answers[w]
    <3>1. Fresh(w, q)
      BY <2>1, <2>2 DEF AnswersAreTrue
    <3>2. w \in Members
      <4>1. request[q].answers \in AnswerSets
        BY <2>1, FiledIsAsked DEF Filed
      <4> QED
        BY <2>2, <4>1, CommandAssumption DEF AnswerSets
    <3> QED
      BY <1>1, <2>1, <3>1, <3>2
  <2> QED
    BY <2>1, <2>2
<1>6. AcksAreTrue'
  <2> SUFFICES ASSUME NEW v \in Members, NEW m \in mailbox'[v], m.kind = "ack", m.result # "failed"
               PROVE  Fresh(m.from, m.of)'
    BY DEF AcksAreTrue
  <2>1. CASE m \in mailbox[v]
    <3>1. Fresh(m.from, m.of) /\ Asked(m.of)
      BY <2>1 DEF AcksAreTrue, OnlyAsked
    <3> QED
      BY <1>1, <1>2, <2>1, <3>1
  <2> QED
    BY <2>1
<1> QED
  BY <1>3, <1>4, <1>5, <1>6

\* _record_adapter_ack: only the answers of a waiter for r grow, by one.
LEMMA ResultRecorded ==
  ASSUME CommandInv, NEW r \in Requests, NEW w \in Members, NEW from \in Members,
         NEW result \in Result, request' = WithResult(r, w, from, result), Asked(r)
  PROVE  /\ request' \in [Requests -> Filed \cup {Unasked}]
         /\ \A q \in Requests :
              /\ Asked(q) <=> Asked(q)'
              /\ request'[q].since = request[q].since
              /\ \A v \in DOMAIN request'[q].answers :
                   \/ v \in DOMAIN request[q].answers /\ request'[q].answers[v] = request[q].answers[v]
                   \/ q = r /\ v = from /\ request'[q].answers[v] = result
<1> USE DEF CommandInv
<1>1. ASSUME NEW q \in Requests
      PROVE  /\ request'[q] \in Filed \cup {Unasked}
             /\ Asked(q) <=> Asked(q)'
             /\ request'[q].since = request[q].since
             /\ \A v \in DOMAIN request'[q].answers :
                   \/ v \in DOMAIN request[q].answers /\ request'[q].answers[v] = request[q].answers[v]
                   \/ q = r /\ v = from /\ request'[q].answers[v] = result
  <2>1. CASE q \in Waiters(r, w) /\ from \in Targets /\ from \notin DOMAIN request[q].answers
    <3>1. q = r /\ request[q].at = "asked"
      BY <2>1 DEF Waiters
    <3>2. request[q] \in Filed
      BY <3>1, FiledIsAsked DEF Asked
    <3> DEFINE old == request[q].answers
               new == [v \in DOMAIN old \cup {from} |-> IF v = from THEN result ELSE old[v]]
    <3>3. request'[q] = [request[q] EXCEPT !.answers = new]
      BY <2>1 DEF WithResult
    <3>4. old \in AnswerSets
      BY <3>2 DEF Filed
    <3>5. new \in AnswerSets
      <4>1. PICK D \in SUBSET Targets : old \in [D -> Result]
        BY <3>4 DEF AnswerSets
      <4>2. D \cup {from} \in SUBSET Targets
        BY <2>1
      <4>3. new \in [D \cup {from} -> Result]
        BY <4>1
      <4> QED
        BY <4>2, <4>3 DEF AnswerSets
    <3>6. \A v \in DOMAIN new : (v \in DOMAIN old /\ new[v] = old[v]) \/ (v = from /\ new[v] = result)
      OBVIOUS
    <3> HIDE DEF new
    <3>7. /\ request'[q] \in Filed /\ request'[q].at = request[q].at
          /\ request'[q].since = request[q].since /\ request'[q].answers = new
      BY <3>2, <3>3, <3>5 DEF Filed
    <3> QED
      BY <3>1, <3>6, <3>7 DEF Asked
  <2>2. CASE ~(q \in Waiters(r, w) /\ from \in Targets /\ from \notin DOMAIN request[q].answers)
    <3>1. request'[q] = request[q]
      BY <2>2 DEF WithResult
    <3> QED
      BY <3>1 DEF CommandState, Asked
  <2> QED
    BY <2>1, <2>2
<1>2. request' = [q \in Requests |-> request'[q]]
  BY DEF WithResult
<1>3. request' \in [Requests -> Filed \cup {Unasked}]
  BY <1>1, <1>2
<1> QED
  BY <1>1, <1>3

LEMMA RotateKeeps == CommandInv /\ Rotate => CommandInv'
<1> SUFFICES ASSUME CommandInv, Rotate PROVE CommandInv'
  OBVIOUS
<1> USE DEF CommandInv, Rotate
<1>1. CommandState' /\ disk' >= disk
  BY DEF CommandState
<1>2. \A q : Asked(q)' <=> Asked(q)
  BY DEF Asked
<1> QED
  BY <1>1, <1>2, StepKeeps DEF OnlyAsked

LEMMA RelayKeeps == ASSUME NEW r \in Requests PROVE CommandInv /\ Relay(r) => CommandInv'
<1> SUFFICES ASSUME CommandInv, Relay(r) PROVE CommandInv'
  OBVIOUS
<1> USE DEF CommandInv, Relay
<1>1. CommandState' /\ disk' >= disk
  <2>1. CommandOf(r) \in Letters
    BY DEF Letters
  <2>2. mailbox' \in [Members -> SUBSET Letters]
    BY <2>1 DEF CommandState
  <2> QED
    BY <2>2 DEF CommandState
<1>2. \A q : Asked(q)' <=> Asked(q)
  BY DEF Asked
<1>3. \A w \in Members : \A m \in mailbox'[w] :
        m \in mailbox[w] \/ (m.of = r /\ m.kind = "command")
  BY DEF CommandOf
<1> QED
  BY <1>1, <1>2, <1>3, StepKeeps DEF OnlyAsked

LEMMA ReportKeeps == ASSUME NEW r \in Requests PROVE CommandInv /\ Report(r) => CommandInv'
<1> SUFFICES ASSUME CommandInv, Report(r) PROVE CommandInv'
  OBVIOUS
<1> USE DEF CommandInv, Report
<1>1. request[r] \in Filed
  BY FiledIsAsked DEF Asked
<1>2. /\ request'[r] \in Filed /\ request'[r].at = "reported"
      /\ request'[r].since = request[r].since /\ request'[r].answers = request[r].answers
  BY <1>1 DEF CommandState, Filed
<1>3. \A q \in Requests : q # r => request'[q] = request[q]
  BY DEF CommandState
<1>4. CommandState' /\ disk' >= disk
  BY <1>2 DEF CommandState
<1>5. \A q : q \in Requests => (Asked(q)' <=> Asked(q))
  BY <1>2, <1>3 DEF Asked
<1>6. \A w \in Members : \A m \in mailbox[w] : m.of \in Requests
  BY DEF CommandState, Letters, CommandOf, Ack
<1>7. \A q \in Requests : request'[q].since = request[q].since /\ request'[q].answers = request[q].answers
  BY <1>2, <1>3
<1>8. \A q \in toBoss' : Asked(q)'
  BY <1>5 DEF OnlyAsked, CommandState
<1>9. \A w \in Members : \A q \in running'[w] : Asked(q)'
  BY <1>5 DEF OnlyAsked, CommandState
<1> QED
  BY <1>4, <1>5, <1>7, <1>8, <1>9, StepKeeps

\* A step that files no request and no answer: letters may be lost or read.
LEMMA QuietKeeps ==
  ASSUME CommandInv, CommandState', disk' = disk,
         \A w \in Members : serves'[w] \in {serves[w], Down, disk},
         \A q \in Requests : /\ Asked(q)' <=> Asked(q)
                             /\ request'[q].since = request[q].since
                             /\ request'[q].answers = request[q].answers,
         toBoss' = toBoss,
         \A w \in Members : mailbox'[w] \subseteq mailbox[w],
         \A w \in Members : \A r \in running'[w] : r \in running[w] \/ Asked(r)
  PROVE  CommandInv'
<1> USE DEF CommandInv
<1>1. \A q \in toBoss' : Asked(q)'
  BY DEF OnlyAsked, CommandState
<1>2. \A w \in Members : \A q \in running'[w] : Asked(q)'
  BY DEF OnlyAsked, CommandState
<1>3. disk' >= disk
  BY DEF CommandState
<1> QED
  BY <1>1, <1>2, <1>3, StepKeeps

LEMMA LoseKeeps == ASSUME NEW w \in Members PROVE CommandInv /\ Lose(w) => CommandInv'
<1> SUFFICES ASSUME CommandInv, Lose(w) PROVE CommandInv'
  OBVIOUS
<1>1. CommandState'
  BY DEF CommandInv, CommandState, Lose
<1>2. \A v \in Members : mailbox'[v] \subseteq mailbox[v]
  BY DEF CommandInv, CommandState, Lose
<1> QED
  BY <1>1, <1>2, QuietKeeps DEF Lose, Asked

LEMMA RestartKeeps == ASSUME NEW w \in Members PROVE CommandInv /\ Restart(w) => CommandInv'
<1> SUFFICES ASSUME CommandInv, Restart(w) PROVE CommandInv'
  OBVIOUS
<1>1. CommandState'
  BY DEF CommandInv, CommandState, Restart
<1>2. \A v \in Members : serves'[v] \in {serves[v], Down, disk}
  BY DEF CommandInv, CommandState, Restart
<1> QED
  BY <1>1, <1>2, QuietKeeps DEF Restart, Asked

LEMMA CrashKeeps == ASSUME NEW w \in Members PROVE CommandInv /\ Crash(w) => CommandInv'
<1> SUFFICES ASSUME CommandInv, Crash(w) PROVE CommandInv'
  OBVIOUS
<1> USE DEF CommandInv
<1>1. ASSUME NEW q \in Requests
      PROVE  /\ request'[q] \in Filed \cup {Unasked}
             /\ Asked(q)' <=> Asked(q)
             /\ request'[q].since = request[q].since
             /\ request'[q].answers = request[q].answers
  <2>1. CASE request[q].at = "asked" /\ request[q].by = w
    <3>1. request[q] \in Filed
      BY <2>1, FiledIsAsked DEF Asked
    <3>2. request'[q] = [request[q] EXCEPT !.at = "gone"]
      BY <2>1 DEF Crash
    <3> QED
      BY <2>1, <3>1, <3>2 DEF Filed, Asked
  <2>2. CASE ~(request[q].at = "asked" /\ request[q].by = w)
    <3>1. request'[q] = request[q]
      BY <2>2 DEF Crash
    <3> QED
      BY <3>1 DEF CommandState, Asked
  <2> QED
    BY <2>1, <2>2
<1>2. request' = [q \in Requests |-> request'[q]]
  BY DEF Crash
<1>3. CommandState'
  <2>1. request' \in [Requests -> Filed \cup {Unasked}]
    BY <1>1, <1>2
  <2> QED
    BY <2>1 DEF CommandState, Crash
<1>4. /\ \A v \in Members : serves'[v] \in {serves[v], Down, disk}
      /\ \A v \in Members : \A r \in running'[v] : r \in running[v]
  BY DEF CommandState, Crash
<1> QED
  BY <1>1, <1>3, <1>4, QuietKeeps DEF Crash

LEMMA TakeCommandKeeps ==
  ASSUME NEW w \in Members, NEW m \in mailbox[w]
  PROVE  CommandInv /\ TakeCommand(w, m) => CommandInv'
<1> SUFFICES ASSUME CommandInv, TakeCommand(w, m) PROVE CommandInv'
  OBVIOUS
<1> USE DEF CommandInv
<1>1. m.of \in Requests /\ Asked(m.of)
  BY DEF CommandState, OnlyAsked, Letters, CommandOf, Ack
<1>2. CommandState'
  BY <1>1 DEF CommandState, TakeCommand
<1>3. /\ \A v \in Members : mailbox'[v] \subseteq mailbox[v]
      /\ \A v \in Members : \A r \in running'[v] : r \in running[v] \/ r = m.of
  BY DEF CommandState, TakeCommand
<1> QED
  BY <1>1, <1>2, <1>3, QuietKeeps DEF TakeCommand, Asked

LEMMA AsksKeeps ==
  ASSUME NEW r \in Requests, NEW w \in Members
  PROVE  CommandInv /\ Asks(r, w) => CommandInv'
<1> SUFFICES ASSUME CommandInv, Asks(r, w) PROVE CommandInv'
  OBVIOUS
<1> USE DEF CommandInv
<1> DEFINE new == [at |-> "asked", by |-> w, since |-> disk, answers |-> NoAnswer]
<1>1. NoAnswer \in AnswerSets /\ DOMAIN NoAnswer = {}
  <2>1. NoAnswer \in [{} -> Result] /\ {} \in SUBSET Targets
    BY DEF NoAnswer
  <2> QED
    BY <2>1 DEF AnswerSets
<1>2. new \in Filed
  BY <1>1 DEF Filed, CommandState
<1>3. new.at = "asked" /\ new.since = disk /\ new.answers = NoAnswer
  OBVIOUS
<1>4. request' = [request EXCEPT ![r] = new] /\ ~Asked(r)
  BY DEF Asks, Asked
<1> HIDE DEF new
<1>5. CommandState'
  <2>1. request' \in [Requests -> Filed \cup {Unasked}]
    BY <1>2, <1>4 DEF CommandState
  <2> QED
    BY <2>1 DEF CommandState, Asks
<1>6. request'[r] = new /\ \A q \in Requests : q # r => request'[q] = request[q]
  BY <1>4 DEF CommandState
<1>7. Asked(r)'
  BY <1>3, <1>6 DEF Asked
<1>8. \A q \in Requests : Asked(q) => Asked(q)' /\ request'[q] = request[q]
  BY <1>4, <1>6 DEF Asked
<1>9. \A q \in Requests : ~Asked(q) /\ Asked(q)' => q = r
  BY <1>6 DEF Asked
<1>10. disk \in Nat /\ disk' = disk
  BY DEF CommandState, Asks
<1>11. /\ \A q \in toBoss' : Asked(q)'
       /\ \A v \in Members : \A q \in running'[v] : Asked(q)'
  BY <1>7, <1>8 DEF OnlyAsked, CommandState, Asks
<1>12. \A q \in Requests : ~Asked(q) /\ Asked(q)'
         => request'[q].since <= disk /\ DOMAIN request'[q].answers = {}
  BY <1>1, <1>3, <1>6, <1>9, <1>10
<1>13. /\ disk' >= disk
       /\ \A v \in Members : serves'[v] = serves[v] /\ mailbox'[v] = mailbox[v]
  BY <1>10 DEF Asks
<1> QED
  BY <1>5, <1>8, <1>11, <1>12, <1>13, StepKeeps

LEMMA TakeAckKeeps ==
  ASSUME NEW w \in Members, NEW m \in mailbox[w]
  PROVE  CommandInv /\ TakeAck(w, m) => CommandInv'
<1> SUFFICES ASSUME CommandInv, TakeAck(w, m) PROVE CommandInv'
  OBVIOUS
<1> USE DEF CommandInv
<1>1. /\ m.of \in Requests /\ Asked(m.of) /\ m.from \in Members /\ m.result \in Result
      /\ m.result # "failed" => Fresh(m.from, m.of)
  BY DEF CommandState, OnlyAsked, AcksAreTrue, TakeAck, Letters, CommandOf, Ack
<1> DEFINE r == m.of
           from == m.from
           result == m.result
<1>2. request' = WithResult(r, w, from, result)
  BY DEF TakeAck
<1>3. r \in Requests /\ from \in Members /\ result \in Result /\ Asked(r)
  BY <1>1
<1>4. (result # "failed" => Fresh(from, r)')
  <2>1. Fresh(from, r) => Fresh(from, r)'
    <3>1. serves' = serves /\ request'[r].since = request[r].since
      <4> HIDE DEF r, from, result
      <4> QED
        BY <1>2, <1>3, ResultRecorded DEF TakeAck
    <3> QED
      BY <3>1 DEF Fresh
  <2> QED
    BY <1>1, <2>1
<1> HIDE DEF r, from, result
<1>5. /\ request' \in [Requests -> Filed \cup {Unasked}]
      /\ \A q \in Requests :
              /\ Asked(q) <=> Asked(q)'
              /\ request'[q].since = request[q].since
              /\ \A v \in DOMAIN request'[q].answers :
                   \/ v \in DOMAIN request[q].answers /\ request'[q].answers[v] = request[q].answers[v]
                   \/ q = r /\ v = from /\ request'[q].answers[v] = result
  BY <1>2, <1>3, ResultRecorded
<1>6. CommandState'
  BY <1>5 DEF CommandState, TakeAck
<1>7. /\ disk \in Nat /\ disk' = disk
      /\ \A v \in Members : mailbox'[v] \subseteq mailbox[v] /\ serves'[v] = serves[v]
  BY DEF CommandState, TakeAck
<1>8. /\ \A q \in toBoss' : Asked(q)'
      /\ \A v \in Members : \A q \in running'[v] : Asked(q)'
  BY <1>5 DEF OnlyAsked, CommandState, TakeAck
<1>9. \A q \in Requests : \A v \in DOMAIN request'[q].answers :
            \/ v \in DOMAIN request[q].answers /\ request'[q].answers[v] = request[q].answers[v]
            \/ request'[q].answers[v] = "failed"
            \/ Fresh(v, q)'
  BY <1>4, <1>5
<1> QED
  BY <1>5, <1>6, <1>7, <1>8, <1>9, StepKeeps

LEMMA ExecutesKeeps ==
  ASSUME NEW w \in Members, NEW r \in Requests, NEW result \in Result
  PROVE  CommandInv /\ Executes(w, r, result) => CommandInv'
<1> SUFFICES ASSUME CommandInv, Executes(w, r, result) PROVE CommandInv'
  OBVIOUS
<1> USE DEF CommandInv
<1>1. Asked(r) /\ request' = WithResult(r, w, w, result)
  BY DEF OnlyAsked, CommandState, Executes
<1>2. /\ request' \in [Requests -> Filed \cup {Unasked}]
      /\ \A q \in Requests :
              /\ Asked(q) <=> Asked(q)'
              /\ request'[q].since = request[q].since
              /\ \A v \in DOMAIN request'[q].answers :
                   \/ v \in DOMAIN request[q].answers /\ request'[q].answers[v] = request[q].answers[v]
                   \/ q = r /\ v = w /\ request'[q].answers[v] = result
  BY <1>1, ResultRecorded
<1>3. /\ disk \in Nat /\ disk' = disk /\ toBoss' = toBoss
      /\ serves' \in [Members -> {Down} \cup Nat]
      /\ \A v \in Members : serves'[v] \in {serves[v], disk}
      /\ result # "failed" => serves'[w] = disk
  BY DEF CommandState, Executes
<1>4. result # "failed" => Fresh(w, r)'
  BY <1>2, <1>3 DEF SinceIsPast, Fresh
<1>5. mailbox' = [v \in Members |-> IF v # w /\ v = request[r].by THEN mailbox[v] \cup {Ack(r, w, result)}
                                    ELSE mailbox[v]]
  BY DEF Executes
<1>6. /\ Ack(r, w, result) \in Letters
      /\ Ack(r, w, result).of = r /\ Ack(r, w, result).from = w
      /\ Ack(r, w, result).result = result
  BY DEF Letters, Ack
<1>7. \A v \in Members : \A m \in mailbox'[v] :
        \/ m \in mailbox[v]
        \/ Asked(m.of)' /\ (m.kind = "ack" /\ m.result # "failed" => Fresh(m.from, m.of)')
  <2> SUFFICES ASSUME NEW v \in Members, NEW m \in mailbox'[v], m \notin mailbox[v]
               PROVE  Asked(m.of)' /\ (m.result # "failed" => Fresh(m.from, m.of)')
    OBVIOUS
  <2>1. m = Ack(r, w, result)
    BY <1>5
  <2>2. m.of = r /\ m.from = w /\ m.result = result
    BY <1>6, <2>1
  <2> QED
    BY <1>1, <1>2, <1>4, <2>2
<1>8. CommandState'
  <2>1. mailbox' \in [Members -> SUBSET Letters]
    BY <1>5, <1>6 DEF CommandState
  <2>2. running' \in [Members -> SUBSET Requests]
    BY DEF CommandState, Executes
  <2> QED
    BY <1>2, <1>3, <2>1, <2>2 DEF CommandState
<1>9. /\ \A q \in toBoss' : Asked(q)'
      /\ \A v \in Members : \A q \in running'[v] : Asked(q)'
  BY <1>2, <1>3 DEF OnlyAsked, CommandState, Executes
<1>10. \A q \in Requests : \A v \in DOMAIN request'[q].answers :
            \/ v \in DOMAIN request[q].answers /\ request'[q].answers[v] = request[q].answers[v]
            \/ request'[q].answers[v] = "failed"
            \/ Fresh(v, q)'
  BY <1>2, <1>4
<1> QED
  BY <1>2, <1>3, <1>7, <1>8, <1>9, <1>10, StepKeeps

LEMMA CommandInvHolds == CommandSpec => []CommandInv
<1>1. CommandInit => CommandInv
  <2> SUFFICES ASSUME CommandInit PROVE CommandInv
    OBVIOUS
  <2> USE DEF CommandInit
  <2>1. \A r \in Requests : request[r] = Unasked /\ ~Asked(r) /\ request[r].since = 0
    BY DEF Unasked, Asked
  <2>2. CommandState
    BY DEF CommandState
  <2> QED
    BY <2>1, <2>2 DEF CommandInv, OnlyAsked, SinceIsPast, AnswersAreTrue, AcksAreTrue
<1>2. CommandInv /\ [CommandNext]_commandVars => CommandInv'
  <2> SUFFICES ASSUME CommandInv, [CommandNext]_commandVars PROVE CommandInv'
    OBVIOUS
  <2>1. CASE UNCHANGED commandVars
    BY <2>1 DEF commandVars, CommandInv, CommandState, OnlyAsked, SinceIsPast, AnswersAreTrue,
                AcksAreTrue, Asked, Fresh
  <2>2. CASE Rotate \/ \E r \in Requests : Relay(r) \/ Report(r) \/ \E w \in Members : Asks(r, w)
    BY <2>2, RotateKeeps, RelayKeeps, ReportKeeps, AsksKeeps
  <2>3. CASE \E w \in Members : Lose(w) \/ Crash(w) \/ Restart(w)
    BY <2>3, LoseKeeps, CrashKeeps, RestartKeeps
  <2>4. CASE \E w \in Members : \E m \in mailbox[w] : TakeCommand(w, m) \/ TakeAck(w, m)
    BY <2>4, TakeCommandKeeps, TakeAckKeeps
  <2>5. CASE \E w \in Members, r \in Requests, result \in {"reloaded", "unchanged", "failed"} :
               Executes(w, r, result)
    BY <2>5, ExecutesKeeps DEF Result
  <2> QED
    BY <2>1, <2>2, <2>3, <2>4, <2>5 DEF CommandNext
<1> QED
  BY <1>1, <1>2, PTL DEF CommandSpec

\* Whoever is told that a reload succeeded may delete the old files, although
\* commands and answers are lost, late, or read by a successor.
THEOREM ReloadReaches == CommandSpec => []ReloadReachesAll
<1>1. CommandInv => ReloadReachesAll
  <2> SUFFICES ASSUME CommandInv, NEW r \in Requests, request[r].at = "reported",
                      Outcome(r) \in {"reloaded", "unchanged"}, NEW w \in Targets, Serving(w)
               PROVE  serves[w] >= request[r].since
    BY DEF ReloadReachesAll
  <2>1. Missing(r) = {} /\ "failed" \notin Results(r)
    BY DEF Outcome
  <2>2. w \in DOMAIN request[r].answers
    BY <2>1 DEF Missing
  <2>3. request[r].answers[w] # "failed"
    BY <2>1, <2>2 DEF Results
  <2> QED
    BY <2>2, <2>3 DEF CommandInv, AnswersAreTrue, Asked, Fresh, Serving
<1> QED
  BY <1>1, CommandInvHolds, PTL
-----------------------------------------------------------------------------
(* The watchdog and the accept lock *)

\* What the cell in shared memory says of a process that is up is never older than
\* the truth: the mark is there once the loop has turned, and only then.
MarksAgree ==
  \A w \in Index :
    /\ proc[w].loop = "booting" => beat[w].moc = Never /\ beat[w].so = 0
    /\ Up(w) /\ proc[w].loop # "booting" => beat[w].moc # Never /\ beat[w].so = 1
    /\ Up(w) /\ proc[w].loop = "booting" => proc[w].quiet >= proc[w].age \/ proc[w].quiet > BootGrace
    /\ Up(w) /\ beat[w].moc # Never => proc[w].quiet >= beat[w].moc
    /\ proc[w].verdict = "hung" => ~Up(w)

\* The supervisor reads and judges within one tick; it sleeps only for the dead.
BossKnows ==
  /\ boss.at \in {"read", "judge"} => due
  /\ boss.at \in {"sleep", "judge"} => boss.who \in boss.todo
  /\ boss.at = "sleep" => \A w \in boss.todo : ~Up(w)
  /\ boss.at = "judge" /\ Up(boss.who) =>
       /\ beat[boss.who].so = 0 => boss.seen = proc[boss.who].quiet
       /\ boss.moc # Never => boss.seen >= boss.moc

\* The ticks that the respawns still to be made will take at most.
RestOf(pause, dead) == pause + (Cardinality(dead) - 1) * DelayMax
Rest == RestOf(boss.sleep, boss.todo)
Bound == Silence + 1 + (Watched - 1) * DelayMax

\* Who is inside accept() is up, and the mark is as old as the lock.
Holder ==
  lock # 0 => /\ Up(lock) /\ proc[lock].loop = "accept"
              /\ beat[lock].moc >= lockAge \/ beat[lock].moc > Silence

\* How late the supervisor may be for it.
InTime ==
  /\ boss.at # "gone" => lockAge <= Bound
  /\ lock # 0 =>
       /\ boss.at = "watch" => lockAge <= Silence + (IF due THEN 1 ELSE 0)
       /\ boss.at = "sleep" => lockAge + Rest + (IF due THEN 0 ELSE 1) <= Bound
       /\ boss.at \in {"read", "judge"} /\ lockAge > Silence => lock \in boss.todo
       /\ boss.at = "judge" /\ lockAge > Silence /\ lock = boss.who =>
            boss.moc = Never \/ boss.moc > Silence

WatchInv == WatchTypeOK /\ MarksAgree /\ BossKnows /\ Holder /\ InTime /\ KillsOnlyTheSilent


LEMMA NextOfIsIn ==
  ASSUME NEW S \in SUBSET Index, S # {}
  PROVE  NextOf(S) \in S
<1>1. S \in SUBSET Nat
  BY WatchAssumption DEF Index
<1>2. \E m \in S : \A n \in S : m <= n
  BY <1>1, LeastExists
<1> QED
  BY <1>2 DEF NextOf

LEMMA CapsSuffice ==
  /\ AgeCap \in Nat /\ AgeCap > BootGrace
  /\ QuietCap \in Nat /\ QuietCap > BootGrace /\ QuietCap > Silence
  /\ LockCap \in Nat
<1>1. Watched * DelayMax \in Nat
  BY WatchAssumption
<1> QED
  BY <1>1, WatchAssumption DEF AgeCap, QuietCap, LockCap

\* The respawns of a round last as long as those of the dead, and who is up is not
\* among them.
LEMMA RestBounded ==
  ASSUME NEW dead \in SUBSET Index, dead # {}, NEW pause \in 0 .. DelayMax
  PROVE  /\ IsFiniteSet(dead) /\ Cardinality(dead) \in Nat \ {0}
         /\ RestOf(pause, dead) \in Nat /\ RestOf(pause, dead) >= pause
         /\ (\E w \in Index : w \notin dead) => RestOf(pause, dead) <= (Watched - 1) * DelayMax
<1> DEFINE n == Cardinality(dead)
<1>1. IsFiniteSet(Index) /\ Cardinality(Index) = Watched
  BY FS_Interval, WatchAssumption DEF Index
<1>2. IsFiniteSet(dead) /\ n \in Nat /\ n <= Watched
  BY <1>1, FS_Subset, FS_CardinalityType
<1>3. n # 0
  BY <1>2, FS_EmptySet
<1>4. (\E w \in Index : w \notin dead) => n <= Watched - 1
  <2>1. ASSUME NEW w \in Index, w \notin dead PROVE n <= Watched - 1
    <3>1. dead \subseteq Index \ {w}
      BY <2>1
    <3>2. IsFiniteSet(Index \ {w}) /\ Cardinality(Index \ {w}) = Watched - 1
      BY <1>1, FS_RemoveElement
    <3> QED
      BY <3>1, <3>2, FS_Subset
  <2> QED
    BY <2>1
<1>5. RestOf(pause, dead) = pause + (n - 1) * DelayMax
  BY DEF RestOf
<1> HIDE DEF n
<1>6. DelayMax \in Nat /\ Watched \in Nat
  BY WatchAssumption
<1>7. (n - 1) * DelayMax \in Nat
  BY <1>2, <1>3, <1>6
<1>8. n <= Watched - 1 => (n - 1) * DelayMax + DelayMax <= (Watched - 1) * DelayMax
  <2>1. SUFFICES ASSUME n <= Watched - 1 PROVE (n - 1) * DelayMax + DelayMax <= (Watched - 1) * DelayMax
    OBVIOUS
  <2>2. PICK m \in Nat : Watched - 1 = n + m
    <3>1. (Watched - 1) - n \in Nat
      BY <1>2, <1>6, <2>1
    <3> QED
      BY <1>2, <1>6, <3>1
  <2>3. (n - 1) * DelayMax + DelayMax = n * DelayMax
    BY <1>2, <1>6
  <2>4. (n + m) * DelayMax = n * DelayMax + m * DelayMax
    BY <1>2, <1>6, <2>2
  <2>5. m * DelayMax \in Nat /\ n * DelayMax \in Nat
    BY <1>2, <1>6
  <2> QED
    BY <2>2, <2>3, <2>4, <2>5
<1> QED
  BY <1>2, <1>3, <1>4, <1>5, <1>6, <1>7, <1>8 DEF n

\* One of them less, the next pause is within what was left.
LEMMA RestShrinks ==
  ASSUME NEW dead \in SUBSET Index, NEW w \in dead, dead \ {w} # {},
         NEW pause \in 0 .. DelayMax
  PROVE  RestOf(pause, dead \ {w}) <= RestOf(0, dead)
<1> DEFINE n == Cardinality(dead)
<1>1. IsFiniteSet(dead) /\ n \in Nat
  BY RestBounded, WatchAssumption
<1>2. Cardinality(dead \ {w}) = n - 1
  BY <1>1, FS_RemoveElement
<1>3. RestOf(pause, dead \ {w}) = pause + ((n - 1) - 1) * DelayMax /\ RestOf(0, dead) = 0 + (n - 1) * DelayMax
  BY <1>2 DEF RestOf
<1> HIDE DEF n
<1>4. DelayMax \in Nat
  BY WatchAssumption
<1>5. ((n - 1) - 1) * DelayMax + DelayMax = (n - 1) * DelayMax
  BY <1>1, <1>4
<1>6. ((n - 1) - 1) * DelayMax \in Int
  BY <1>1, <1>4
<1> QED
  BY <1>3, <1>4, <1>5, <1>6

\* The bound leaves room for a whole round of respawns.
LEMMA BoundIs == /\ Bound \in Nat /\ Bound >= Silence + 1
                 /\ Bound = (Silence + 1) + (Watched - 1) * DelayMax
                 /\ (Watched - 1) * DelayMax \in Nat
<1>1. (Watched - 1) * DelayMax \in Nat
  BY WatchAssumption
<1> QED
  BY <1>1, WatchAssumption DEF Bound

Process == [life : {"up", "dead"}, loop : {"booting", "free", "stuck", "accept", "closing"}, age : Nat,
            quiet : Nat, told : BOOLEAN, alone : 0 .. CutGrace + 1, deaths : Nat,
            verdict : {"none", "hung", "torn"}]
Cell == [moc : {Never} \cup Nat, so : {0, 1}]
Overseer == [at : {"watch", "sleep", "read", "judge", "gone"}, who : 0 .. Watched,
             todo : SUBSET Index, moc : {Never} \cup Nat, seen : Nat, sleep : 0 .. DelayMax]

LEMMA TypesAre ==
  WatchTypeOK <=> /\ boss \in Overseer
                  /\ proc \in [Index -> Process]
                  /\ beat \in [Index -> Cell]
                  /\ lock \in {0} \cup Index /\ lockAge \in Nat
                  /\ due \in BOOLEAN
                  /\ troubles \in 0 .. MaxTroubles
BY DEF WatchTypeOK, Process, Cell, Overseer

\* MarksAgree and KillsOnlyTheSilent of one worker.
Agrees(w) ==
    /\ proc[w].loop = "booting" => beat[w].moc = Never /\ beat[w].so = 0
    /\ Up(w) /\ proc[w].loop # "booting" => beat[w].moc # Never /\ beat[w].so = 1
    /\ Up(w) /\ proc[w].loop = "booting" => proc[w].quiet >= proc[w].age \/ proc[w].quiet > BootGrace
    /\ Up(w) /\ beat[w].moc # Never => proc[w].quiet >= beat[w].moc
    /\ proc[w].verdict = "hung" => ~Up(w)

LEMMA AllAgree == MarksAgree <=> \A w \in Index : Agrees(w)
BY DEF MarksAgree, Agrees

\* A step of worker w that the supervisor takes no part in.
LEMMA WorkerStepKeeps ==
  ASSUME WatchInv, NEW w \in Index, WatchTypeOK', UNCHANGED <<boss, due>>, Up(w), Agrees(w)',
         \A v \in Index : v # w => proc'[v] = proc[v] /\ beat'[v] = beat[v],
         proc'[w].verdict = proc[w].verdict,
         Up(w)' /\ beat'[w].so = 0 => beat[w].so = 0 /\ proc'[w].quiet = proc[w].quiet,
         lockAge' <= lockAge,
         \/ lock' = 0
         \/ /\ lock' = lock /\ lockAge' = lockAge
            /\ lock = w => Up(w)' /\ proc'[w].loop = "accept" /\ beat'[w] = beat[w]
         \/ lock' = w /\ lockAge' = 0 /\ Up(w)' /\ proc'[w].loop = "accept"
  PROVE  WatchInv'
<1> USE DEF WatchInv
<1>1. lock \in {0} \cup Index /\ lockAge \in Nat /\ lockAge' \in Nat
  BY DEF WatchTypeOK
<1>2. MarksAgree'
  <2>1. ASSUME NEW v \in Index, v # w PROVE Agrees(v)'
    <3>1. Agrees(v)
      BY AllAgree
    <3> QED
      BY <2>1, <3>1 DEF Agrees, Up
  <2>2. \A v \in Index : Agrees(v)'
    BY <2>1
  <2> QED
    BY <2>2 DEF Agrees, MarksAgree
<1>3. BossKnows'
  <2>1. \A v \in Index : Up(v)' => Up(v)
    BY DEF Up
  <2>2. \A v \in Index : Up(v)' /\ beat'[v].so = 0 => beat[v].so = 0 /\ proc'[v].quiet = proc[v].quiet
    OBVIOUS
  <2>3. boss.todo \subseteq Index
    BY DEF WatchTypeOK
  <2> QED
    BY <2>1, <2>2, <2>3 DEF BossKnows
<1>4. Holder'
  <2>1. CASE lock' = 0
    BY <2>1 DEF Holder
  <2>2. CASE /\ lock' = lock /\ lockAge' = lockAge /\ lock # 0
             /\ lock = w => Up(w)' /\ proc'[w].loop = "accept" /\ beat'[w] = beat[w]
    <3>1. lock \in Index /\ beat'[lock] = beat[lock]
      BY <1>1, <2>2
    <3>2. Up(lock)' /\ proc'[lock].loop = "accept"
      BY <2>2, <3>1 DEF Holder, Up
    <3> QED
      BY <2>2, <3>1, <3>2 DEF Holder
  <2>3. CASE lock' = w /\ lockAge' = 0 /\ Up(w)' /\ proc'[w].loop = "accept"
    <3>1. beat'[w].moc \in Nat
      <4>1. beat'[w] \in Cell
        BY DEF WatchTypeOK, Cell
      <4>2. beat'[w].moc # Never
        BY <2>3 DEF Agrees
      <4> QED
        BY <4>1, <4>2 DEF Cell
    <3> QED
      BY <2>3, <3>1 DEF Holder
  <2> QED
    BY <2>1, <2>2, <2>3
<1>5. InTime'
  <2>1. boss'.at # "gone" => lockAge' <= Bound
    <3>1. Bound \in Int
      BY BoundIs
    <3> QED
      BY <1>1, <3>1 DEF InTime
  <2>2. CASE lock' = 0
    BY <2>1, <2>2 DEF InTime
  <2>3. CASE lock' = lock /\ lockAge' = lockAge
    BY <2>1, <2>3 DEF InTime, Rest
  <2>4. CASE lock' = w /\ lockAge' = 0
    <3>1. boss.at = "sleep" => Rest' = Rest /\ Rest \in Nat /\ Rest <= (Watched - 1) * DelayMax
      <4>1. ASSUME boss.at = "sleep"
            PROVE  Rest' = Rest /\ Rest \in Nat /\ Rest <= (Watched - 1) * DelayMax
        <5>1. w \notin boss.todo /\ boss.todo # {}
          BY <4>1 DEF BossKnows
        <5>2. boss.todo \in SUBSET Index /\ boss.sleep \in 0 .. DelayMax
          BY DEF WatchTypeOK
        <5> QED
          BY <5>1, <5>2, RestBounded DEF Rest
      <4> QED
        BY <4>1
    <3>2. Silence \in Nat \ {0}
      BY WatchAssumption
    <3>3. lockAge' <= Silence /\ ~(lockAge' > Silence)
      BY <2>4, WatchAssumption
    <3>4. boss.at = "sleep" => lockAge' + Rest' + (IF due' THEN 0 ELSE 1) <= Bound
      BY <2>4, <3>1, <3>2, BoundIs
    <3>5. lockAge' <= Silence + (IF due' THEN 1 ELSE 0)
      BY <2>4, WatchAssumption
    <3> QED
      BY <2>1, <3>3, <3>4, <3>5 DEF InTime
  <2> QED
    BY <2>2, <2>3, <2>4
<1>6. KillsOnlyTheSilent'
  <2>1. ASSUME NEW v \in Index, v # w, proc'[v].verdict = "hung"
        PROVE  proc'[v].quiet > (IF proc'[v].loop = "booting" THEN BootGrace ELSE Silence)
    <3>1. proc'[v] = proc[v]
      BY <2>1
    <3> QED
      BY <2>1, <3>1 DEF KillsOnlyTheSilent
  <2>2. proc'[w].verdict # "hung"
    BY DEF MarksAgree
  <2> QED
    BY <2>1, <2>2 DEF KillsOnlyTheSilent
<1> QED
  BY <1>2, <1>3, <1>4, <1>5, <1>6

LEMMA BootsKeeps == ASSUME NEW w \in Index PROVE WatchInv /\ Boots(w) => WatchInv'
<1> SUFFICES ASSUME WatchInv, Boots(w) PROVE WatchInv'
  OBVIOUS
<1> USE DEF WatchInv
<1>1. proc \in [Index -> Process] /\ beat \in [Index -> Cell] /\ Up(w) /\ proc[w].loop = "booting"
      /\ proc' = [proc EXCEPT ![w].loop = "free", ![w].quiet = 0]
      /\ beat' = [beat EXCEPT ![w] = Patted] /\ UNCHANGED <<boss, lock, lockAge, due, troubles>>
  BY TypesAre DEF Boots
<1>2. /\ proc' \in [Index -> Process]
      /\ proc'[w].loop = "free" /\ proc'[w].quiet = 0 /\ Up(w)' /\ proc'[w].verdict = proc[w].verdict
      /\ \A v \in Index : v # w => proc'[v] = proc[v]
  BY <1>1 DEF Process, Up
<1>3. /\ beat' \in [Index -> Cell] /\ beat'[w].moc = 0 /\ beat'[w].so = 1
      /\ \A v \in Index : v # w => beat'[v] = beat[v]
  BY <1>1 DEF Cell, Patted
<1>4. WatchTypeOK'
  BY <1>1, <1>2, <1>3 DEF WatchTypeOK, Process, Cell
<1>5. Agrees(w)'
  <2>1. proc[w].verdict # "hung"
    BY <1>1 DEF MarksAgree
  <2> QED
    BY <1>2, <1>3, <2>1 DEF Agrees, Up, Never
<1>6. lock # w
  BY <1>1, WatchAssumption DEF Holder, Index
<1>7. lockAge' <= lockAge
  BY <1>1 DEF WatchTypeOK
<1> QED
  BY <1>1, <1>2, <1>3, <1>4, <1>5, <1>6, <1>7, WorkerStepKeeps

LEMMA HangsKeeps ==
  ASSUME NEW w \in Index, NEW where \in {"stuck", "accept"}
  PROVE  WatchInv /\ Hangs(w, where) => WatchInv'
<1> SUFFICES ASSUME WatchInv, Hangs(w, where) PROVE WatchInv'
  OBVIOUS
<1> USE DEF WatchInv
<1>1. proc \in [Index -> Process] /\ Up(w) /\ proc[w].loop = "free"
      /\ proc' = [proc EXCEPT ![w].loop = where] /\ UNCHANGED <<boss, beat, due>>
  BY TypesAre DEF Hangs
<1>2. /\ proc' \in [Index -> Process]
      /\ proc'[w].loop = where /\ Up(w)' /\ proc'[w].verdict = proc[w].verdict
      /\ proc'[w].quiet = proc[w].quiet
      /\ \A v \in Index : v # w => proc'[v] = proc[v]
  BY <1>1 DEF Process, Up
<1>3. /\ lock' \in {0} \cup Index /\ lockAge' \in Nat /\ troubles' \in 0 .. MaxTroubles
      /\ lockAge' <= lockAge
  BY WatchAssumption DEF Hangs, WatchTypeOK
<1>4. WatchTypeOK'
  BY <1>1, <1>2, <1>3 DEF WatchTypeOK, Process
<1>5. Agrees(w)'
  BY <1>1, <1>2 DEF Agrees, MarksAgree, Up
<1>6. lock # w
  BY <1>1, WatchAssumption DEF Holder, Index
<1>7. \/ lock' = lock /\ lockAge' = lockAge
      \/ lock' = w /\ lockAge' = 0 /\ proc'[w].loop = "accept"
  BY <1>2 DEF Hangs
<1> QED
  BY <1>1, <1>2, <1>3, <1>4, <1>5, <1>6, <1>7, WorkerStepKeeps

LEMMA UnblocksKeeps == ASSUME NEW w \in Index PROVE WatchInv /\ Unblocks(w) => WatchInv'
<1> SUFFICES ASSUME WatchInv, Unblocks(w) PROVE WatchInv'
  OBVIOUS
<1> USE DEF WatchInv
<1>1. proc \in [Index -> Process] /\ Up(w) /\ proc[w].loop \in {"stuck", "accept"}
      /\ proc' = [proc EXCEPT ![w].loop = "free"] /\ UNCHANGED <<boss, beat, due, troubles>>
  BY TypesAre DEF Unblocks
<1>2. /\ proc' \in [Index -> Process]
      /\ proc'[w].loop = "free" /\ Up(w)' /\ proc'[w].verdict = proc[w].verdict
      /\ proc'[w].quiet = proc[w].quiet
      /\ \A v \in Index : v # w => proc'[v] = proc[v]
  BY <1>1 DEF Process, Up
<1>3. /\ lock' \in {0} \cup Index /\ lockAge' \in Nat /\ lockAge' <= lockAge
      /\ \/ lock' = 0
         \/ lock' = lock /\ lockAge' = lockAge /\ lock # w
  BY DEF Unblocks, WatchTypeOK
<1>4. WatchTypeOK'
  BY <1>1, <1>2, <1>3 DEF WatchTypeOK, Process
<1>5. Agrees(w)'
  BY <1>1, <1>2 DEF Agrees, MarksAgree, Up
<1> QED
  BY <1>1, <1>2, <1>3, <1>4, <1>5, WorkerStepKeeps

LEMMA ObeysKeeps == ASSUME NEW w \in Index PROVE WatchInv /\ Obeys(w) => WatchInv'
<1> SUFFICES ASSUME WatchInv, Obeys(w) PROVE WatchInv'
  OBVIOUS
<1> USE DEF WatchInv
<1>1. proc \in [Index -> Process] /\ Up(w) /\ proc[w].loop = "free"
      /\ proc' = [proc EXCEPT ![w].loop = "closing"]
      /\ UNCHANGED <<boss, beat, lock, lockAge, due, troubles>>
  BY TypesAre DEF Obeys
<1>2. /\ proc' \in [Index -> Process]
      /\ proc'[w].loop = "closing" /\ Up(w)' /\ proc'[w].verdict = proc[w].verdict
      /\ proc'[w].quiet = proc[w].quiet
      /\ \A v \in Index : v # w => proc'[v] = proc[v]
  BY <1>1 DEF Process, Up
<1>3. WatchTypeOK' /\ lockAge' <= lockAge
  BY <1>1, <1>2 DEF WatchTypeOK, Process
<1>4. Agrees(w)'
  BY <1>1, <1>2 DEF Agrees, MarksAgree, Up
<1>5. lock # w
  BY <1>1, WatchAssumption DEF Holder, Index
<1> QED
  BY <1>1, <1>2, <1>3, <1>4, <1>5, WorkerStepKeeps

LEMMA DepartedRecord ==
  ASSUME NEW p \in Process
  PROVE  /\ Departed(p) \in Process
         /\ Departed(p).life = "dead" /\ Departed(p).loop = "free"
         /\ Departed(p).verdict = p.verdict
<1>1. Departed(p) = [p EXCEPT !.life = "dead", !.loop = "free", !.quiet = 0, !.told = FALSE, !.alone = 0]
  BY DEF Departed
<1>2. 0 \in 0 .. CutGrace + 1
  BY WatchAssumption
<1>3. /\ Departed(p).life = "dead" /\ Departed(p).loop = "free" /\ Departed(p).verdict = p.verdict
      /\ Departed(p).quiet = 0 /\ Departed(p).told = FALSE /\ Departed(p).alone = 0
      /\ Departed(p).age = p.age /\ Departed(p).deaths = p.deaths
  BY <1>1 DEF Process
<1>4. Departed(p) \in Process
  <2> DEFINE q == [p EXCEPT !.life = "dead", !.loop = "free", !.quiet = 0]
  <2>1. q \in Process
    BY DEF Process
  <2>2. Departed(p) = [q EXCEPT !.told = FALSE, !.alone = 0]
    BY <1>1
  <2> HIDE DEF q
  <2>3. [q EXCEPT !.told = FALSE] \in Process
    BY <2>1 DEF Process
  <2> QED
    BY <1>2, <2>1, <2>2 DEF Process
<1> QED
  BY <1>3, <1>4

\* A process that ends by itself.
LEMMA DepartedIs ==
  ASSUME WatchTypeOK, NEW w \in Index, proc' = [proc EXCEPT ![w] = Departed(@)]
  PROVE  /\ proc' \in [Index -> Process]
         /\ proc'[w].loop = "free" /\ ~Up(w)' /\ proc'[w].verdict = proc[w].verdict
         /\ \A v \in Index : v # w => proc'[v] = proc[v]
<1>1. proc \in [Index -> Process]
  BY TypesAre
<1>2. /\ Departed(proc[w]) \in Process
      /\ Departed(proc[w]).life = "dead" /\ Departed(proc[w]).loop = "free"
      /\ Departed(proc[w]).verdict = proc[w].verdict
  BY <1>1, DepartedRecord
<1> QED
  BY <1>1, <1>2 DEF Up

LEMMA QuitsKeeps == ASSUME NEW w \in Index PROVE WatchInv /\ Quits(w) => WatchInv'
<1> SUFFICES ASSUME WatchInv, Quits(w) PROVE WatchInv'
  OBVIOUS
<1> USE DEF WatchInv
<1>1. /\ Up(w) /\ proc[w].loop = "closing"
      /\ UNCHANGED <<boss, beat, lock, lockAge, due, troubles>>
  BY DEF Quits
<1>2. /\ proc' \in [Index -> Process]
      /\ proc'[w].loop = "free" /\ ~Up(w)' /\ proc'[w].verdict = proc[w].verdict
      /\ \A v \in Index : v # w => proc'[v] = proc[v]
  BY DepartedIs DEF Quits
<1>3. WatchTypeOK' /\ lockAge' <= lockAge
  BY <1>1, <1>2 DEF WatchTypeOK, Process
<1>4. Agrees(w)'
  BY <1>1, <1>2 DEF Agrees
<1>5. lock # w
  BY <1>1, WatchAssumption DEF Holder, Index
<1> QED
  BY <1>1, <1>2, <1>3, <1>4, <1>5, WorkerStepKeeps

LEMMA CrashesKeeps == ASSUME NEW w \in Index PROVE WatchInv /\ Crashes(w) => WatchInv'
<1> SUFFICES ASSUME WatchInv, Crashes(w) PROVE WatchInv'
  OBVIOUS
<1> USE DEF WatchInv
<1>1. Up(w) /\ UNCHANGED <<boss, beat, lockAge, due>>
  BY DEF Crashes
<1>2. /\ proc' \in [Index -> Process]
      /\ proc'[w].loop = "free" /\ ~Up(w)' /\ proc'[w].verdict = proc[w].verdict
      /\ \A v \in Index : v # w => proc'[v] = proc[v]
  BY DepartedIs DEF Crashes
<1>3. /\ lock' \in {0} \cup Index /\ lockAge' <= lockAge /\ troubles' \in 0 .. MaxTroubles
      /\ lock' = 0 \/ (lock' = lock /\ lock # w)
  BY WatchAssumption DEF Crashes, WatchTypeOK
<1>4. WatchTypeOK'
  BY <1>1, <1>2, <1>3 DEF WatchTypeOK, Process
<1>5. Agrees(w)'
  BY <1>1, <1>2 DEF Agrees
<1> QED
  BY <1>1, <1>2, <1>3, <1>4, <1>5, WorkerStepKeeps

\* A step of the supervisor that touches no process.
LEMMA BossStepKeeps ==
  ASSUME WatchInv, UNCHANGED <<proc, beat, lock, lockAge>>, boss' \in Overseer, due' \in BOOLEAN,
         troubles' \in 0 .. MaxTroubles, BossKnows', InTime'
  PROVE  WatchInv'
<1> USE DEF WatchInv
<1>1. WatchTypeOK'
  BY DEF WatchTypeOK, Overseer
<1>2. MarksAgree'
  BY DEF MarksAgree, Up
<1>3. Holder' /\ KillsOnlyTheSilent'
  BY DEF Holder, KillsOnlyTheSilent, Up
<1> QED
  BY <1>1, <1>2, <1>3

LEMMA DozesKeeps == WatchInv /\ Dozes => WatchInv'
<1> SUFFICES ASSUME WatchInv, Dozes PROVE WatchInv'
  OBVIOUS
<1> USE DEF WatchInv
<1>1. /\ boss \in Overseer /\ boss.at = "sleep" /\ boss.sleep > 0 /\ due /\ due' = FALSE
      /\ boss' = [boss EXCEPT !.sleep = boss.sleep - 1]
      /\ UNCHANGED <<proc, beat, lock, lockAge, troubles>>
  BY TypesAre DEF Dozes
<1>2. /\ boss' \in Overseer /\ boss'.at = "sleep" /\ boss'.todo = boss.todo /\ boss'.who = boss.who
      /\ boss'.sleep = boss.sleep - 1
  <2>1. boss.sleep - 1 \in 0 .. DelayMax
    BY <1>1, WatchAssumption DEF Overseer
  <2> QED
    BY <1>1, <2>1 DEF Overseer
<1>3. BossKnows'
  BY <1>1, <1>2 DEF BossKnows, Up
<1>4. InTime'
  <2>1. Rest' = Rest - 1 /\ Rest \in Nat
    <3>1. boss.todo \in SUBSET Index /\ boss.todo # {} /\ boss.sleep \in 0 .. DelayMax
      BY <1>1 DEF Overseer, BossKnows
    <3>2. RestOf(boss.sleep, boss.todo) \in Nat /\ Cardinality(boss.todo) \in Nat
      BY <3>1, RestBounded
    <3>3. (Cardinality(boss.todo) - 1) * DelayMax \in Int
      BY <3>2, WatchAssumption
    <3> QED
      BY <1>2, <3>1, <3>2, <3>3, WatchAssumption DEF Rest, RestOf
  <2>2. lockAge \in Nat
    BY DEF WatchTypeOK
  <2> QED
    BY <1>1, <1>2, <2>1, <2>2, BoundIs DEF InTime
<1> QED
  BY <1>1, <1>2, <1>3, <1>4, BossStepKeeps DEF WatchTypeOK

LEMMA RoundEndsKeeps == WatchInv /\ RoundEnds => WatchInv'
<1> SUFFICES ASSUME WatchInv, RoundEnds PROVE WatchInv'
  OBVIOUS
<1> USE DEF WatchInv
<1>1. /\ boss \in Overseer /\ boss.at = "read" /\ boss.todo = {} /\ due' = FALSE
      /\ boss' = [boss EXCEPT !.at = "watch", !.who = 0]
      /\ UNCHANGED <<proc, beat, lock, lockAge, troubles>>
  BY TypesAre DEF RoundEnds
<1>2. boss' \in Overseer /\ boss'.at = "watch"
  <2>1. 0 \in 0 .. Watched
    BY WatchAssumption
  <2> QED
    BY <1>1, <2>1 DEF Overseer
<1>3. BossKnows'
  BY <1>2 DEF BossKnows
<1>4. InTime'
  <2>1. lockAge \in Nat /\ Silence \in Nat
    BY WatchAssumption DEF WatchTypeOK
  <2>2. lock # 0 => lockAge <= Silence
    BY <1>1, <2>1 DEF InTime
  <2> QED
    BY <1>1, <1>2, <2>1, <2>2 DEF InTime
<1> QED
  BY <1>1, <1>2, <1>3, <1>4, BossStepKeeps DEF WatchTypeOK

LEMMA BossDiesKeeps == WatchInv /\ BossDies => WatchInv'
<1> SUFFICES ASSUME WatchInv, BossDies PROVE WatchInv'
  OBVIOUS
<1> USE DEF WatchInv
<1>1. UNCHANGED <<proc, beat, lock, lockAge>> /\ boss' = Absent /\ due' = FALSE
  BY DEF BossDies
<1>2. boss' \in Overseer /\ boss'.at = "gone"
  <2>1. Absent = [at |-> "gone", who |-> 0, todo |-> {}, moc |-> Never, seen |-> 0, sleep |-> 0]
    BY DEF Absent, Watching
  <2> QED
    BY <1>1, <2>1, WatchAssumption DEF Overseer
<1>3. troubles' \in 0 .. MaxTroubles
  BY WatchAssumption DEF BossDies, WatchTypeOK
<1>4. BossKnows' /\ InTime'
  BY <1>2 DEF BossKnows, InTime
<1> QED
  BY <1>1, <1>2, <1>3, <1>4, BossStepKeeps

LEMMA ReadsMarkKeeps == WatchInv /\ ReadsMark => WatchInv'
<1> SUFFICES ASSUME WatchInv, ReadsMark PROVE WatchInv'
  OBVIOUS
<1> USE DEF WatchInv
<1>2. PICK w \in Index : w = NextOf(boss.todo) /\ w \in boss.todo
  <2>1. boss.todo \in SUBSET Index /\ boss.todo # {}
    BY DEF WatchTypeOK, ReadsMark
  <2> QED
    BY <2>1, NextOfIsIn
<1>1. /\ boss \in Overseer /\ boss.at = "read" /\ boss.todo # {}
      /\ boss' = [boss EXCEPT !.at = "judge", !.who = w, !.moc = beat[w].moc, !.seen = proc[w].quiet]
      /\ UNCHANGED <<proc, beat, lock, lockAge, due, troubles>>
  BY <1>2, TypesAre DEF ReadsMark
<1>3. proc[w] \in Process /\ beat[w] \in Cell
  BY <1>2, TypesAre
<1>4. /\ boss' \in Overseer /\ boss'.at = "judge" /\ boss'.who = w /\ boss'.todo = boss.todo
      /\ boss'.moc = beat[w].moc /\ boss'.seen = proc[w].quiet
  <2>1. w \in 0 .. Watched /\ beat[w].moc \in {Never} \cup Nat /\ proc[w].quiet \in Nat
    BY <1>2, <1>3, WatchAssumption DEF Index, Process, Cell
  <2> QED
    BY <1>1, <2>1 DEF Overseer
<1>5. BossKnows'
  <2>1. boss'.moc # Never /\ Up(w) => boss'.seen >= boss'.moc
    BY <1>2, <1>4 DEF MarksAgree
  <2>2. Up(w)' <=> Up(w)
    BY <1>1 DEF Up
  <2> QED
    BY <1>1, <1>2, <1>4, <2>1, <2>2 DEF BossKnows
<1>6. InTime'
  <2>1. lockAge \in Nat /\ Silence \in Nat
    BY WatchAssumption DEF WatchTypeOK
  <2>2. lock = w /\ lock # 0 /\ lockAge > Silence => boss'.moc > Silence
    <3>1. lock = w /\ lock # 0 => beat[w].moc >= lockAge \/ beat[w].moc > Silence
      BY DEF Holder
    <3>2. lock = w /\ lock # 0 => beat[w].moc \in Nat
      BY <1>2, <1>3 DEF Holder, MarksAgree, Cell
    <3> QED
      BY <1>4, <2>1, <3>1, <3>2
  <2> QED
    BY <1>1, <1>4, <2>2 DEF InTime
<1> QED
  BY <1>1, <1>4, <1>5, <1>6, BossStepKeeps DEF WatchTypeOK

LEMMA GoesOnEffect ==
  ASSUME boss \in Overseer, NEW exited \in SUBSET Index, GoesOn(exited)
  PROVE  /\ boss' \in Overseer
         /\ \/ exited = {} /\ boss'.at = "read" /\ boss'.todo = {w \in Index : Up(w)'}
            \/ /\ exited # {} /\ boss'.at = "sleep" /\ boss'.todo = exited
               /\ boss'.who \in exited /\ boss'.sleep \in 0 .. DelayMax
<1>1. CASE exited = {}
  <2>1. boss' = [boss EXCEPT !.at = "read", !.todo = {w \in Index : Up(w)'}]
    BY <1>1 DEF GoesOn
  <2>2. {w \in Index : Up(w)'} \in SUBSET Index
    OBVIOUS
  <2> QED
    BY <1>1, <2>1, <2>2 DEF Overseer
<1>2. CASE exited # {}
  <2>1. PICK pause \in 0 .. DelayMax :
          boss' = [boss EXCEPT !.at = "sleep", !.todo = exited, !.who = NextOf(exited), !.sleep = pause]
    BY <1>2 DEF GoesOn
  <2>2. PICK w \in exited : w = NextOf(exited)
    BY <1>2, NextOfIsIn
  <2>3. w \in 0 .. Watched
    BY WatchAssumption DEF Index
  <2> QED
    BY <1>2, <2>1, <2>2, <2>3 DEF Overseer
<1> QED
  BY <1>1, <1>2

LEMMA WakesKeeps == WatchInv /\ Wakes => WatchInv'
<1> SUFFICES ASSUME WatchInv, Wakes PROVE WatchInv'
  OBVIOUS
<1> USE DEF WatchInv
<1> DEFINE exited == {w \in Index : ~Up(w)}
<1>1. /\ boss \in Overseer /\ boss.at = "watch" /\ due /\ GoesOn(exited)
      /\ UNCHANGED <<proc, beat, lock, lockAge, due, troubles>>
  BY TypesAre DEF Wakes
<1>2. /\ exited \in SUBSET Index
      /\ \A w \in exited : ~Up(w)
      /\ \A w \in Index : Up(w)' <=> Up(w)
  BY <1>1 DEF Up
<1> HIDE DEF exited
<1>3. /\ boss' \in Overseer
      /\ \/ boss'.at = "read" /\ boss'.todo = {w \in Index : Up(w)'}
         \/ /\ boss'.at = "sleep" /\ boss'.todo = exited /\ exited # {}
            /\ boss'.who \in exited /\ boss'.sleep \in 0 .. DelayMax
  BY <1>1, <1>2, GoesOnEffect
<1>4. BossKnows'
  BY <1>1, <1>2, <1>3 DEF BossKnows
<1>5. InTime'
  <2>1. lockAge \in Nat /\ lockAge' = lockAge /\ lock' = lock /\ due'
    BY <1>1 DEF WatchTypeOK
  <2>2. lock # 0 => lock \in Index /\ Up(lock) /\ lockAge <= Silence + 1
    BY <1>1 DEF WatchTypeOK, Holder, InTime
  <2>3. lockAge <= Bound
    BY <1>1 DEF InTime
  <2>4. CASE boss'.at = "read"
    BY <1>2, <1>3, <2>1, <2>2, <2>3, <2>4 DEF InTime
  <2>5. CASE boss'.at = "sleep"
    <3>1. Rest' = RestOf(boss'.sleep, boss'.todo)
      BY DEF Rest
    <3>2. lock # 0 => Rest' \in Nat /\ Rest' <= (Watched - 1) * DelayMax
      <4>1. lock # 0 => lock \notin exited
        BY <1>2, <2>2
      <4> QED
        BY <1>2, <1>3, <2>2, <2>5, <3>1, <4>1, RestBounded
    <3>3. lock # 0 => lockAge + Rest' <= Bound
      BY <2>1, <2>2, <3>2, BoundIs, WatchAssumption
    <3> QED
      BY <2>1, <2>3, <2>5, <3>2, <3>3 DEF InTime
  <2> QED
    BY <1>3, <2>4, <2>5
<1> QED
  BY <1>1, <1>3, <1>4, <1>5, BossStepKeeps DEF WatchTypeOK

LEMMA SpawnsKeeps == WatchInv /\ Spawns => WatchInv'
<1> SUFFICES ASSUME WatchInv, Spawns PROVE WatchInv'
  OBVIOUS
<1> USE DEF WatchInv
<1>1. boss \in Overseer /\ proc \in [Index -> Process] /\ beat \in [Index -> Cell]
  BY TypesAre
<1>2. PICK w \in Index : w = boss.who /\ w \in boss.todo
  BY <1>1 DEF Spawns, BossKnows, Overseer
<1>3. PICK n \in Nat : proc' = [proc EXCEPT ![w] = Newborn(n)]
  <2>1. Smaller(Deaths(w) + 1, DelayMax) \in Nat
    <3>1. proc[w].deaths \in Nat
      BY <1>1 DEF Process
    <3>2. Deaths(w) \in Nat
      BY <3>1 DEF Deaths
    <3> QED
      BY <3>2, WatchAssumption DEF Smaller
  <2> QED
    BY <1>2, <2>1 DEF Spawns
<1>4. /\ boss.at = "sleep" /\ boss.sleep = 0 /\ due /\ UNCHANGED <<lock, lockAge, due, troubles>>
      /\ beat' = [beat EXCEPT ![w] = Blank] /\ GoesOn(boss.todo \ {w})
  BY <1>2 DEF Spawns, Reset
<1>5. /\ proc' \in [Index -> Process]
      /\ proc'[w].life = "up" /\ proc'[w].loop = "booting" /\ proc'[w].quiet = 0
      /\ proc'[w].age = 0 /\ proc'[w].verdict = "none"
      /\ \A v \in Index : v # w => proc'[v] = proc[v]
  <2>1. Newborn(n) = [life |-> "up", loop |-> "booting", age |-> 0, quiet |-> 0, told |-> FALSE,
                      alone |-> 0, deaths |-> n, verdict |-> "none"]
    BY DEF Newborn
  <2>2. Newborn(n) \in Process
    BY <2>1, WatchAssumption DEF Process
  <2>3. /\ proc' \in [Index -> Process] /\ proc'[w] = Newborn(n)
        /\ \A v \in Index : v # w => proc'[v] = proc[v]
    BY <1>1, <1>3, <2>2
  <2> QED
    BY <2>1, <2>3
<1>6. /\ beat' \in [Index -> Cell] /\ beat'[w].moc = Never /\ beat'[w].so = 0
      /\ \A v \in Index : v # w => beat'[v] = beat[v]
  BY <1>1, <1>4 DEF Cell, Blank
<1>7. ~Up(w) /\ w \in boss.todo /\ \A v \in boss.todo : ~Up(v)
  BY <1>2, <1>4 DEF BossKnows
<1> DEFINE left == boss.todo \ {w}
<1>8. /\ boss' \in Overseer
      /\ \/ boss'.at = "read" /\ boss'.todo = {v \in Index : Up(v)'}
         \/ /\ boss'.at = "sleep" /\ boss'.todo = left /\ left # {}
            /\ boss'.who \in left /\ boss'.sleep \in 0 .. DelayMax
  <2>1. left \in SUBSET Index
    BY <1>1 DEF Overseer
  <2> QED
    BY <1>1, <1>4, <2>1, GoesOnEffect
<1>9. WatchTypeOK'
  BY <1>4, <1>5, <1>6, <1>8 DEF WatchTypeOK, Process, Cell, Overseer
<1>10. MarksAgree' /\ KillsOnlyTheSilent'
  <2>1. Agrees(w)'
    BY <1>5, <1>6 DEF Agrees
  <2>2. ASSUME NEW v \in Index, v # w PROVE Agrees(v)'
    BY <1>5, <1>6, <2>2, AllAgree DEF Agrees, Up
  <2>3. KillsOnlyTheSilent'
    BY <1>5 DEF KillsOnlyTheSilent
  <2> QED
    BY <2>1, <2>2, <2>3 DEF MarksAgree, Agrees
<1>11. BossKnows'
  <2>1. \A v \in left : ~Up(v)'
    <3>1. left \subseteq Index
      BY <1>1 DEF Overseer
    <3> QED
      BY <1>5, <1>7, <3>1 DEF Up
  <2> QED
    BY <1>4, <1>8, <2>1 DEF BossKnows
<1>12. ASSUME lock # 0 PROVE lock \in Index /\ lock # w /\ Up(lock) /\ proc'[lock] = proc[lock]
  <2>1. lock \in Index
    BY <1>12 DEF WatchTypeOK
  <2>2. Up(lock)
    BY <1>12 DEF Holder
  <2> QED
    BY <1>5, <1>7, <2>1, <2>2
<1>13. Holder'
  <2>1. CASE lock = 0
    BY <1>4, <2>1 DEF Holder
  <2>2. CASE lock # 0
    <3>1. proc'[lock] = proc[lock] /\ beat'[lock] = beat[lock]
      BY <1>6, <1>12, <2>2
    <3> QED
      BY <1>4, <2>2, <3>1 DEF Holder, Up
  <2> QED
    BY <2>1, <2>2
<1>14. InTime'
  <2>1. lockAge \in Nat /\ lockAge' = lockAge /\ lock' = lock /\ due'
    BY <1>4 DEF WatchTypeOK
  <2>2. lock # 0 => lockAge + Rest <= Bound
    <3>1. boss.todo \in SUBSET Index /\ boss.todo # {}
      BY <1>1, <1>2 DEF Overseer
    <3>2. Rest \in Nat
      <4>1. boss.sleep \in 0 .. DelayMax
        BY <1>1 DEF Overseer
      <4> QED
        BY <3>1, <4>1, RestBounded DEF Rest
    <3>3. lock # 0 => lockAge + Rest + (IF due THEN 0 ELSE 1) <= Bound
      BY <1>4 DEF InTime
    <3> QED
      BY <1>4, <2>1, <3>2, <3>3
  <2>3. lockAge <= Bound
    BY <1>4 DEF InTime
  <2>4. CASE boss'.at = "read"
    <3>1. lock # 0 => lock \in boss'.todo
      BY <1>8, <1>12, <2>4 DEF Up
    <3> QED
      BY <2>1, <2>3, <2>4, <3>1 DEF InTime
  <2>5. CASE boss'.at = "sleep"
    <3>1. Rest' = RestOf(boss'.sleep, left) /\ Rest = RestOf(0, boss.todo)
      BY <1>4, <1>8, <2>5 DEF Rest
    <3>2. boss.todo \in SUBSET Index /\ left \in SUBSET Index
      BY <1>1 DEF Overseer
    <3>3. RestOf(boss'.sleep, left) <= RestOf(0, boss.todo)
      BY <1>7, <1>8, <2>5, <3>2, RestShrinks
    <3>4. Rest' \in Nat /\ Rest \in Nat
      BY <1>7, <1>8, <2>5, <3>1, <3>2, RestBounded, WatchAssumption
    <3>5. lock # 0 => lockAge + Rest' <= Bound
      BY <2>1, <2>2, <3>1, <3>3, <3>4, BoundIs
    <3> QED
      BY <2>1, <2>3, <2>5, <3>4, <3>5 DEF InTime
  <2> QED
    BY <1>8, <2>4, <2>5
<1> QED
  BY <1>9, <1>10, <1>11, <1>13, <1>14

LEMMA JudgesKeeps == WatchInv /\ Judges => WatchInv'
<1> SUFFICES ASSUME WatchInv, Judges PROVE WatchInv'
  OBVIOUS
<1> USE DEF WatchInv
<1>1. boss \in Overseer /\ proc \in [Index -> Process] /\ beat \in [Index -> Cell]
  BY TypesAre
<1>2. PICK w \in Index : w = boss.who /\ w \in boss.todo
  BY <1>1 DEF Judges, BossKnows, Overseer
<1>3. /\ boss.at = "judge" /\ UNCHANGED <<beat, lockAge, due, troubles>>
      /\ boss' = [boss EXCEPT !.at = "read", !.todo = boss.todo \ {w}, !.moc = Never, !.seen = 0]
  BY <1>2 DEF Judges
<1>4. /\ boss' \in Overseer /\ boss'.at = "read" /\ boss'.todo = boss.todo \ {w}
  BY <1>1, <1>3 DEF Overseer
<1>5. due /\ due'
  BY <1>3 DEF BossKnows
<1>6. /\ proc[w].quiet \in Nat /\ proc[w].age \in Nat /\ boss.seen \in Nat /\ boss.moc \in {Never} \cup Nat
      /\ beat[w].so \in {0, 1} /\ beat[w].moc \in {Never} \cup Nat
  BY <1>1, <1>2 DEF Process, Cell, Overseer
<1>7. BossKnows'
  BY <1>4, <1>5 DEF BossKnows
<1>8. lockAge \in Nat /\ lockAge <= Bound /\ lock \in {0} \cup Index /\ Silence \in Nat /\ BootGrace \in Nat
  BY <1>3, WatchAssumption DEF WatchTypeOK, InTime
<1>9. CASE Up(w) /\ Hung(w, beat[w].so)
  <2>1. PICK verdict \in {"hung", "torn"} :
          /\ verdict = IF boss.moc = Never /\ beat[w].so > 0 THEN "torn" ELSE "hung"
          /\ proc' = [proc EXCEPT ![w].life = "dead", ![w].told = FALSE, ![w].quiet = boss.seen,
                                  ![w].verdict = verdict]
    BY <1>2, <1>9 DEF Judges
  <2>2. lock' = IF lock = w THEN 0 ELSE lock
    BY <1>2, <1>9 DEF Judges
  <2>3. /\ proc' \in [Index -> Process]
        /\ proc'[w].life = "dead" /\ proc'[w].loop = proc[w].loop /\ proc'[w].quiet = boss.seen
        /\ proc'[w].verdict = verdict
        /\ \A v \in Index : v # w => proc'[v] = proc[v]
    <3> DEFINE p == [proc[w] EXCEPT !.life = "dead", !.quiet = boss.seen, !.verdict = verdict]
    <3>1. /\ p \in Process /\ p.life = "dead" /\ p.loop = proc[w].loop /\ p.quiet = boss.seen
          /\ p.verdict = verdict
      BY <1>1, <1>6 DEF Process
    <3>2. proc' = [proc EXCEPT ![w] = [p EXCEPT !.told = FALSE]]
      BY <1>1, <2>1 DEF Process
    <3> HIDE DEF p
    <3>3. /\ [p EXCEPT !.told = FALSE] \in Process
          /\ [p EXCEPT !.told = FALSE].life = "dead" /\ [p EXCEPT !.told = FALSE].loop = proc[w].loop
          /\ [p EXCEPT !.told = FALSE].quiet = boss.seen /\ [p EXCEPT !.told = FALSE].verdict = verdict
      BY <3>1 DEF Process
    <3> QED
      BY <1>1, <3>2, <3>3
  <2>4. WatchTypeOK'
    BY <1>3, <1>4, <2>2, <2>3 DEF WatchTypeOK, Process, Overseer
  <2>5. MarksAgree'
    <3>1. Agrees(w) /\ Agrees(w)'
      BY <1>3, <2>3, AllAgree DEF Agrees, Up
    <3>2. ASSUME NEW v \in Index, v # w PROVE Agrees(v)'
      BY <1>3, <2>3, <3>2, AllAgree DEF Agrees, Up
    <3> QED
      BY <3>1, <3>2 DEF MarksAgree, Agrees
  <2>6. KillsOnlyTheSilent'
    <3>1. verdict = "hung" => boss.seen > (IF proc[w].loop = "booting" THEN BootGrace ELSE Silence)
      <4>1. Agrees(w)
        BY AllAgree
      <4>2. CASE beat[w].so = 0
        <5>1. proc[w].loop = "booting"
          BY <1>9, <4>1, <4>2 DEF Agrees
        <5>2. boss.seen = proc[w].quiet
          BY <1>2, <1>3, <1>9, <4>2 DEF BossKnows
        <5>3. proc[w].age > BootGrace
          BY <1>9, <4>2 DEF Hung
        <5> QED
          BY <1>6, <1>8, <1>9, <4>1, <5>1, <5>2, <5>3 DEF Agrees
      <4>3. CASE beat[w].so # 0
        <5>1. proc[w].loop # "booting"
          BY <4>1, <4>3 DEF Agrees
        <5>2. verdict = "hung" => boss.moc # Never /\ boss.moc > Silence
          BY <1>6, <1>9, <2>1, <4>3 DEF Hung
        <5>3. boss.moc # Never => boss.seen >= boss.moc
          BY <1>2, <1>3, <1>9 DEF BossKnows
        <5> QED
          BY <1>6, <1>8, <5>1, <5>2, <5>3
      <4> QED
        BY <4>2, <4>3
    <3> QED
      BY <2>3, <3>1 DEF KillsOnlyTheSilent
  <2>7. Holder' /\ InTime'
    BY <1>2, <1>3, <1>4, <1>8, <2>2, <2>3 DEF Holder, InTime, Up
  <2> QED
    BY <1>7, <2>4, <2>5, <2>6, <2>7
<1>10. CASE ~(Up(w) /\ Hung(w, beat[w].so))
  <2>1. proc' = proc /\ lock' = lock
    BY <1>2, <1>10 DEF Judges
  <2>2. lock = w /\ lock # 0 => lockAge <= Silence
    <3> SUFFICES ASSUME lock = w, lock # 0, lockAge > Silence PROVE FALSE
      BY <1>8
    <3>1. Up(w) /\ proc[w].loop = "accept"
      BY DEF Holder
    <3>2. beat[w].so = 1
      BY <3>1 DEF MarksAgree
    <3>3. boss.moc = Never \/ boss.moc > Silence
      BY <1>2, <1>3 DEF InTime
    <3> QED
      BY <1>10, <3>1, <3>2, <3>3 DEF Hung
  <2>3. InTime'
    BY <1>3, <1>4, <1>8, <2>1, <2>2 DEF InTime
  <2>4. due' \in BOOLEAN /\ troubles' \in 0 .. MaxTroubles
    BY <1>3 DEF WatchTypeOK
  <2> QED
    BY <1>3, <1>4, <1>7, <2>1, <2>3, <2>4, BossStepKeeps
<1> QED
  BY <1>9, <1>10


LEMMA SmallerIs ==
  ASSUME NEW a \in Nat, NEW b \in Nat
  PROVE  /\ Smaller(a, b) \in Nat /\ Smaller(a, b) <= a /\ Smaller(a, b) <= b
         /\ Smaller(a, b) = a \/ Smaller(a, b) = b
BY DEF Smaller

\* What its turn does to a worker that is up, as far as the invariant goes.
LEMMA TurnedIs ==
  ASSUME WatchTypeOK, NEW w \in Index, NEW p, p = Turned(w)
  PROVE  /\ p \in Process
         /\ p.loop = proc[w].loop /\ p.verdict = proc[w].verdict
         /\ p.age = Smaller(proc[w].age + 1, AgeCap)
         /\ p.quiet = IF proc[w].loop = "free" THEN 0 ELSE Smaller(proc[w].quiet + 1, QuietCap)
<1>1. proc[w] \in Process
  BY TypesAre
<1>2. PICK alone \in 0 .. CutGrace + 1 :
        alone = IF boss.at = "gone" /\ (Guarded(w) \/ proc[w].alone > 0)
                THEN Smaller(proc[w].alone + 1, CutGrace + 1) ELSE 0
  <2>1. proc[w].alone + 1 \in Nat /\ CutGrace + 1 \in Nat
    BY <1>1, WatchAssumption DEF Process
  <2>2. Smaller(proc[w].alone + 1, CutGrace + 1) \in 0 .. CutGrace + 1
    BY <2>1 DEF Smaller
  <2>3. 0 \in 0 .. CutGrace + 1
    BY <2>1
  <2> QED
    BY <2>2, <2>3
<1>3. PICK told \in BOOLEAN :
        told = (proc[w].told \/ Overdue(w) \/ (alone > 0 /\ Guarded(w)))
  OBVIOUS
<1>4. PICK age \in Nat : age = Smaller(proc[w].age + 1, AgeCap)
  <2>1. proc[w].age + 1 \in Nat
    BY <1>1 DEF Process
  <2> QED
    BY <2>1, SmallerIs, CapsSuffice
<1>5. PICK quiet \in Nat :
        quiet = IF proc[w].loop = "free" THEN 0 ELSE Smaller(proc[w].quiet + 1, QuietCap)
  <2>1. proc[w].quiet + 1 \in Nat
    BY <1>1 DEF Process
  <2> QED
    BY <2>1, SmallerIs, CapsSuffice
<1>6. PICK life \in {"up", "dead"} : life = IF Cut(w) THEN "dead" ELSE proc[w].life
  BY <1>1 DEF Process
<1>7. p = [proc[w] EXCEPT !.age = age, !.quiet = quiet, !.alone = alone, !.told = told, !.life = life]
  BY <1>1, <1>2, <1>3, <1>4, <1>5, <1>6 DEF Turned, Process
<1>8. /\ p.loop = proc[w].loop /\ p.verdict = proc[w].verdict /\ p.age = age /\ p.quiet = quiet
      /\ p \in Process
  <2> HIDE <1>2, <1>3, <1>4, <1>5, <1>6
  <2> QED
    BY <1>1, <1>7 DEF Process
<1> QED
  BY <1>4, <1>5, <1>8

LEMMA TickKeeps == WatchInv /\ Tick => WatchInv'
<1> SUFFICES ASSUME WatchInv, Tick PROVE WatchInv'
  OBVIOUS
<1> USE DEF WatchInv
<1>1. /\ boss \in Overseer /\ proc \in [Index -> Process] /\ beat \in [Index -> Cell]
      /\ lockAge \in Nat /\ lock \in {0} \cup Index
  BY TypesAre
<1>2. /\ ~due /\ due' = (boss.at # "gone") /\ UNCHANGED <<boss, troubles>>
      /\ lock' = 0 \/ (lock # 0 /\ lock' = lock /\ proc'[lock].life # "dead")
      /\ lockAge' = IF lock = 0 THEN 0 ELSE Smaller(lockAge + 1, LockCap)
  BY DEF Tick
<1>3. ASSUME NEW w \in Index
      PROVE  /\ proc'[w] \in Process
             /\ ~Up(w) => proc'[w] = proc[w]
             /\ proc'[w].loop = proc[w].loop /\ proc'[w].verdict = proc[w].verdict
             /\ Up(w) => /\ proc'[w].age = Smaller(proc[w].age + 1, AgeCap)
                         /\ proc'[w].quiet = IF proc[w].loop = "free" THEN 0
                                             ELSE Smaller(proc[w].quiet + 1, QuietCap)
  <2>1. proc'[w] = IF Up(w) THEN Turned(w) ELSE proc[w]
    BY DEF Tick
  <2>2. CASE Up(w)
    <3>1. proc'[w] = Turned(w)
      BY <2>1, <2>2
    <3> QED
      BY <2>2, <3>1, TurnedIs
  <2>3. CASE ~Up(w)
    BY <1>1, <2>1, <2>3
  <2> QED
    BY <2>2, <2>3
<1>4. proc' \in [Index -> Process]
  <2>1. proc' = [w \in Index |-> proc'[w]]
    BY DEF Tick
  <2> QED
    BY <1>3, <2>1
<1>5. ASSUME NEW w \in Index
      PROVE  /\ beat'[w] \in Cell
             /\ Up(w) /\ proc[w].loop = "free" => beat'[w].moc = 0 /\ beat'[w].so = 1
             /\ ~(Up(w) /\ proc[w].loop = "free") =>
                  /\ beat'[w].so = beat[w].so
                  /\ beat[w].moc = Never => beat'[w].moc = Never
                  /\ beat[w].moc # Never => beat'[w].moc = Smaller(beat[w].moc + 1, QuietCap)
  <2>1. beat'[w] = IF Up(w) /\ proc[w].loop = "free" THEN Patted
                   ELSE IF beat[w].moc = Never THEN beat[w]
                   ELSE [beat[w] EXCEPT !.moc = Smaller(beat[w].moc + 1, QuietCap)]
    BY DEF Tick
  <2>2. beat[w] \in Cell
    BY <1>1
  <2>3. beat[w].moc # Never => beat[w].moc + 1 \in Nat /\ Smaller(beat[w].moc + 1, QuietCap) \in Nat
    <3>1. beat[w].moc # Never => beat[w].moc \in Nat
      BY <2>2 DEF Cell
    <3>2. beat[w].moc \in Nat => beat[w].moc + 1 \in Nat
      OBVIOUS
    <3> QED
      BY <3>1, <3>2, SmallerIs, CapsSuffice
  <2> QED
    BY <2>1, <2>2, <2>3 DEF Cell, Patted
<1>6. beat' \in [Index -> Cell]
  <2>1. beat' = [w \in Index |-> beat'[w]]
    BY DEF Tick
  <2> QED
    BY <1>5, <2>1
<1>7. lockAge' \in Nat /\ lockAge' <= lockAge + 1
  BY <1>1, <1>2, SmallerIs, CapsSuffice
<1>8. WatchTypeOK'
  <2>1. boss' \in Overseer /\ lock' \in {0} \cup Index /\ due' \in BOOLEAN /\ troubles' \in 0 .. MaxTroubles
    BY <1>1, <1>2 DEF WatchTypeOK
  <2> QED
    BY <1>4, <1>6, <1>7, <2>1 DEF WatchTypeOK, Process, Cell, Overseer
<1>9. MarksAgree'
  <2>1. ASSUME NEW w \in Index PROVE Agrees(w)'
    <3>1. Agrees(w)
      BY AllAgree
    <3>2. CASE ~Up(w)
      BY <1>3, <1>5, <3>1, <3>2 DEF Agrees, Up
    <3>3. CASE Up(w) /\ proc[w].loop = "free"
      BY <1>3, <1>5, <3>1, <3>3 DEF Agrees, Never
    <3>4. CASE Up(w) /\ proc[w].loop = "booting"
      <4>1. /\ beat'[w].moc = Never /\ beat'[w].so = 0
            /\ proc'[w].loop = "booting" /\ proc'[w].verdict # "hung"
        BY <1>3, <1>5, <3>1, <3>4 DEF Agrees
      <4>2. proc'[w].quiet >= proc'[w].age \/ proc'[w].quiet > BootGrace
        <5>1. proc[w].quiet \in Nat /\ proc[w].age \in Nat
          BY <1>1 DEF Process
        <5>2. proc[w].quiet >= proc[w].age \/ proc[w].quiet > BootGrace
          BY <3>1, <3>4 DEF Agrees
        <5>3. /\ proc'[w].quiet = Smaller(proc[w].quiet + 1, QuietCap)
              /\ proc'[w].age = Smaller(proc[w].age + 1, AgeCap)
          BY <1>3, <3>4
        <5>4. BootGrace \in Nat
          BY WatchAssumption
        <5> QED
          BY <5>1, <5>2, <5>3, <5>4, CapsSuffice DEF Smaller
      <4> QED
        BY <4>1, <4>2 DEF Agrees
    <3>5. CASE Up(w) /\ proc[w].loop \notin {"free", "booting"}
      <4>1. /\ beat[w].moc \in Nat /\ beat[w].so = 1 /\ proc[w].quiet >= beat[w].moc
            /\ proc[w].quiet \in Nat /\ proc[w].verdict # "hung"
        BY <1>1, <3>1, <3>5 DEF Agrees, Process, Cell
      <4>2. /\ beat'[w].so = 1 /\ beat'[w].moc = Smaller(beat[w].moc + 1, QuietCap)
            /\ proc'[w].quiet = Smaller(proc[w].quiet + 1, QuietCap)
            /\ proc'[w].loop = proc[w].loop /\ proc'[w].verdict = proc[w].verdict
        BY <1>3, <1>5, <3>1, <3>5, <4>1 DEF Agrees, Never
      <4>3. beat'[w].moc \in Nat /\ proc'[w].quiet >= beat'[w].moc
        BY <4>1, <4>2, CapsSuffice DEF Smaller
      <4>4. beat'[w].moc # Never
        BY <4>3 DEF Never
      <4> QED
        BY <3>5, <4>1, <4>2, <4>3, <4>4 DEF Agrees
    <3> QED
      BY <3>2, <3>3, <3>4, <3>5
  <2>2. \A w \in Index : Agrees(w)'
    BY <2>1
  <2> QED
    BY <2>2 DEF Agrees, MarksAgree
<1>10. BossKnows'
  <2>1. boss.at \notin {"read", "judge"} /\ boss' = boss
    BY <1>2 DEF BossKnows
  <2>2. boss.todo \subseteq Index
    BY <1>1 DEF Overseer
  <2>3. \A w \in Index : ~Up(w) => proc'[w] = proc[w]
    BY <1>3
  <2> QED
    BY <2>1, <2>2, <2>3 DEF BossKnows, Up
<1>11. Holder'
  <2>1. CASE lock' = 0
    BY <2>1 DEF Holder
  <2>2. CASE lock' # 0
    <3>1. lock' = lock /\ lock \in Index /\ proc'[lock].life # "dead"
      BY <1>1, <1>2, <2>2
    <3>2. PICK w \in Index : w = lock
      BY <3>1
    <3>3. /\ Up(w) /\ proc[w].loop = "accept" /\ beat[w].moc \in Nat
          /\ beat[w].moc >= lockAge \/ beat[w].moc > Silence
      <4>1. /\ Up(w) /\ proc[w].loop = "accept"
            /\ beat[w].moc >= lockAge \/ beat[w].moc > Silence
        BY <2>2, <3>1, <3>2 DEF Holder
      <4>2. beat[w].moc # Never /\ beat[w] \in Cell
        BY <1>1, <4>1 DEF MarksAgree
      <4> QED
        BY <4>1, <4>2 DEF Cell
    <3>4. beat'[w].moc = Smaller(beat[w].moc + 1, QuietCap)
      BY <1>5, <3>3 DEF Never
    <3>5. beat'[w].moc >= lockAge' \/ beat'[w].moc > Silence
      <4>1. Silence \in Nat
        BY WatchAssumption
      <4> QED
        BY <1>1, <1>7, <3>3, <3>4, <4>1, CapsSuffice DEF Smaller
    <3>6. proc'[w].life = "up" /\ proc'[w].loop = "accept"
      BY <1>3, <3>1, <3>2, <3>3 DEF Process
    <3> QED
      BY <3>1, <3>2, <3>5, <3>6 DEF Holder, Up
  <2> QED
    BY <2>1, <2>2
<1>12. InTime'
  <2>1. CASE boss.at = "gone"
    <3>1. boss'.at = "gone"
      BY <1>2, <2>1
    <3> QED
      BY <3>1 DEF InTime
  <2>2. CASE boss.at # "gone"
    <3>1. boss.at \in {"watch", "sleep"} /\ boss' = boss /\ due'
      BY <1>1, <1>2, <2>2 DEF BossKnows, Overseer
    <3>2. Silence \in Nat
      BY WatchAssumption
    <3>3. CASE lock = 0
      <4>1. lock' = 0 /\ lockAge' = 0
        BY <1>2, <3>3
      <4> QED
        BY <4>1, BoundIs DEF InTime
    <3>4. CASE lock # 0 /\ boss.at = "watch"
      <4>1. lockAge <= Silence
        BY <1>1, <1>2, <3>2, <3>4 DEF InTime
      <4>2. lockAge' <= Silence + 1 /\ lockAge' <= Bound
        BY <1>1, <1>7, <3>2, <4>1, BoundIs
      <4> QED
        BY <3>1, <3>4, <4>2 DEF InTime
    <3>5. CASE lock # 0 /\ boss.at = "sleep"
      <4>1. Rest \in Nat /\ Rest' = Rest
        <5>1. boss.todo \in SUBSET Index /\ boss.todo # {} /\ boss.sleep \in 0 .. DelayMax
          BY <1>1, <3>5 DEF Overseer, BossKnows
        <5> QED
          BY <3>1, <5>1, RestBounded DEF Rest
      <4>2. lockAge + Rest + 1 <= Bound
        BY <1>2, <3>5 DEF InTime
      <4>3. lockAge' + Rest' <= Bound /\ lockAge' <= Bound
        BY <1>1, <1>7, <4>1, <4>2, BoundIs
      <4>4. lockAge' + Rest' + 0 <= Bound
        BY <1>7, <4>1, <4>3
      <4> QED
        BY <3>1, <3>5, <4>3, <4>4 DEF InTime
    <3> QED
      BY <3>1, <3>3, <3>4, <3>5
  <2> QED
    BY <2>1, <2>2
<1>13. KillsOnlyTheSilent'
  <2>1. ASSUME NEW w \in Index, proc'[w].verdict = "hung"
        PROVE  proc'[w].quiet > (IF proc'[w].loop = "booting" THEN BootGrace ELSE Silence)
    <3>1. ~Up(w)
      BY <1>3, <2>1 DEF MarksAgree
    <3>2. proc'[w] = proc[w]
      BY <1>3, <3>1
    <3> QED
      BY <2>1, <3>2 DEF KillsOnlyTheSilent
  <2> QED
    BY <2>1 DEF KillsOnlyTheSilent
<1> QED
  BY <1>8, <1>9, <1>10, <1>11, <1>12, <1>13

LEMMA WatchInitHolds == WatchInit => WatchInv
<1> SUFFICES ASSUME WatchInit PROVE WatchInv
  OBVIOUS
<1>1. Newborn(0) = [life |-> "up", loop |-> "booting", age |-> 0, quiet |-> 0, told |-> FALSE,
                    alone |-> 0, deaths |-> 0, verdict |-> "none"]
  BY DEF Newborn
<1>2. Newborn(0) \in Process
  <2>1. ASSUME NEW n \in Nat PROVE Newborn(n) \in Process
    BY WatchAssumption DEF Process, Newborn
  <2> QED
    BY <2>1
<1>3. Watching = [at |-> "watch", who |-> 0, todo |-> {}, moc |-> Never, seen |-> 0, sleep |-> 0]
  BY DEF Watching
<1>4. boss \in Overseer /\ boss.at = "watch"
  BY <1>3, WatchAssumption DEF WatchInit, Overseer
<1>5. Blank \in Cell /\ Blank.moc = Never /\ Blank.so = 0
  BY DEF Blank, Cell
<1>6. WatchTypeOK
  BY <1>2, <1>4, <1>5, TypesAre, WatchAssumption DEF WatchInit
<1>7. \A w \in Index : Agrees(w)
  BY <1>1, <1>5 DEF WatchInit, Agrees
<1>8. BossKnows /\ Holder /\ KillsOnlyTheSilent
  BY <1>1, <1>4 DEF WatchInit, BossKnows, Holder, KillsOnlyTheSilent
<1>9. InTime
  BY BoundIs, WatchAssumption DEF WatchInit, InTime
<1> QED
  BY <1>6, <1>7, <1>8, <1>9, AllAgree DEF WatchInv

LEMMA WatchNextKeeps == WatchInv /\ [WatchNext]_watchVars => WatchInv'
<1> SUFFICES ASSUME WatchInv, [WatchNext]_watchVars PROVE WatchInv'
  OBVIOUS
<1>1. CASE WatchNext
  <2>1. CASE BossTurn
    BY <2>1, WakesKeeps, DozesKeeps, SpawnsKeeps, ReadsMarkKeeps, JudgesKeeps, RoundEndsKeeps DEF BossTurn
  <2>2. CASE BossDies \/ Tick
    BY <2>2, BossDiesKeeps, TickKeeps
  <2>3. CASE \E w \in Index : Goes(w) \/ Boots(w) \/ Unblocks(w) \/ Crashes(w)
    BY <2>3, ObeysKeeps, QuitsKeeps, BootsKeeps, UnblocksKeeps, CrashesKeeps DEF Goes
  <2>4. CASE \E w \in Index, where \in {"stuck", "accept"} : Hangs(w, where)
    BY <2>4, HangsKeeps
  <2> QED
    BY <1>1, <2>1, <2>2, <2>3, <2>4 DEF WatchNext
<1>2. CASE UNCHANGED watchVars
  BY <1>2 DEF watchVars, WatchInv, WatchTypeOK, MarksAgree, BossKnows, Holder, InTime, Rest,
              KillsOnlyTheSilent, Up
<1> QED
  BY <1>1, <1>2

\* For any number of workers and any deadlines, nobody is killed whose loop has not
\* been silent for as long as it must be, and the accept lock is held no longer than
\* one silence, a tick and a round of respawns (_watchdog.py:186-338,
\* _supervisor.py:_watch, _accept_lock.py).
THEOREM WatchdogSound == WatchSpec => []WatchdogIsSound
<1>1. WatchInv => WatchdogIsSound
  BY DEF WatchInv, InTime, WatchdogIsSound, LockHeldBounded, Bound
<1> QED
  BY <1>1, WatchInitHolds, WatchNextKeeps, PTL DEF WatchSpec
=============================================================================
