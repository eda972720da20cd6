---------------------------- MODULE MainProgram ----------------------------
(***************************************************************************)
(* main.py and its Application object (core/bootstrap/application.py): the *)
(* declarations, one run() after another or start() and stop() by hand,    *)
(* and, under share_load(), the child process that runs main.py again and  *)
(* must become what its parent declared (_supervisor.py, _processes.py,    *)
(* _internal_adapters.py).                                                 *)
(***************************************************************************)
EXTENDS Integers, Bags

CONSTANTS
  Programs,   \* the main.py files and configurations considered
  MaxCalls    \* bound: calls of run() or start() in the parent

\* top, guarded: the adapters of use() at module level, and under `if __name__`, in
\* bags, for the order tells nothing;
\* name, config: where `app` is bound and add_config called, "top", "guarded" or "no";
\* entry: "run", "configured", "share"; layout: "flat", "process", "processes",
\* with the adapters listed there; package: the config package of the project;
\* admin: the management listener; jobs: configure_scheduler(); target: a code-first
\* controller names an adapter that serves it.  "admin" and "jobs" are the framework's.
ASSUME MainProgramAssumption ==
  /\ MaxCalls \in Nat
  /\ \A m \in Programs :
       /\ {m.name, m.config} \subseteq {"top", "guarded", "no"}
       /\ m.entry \in {"run", "configured", "share"}
       /\ m.layout \in {"flat", "process", "processes"}
       /\ m.package \in {"whole", "broken", "unusable", "absent"}
       /\ m.admin \in {"none", "free", "clash"} /\ {m.jobs, m.target} \subseteq BOOLEAN
       /\ IsABag(m.top) /\ IsABag(m.guarded)
       /\ {"admin", "jobs"} \cap (DOMAIN m.top \cup DOMAIN m.guarded \cup m.listed) = {}
       /\ m.name = "top" \/ (m.top = EmptyBag /\ m.config # "top")

VARIABLES
  program,   \* the one that runs
  apps,       \* apps[p]: the Application object of the parent or the child
  calls

mainVars == <<program, apps, calls>>

Runners == {"parent", "child"}

\* at: where the process is; doors: _adapters; added: _added_config; share: _share_load;
\* binding: of the container; log: _logging; opened: _refdata and _cluster;
\* run, runs: which orchestrator there is, and how many there were; jobsOf: the one
\* that the scheduler adapter hangs on; byHand: start() without run(); hurt,
\* abandoned: history, a stop() that raised, a start() that raised and nobody stopped;
\* ran: history, a run() that served came to its end.
NewApp ==
  [at |-> "absent", doors |-> EmptyBag, added |-> FALSE, share |-> FALSE, binding |-> "none",
   log |-> FALSE, opened |-> FALSE, run |-> 0, runs |-> 0, jobsOf |-> 0, byHand |-> FALSE,
   hurt |-> FALSE, abandoned |-> FALSE, ran |-> FALSE]

MainInit ==
  /\ program \in Programs
  /\ apps = [p \in Runners |-> [NewApp EXCEPT !.at = IF p = "parent" THEN "main" ELSE "absent"]]
  /\ calls = 0

DoorsIn(doors) == BagToSet(doors)
DoorsWith(doors, d) == doors (+) SetToBag({d})
DoorsWithout(doors, d) == [e \in DoorsIn(doors) \ {d} |-> doors[e]]
Once(doors) == \A d \in DoorsIn(doors) : doors[d] = 1
Becomes(p, a) == apps' = [apps EXCEPT ![p] = a]
RefusedApp(a) == [a EXCEPT !.at = "refused", !.log = FALSE]
-----------------------------------------------------------------------------
(* main.py *)

RunsLine(p, where) == where = "top" \/ (where = "guarded" /\ p = "parent")

\* use(): an adapter that keeps the contract, and none of its class and id before.
Accepts(doors) == Once(doors) /\ "misfit" \notin DoorsIn(doors)

\* The module level, and what `if __name__` guards in the parent alone.  add_config()
\* refuses a package without a dependency.
Used(p) == IF p = "parent" THEN program.top (+) program.guarded ELSE program.top
DeclareApp(p) ==
  LET a     == apps[p]
      adds  == RunsLine(p, program.config)
  IN /\ a.at = "main"
     /\ Becomes(p, IF ~Accepts(Used(p)) \/ (adds /\ program.package # "whole") THEN RefusedApp(a)
                   ELSE [a EXCEPT !.at = "declared", !.doors = Used(p), !.added = adds])
     /\ UNCHANGED <<program, calls>>

-----------------------------------------------------------------------------
(* run() *)

\* _resolve_topology: the framework's own listener is added anew, on an address that
\* no declared adapter has.
OwnDoors(a) == DoorsWithout(a.doors, "admin")
Resolved(a) ==
  [a EXCEPT !.doors = IF program.admin = "none" THEN OwnDoors(a) ELSE DoorsWith(OwnDoors(a), "admin")]
AdminFits(a) == program.admin # "clash" /\ "admin" \notin DoorsIn(OwnDoors(a))

\* The layout is the one that share_load() asks for; the flat keys describe one web
\* adapter, and not a second ("web2").
LayoutFits(a) ==
  /\ a.share <=> program.layout = "processes"
  /\ program.layout = "flat" => "web2" \notin DoorsIn(a.doors)
Resolves(a) ==
  /\ AdminFits(a) /\ LayoutFits(a)
  /\ a.share => a.added /\ DoorsIn(Resolved(a).doors) # {}

\* validate_against_adapters: YAML names every adapter, and no other.
Listed(a) ==
  (IF program.layout = "flat" THEN DoorsIn(OwnDoors(a)) ELSE program.listed)
    \cup (DoorsIn(a.doors) \cap {"admin"})
Valid(a) == Listed(a) = DoorsIn(a.doors)

Shares(a) ==
  a.share \/ program.entry = "share" \/ (program.entry = "configured" /\ program.layout = "processes")

\* _start_logging; its native half may refuse to attach, and then nothing stays open.
Logging(a) == [a EXCEPT !.log = TRUE]

\* The order of run(): the topology, then the log, then the adapters' validation; of a
\* worker: the log first.
RunApplication ==
  LET a == [apps["parent"] EXCEPT !.share = Shares(apps["parent"]), !.byHand = FALSE]
  IN /\ a.at \in {"declared", "returned"} /\ calls < MaxCalls
     /\ calls' = calls + 1
     /\ IF ~Resolves(a) THEN Becomes("parent", RefusedApp(a))
        ELSE \/ Becomes("parent", [Logging(Resolved(a)) EXCEPT !.at = "validating"])
             \/ Becomes("parent", RefusedApp(Resolved(a)))
     /\ UNCHANGED program

\* main_attribute_of looks for a name of `app` in the parent, and
\* _application_from_main for the same name in a child, which only ran the module level.
HasName == program.name # "no"
NameInChild == program.name = "top"

RunAsWorker ==
  LET a == [apps["child"] EXCEPT !.share = TRUE]
  IN /\ a.at = "declared"
     /\ Becomes("child", IF NameInChild /\ Resolves(a)
                         THEN [Logging(Resolved(a)) EXCEPT !.at = "validating"]
                         ELSE RefusedApp(a))
     /\ UNCHANGED <<program, calls>>

Supervises(p, a) == p = "parent" /\ a.share

\* _run_worker; or run_supervisor, which spawns the child.
ValidateApp(p) ==
  LET a == apps[p]
  IN /\ a.at = "validating"
     /\ IF ~Valid(a) \/ (Supervises(p, a) /\ ~HasName) THEN Becomes(p, RefusedApp(a))
        ELSE IF Supervises(p, a)
        THEN apps' = [apps EXCEPT ![p].at = "supervising", !["child"] = [NewApp EXCEPT !.at = "main"]]
        ELSE Becomes(p, [a EXCEPT !.at = "prepared"])
     /\ UNCHANGED <<program, calls>>

-----------------------------------------------------------------------------
(* start() and stop() *)

\* _resolve_binding: what add_config gave, or what the conventional package holds.  An
\* import that fails inside the package is raised; only a missing package is silent.
Discovered ==
  CASE program.package = "whole" -> "full"
    [] program.package = "broken" -> "raises"
    [] OTHER -> "empty"
Binding(a) == IF a.added THEN "full" ELSE Discovered

Started(a) ==
  [a EXCEPT !.at = "starting", !.binding = Binding(a), !.log = TRUE, !.opened = TRUE,
            !.run = a.runs + 1, !.runs = @ + 1]

StartApp(p) ==
  LET a == apps[p]
  IN /\ a.at = "prepared"
     /\ Becomes(p, IF a.run # 0 \/ Binding(a) = "raises" THEN [a EXCEPT !.at = "failed"]
                   ELSE Started(a))
     /\ UNCHANGED <<program, calls>>

\* `async with app`, or start() in a test: no topology and no adapter.
StartByHand ==
  LET a == [apps["parent"] EXCEPT !.byHand = TRUE]
  IN /\ a.at \in {"declared", "returned"} /\ calls < MaxCalls
     /\ calls' = calls + 1
     /\ Becomes("parent", IF a.run # 0 \/ Binding(a) = "raises" THEN [a EXCEPT !.at = "returned"]
                          ELSE Started(a))
     /\ UNCHANGED program

\* The container is built and its hooks have run; _register_framework_adapters.
AppIsUp(p) ==
  LET a == apps[p]
  IN /\ a.at = "starting"
     /\ Becomes(p, IF program.jobs /\ a.binding = "full"
                   THEN [a EXCEPT !.at = "up", !.doors = DoorsWith(@, "jobs"), !.jobsOf = a.run]
                   ELSE [a EXCEPT !.at = "up"])
     /\ UNCHANGED <<program, calls>>

\* The container, a hook or the bus raises: the log is closed, and run() stops the
\* rest.  Whoever called start() by hand is left with it.
StartFails(p) ==
  LET a == apps[p]
  IN /\ a.at = "starting"
     /\ Becomes(p, [a EXCEPT !.at = IF a.byHand THEN "returned" ELSE "failed",
                             !.log = FALSE, !.abandoned = a.byHand])
     /\ UNCHANGED <<program, calls>>

\* _validate_grpc_codefirst_targets, then _start_adapters.
ServeApp(p) ==
  LET a == apps[p]
  IN /\ a.at = "up" /\ ~a.byHand
     /\ Becomes(p, [a EXCEPT !.at = IF program.target THEN "serving" ELSE "failed"])
     /\ UNCHANGED <<program, calls>>

\* stop(): the container first, then what it used, then what hung on it.  When a
\* pre_destroy hook raises, nothing after it is done, except for the log.
Stopped(a) ==
  [a EXCEPT !.at = "returned", !.run = 0, !.opened = FALSE, !.log = FALSE, !.binding = "none",
            !.doors = DoorsWithout(@, "jobs"), !.abandoned = FALSE, !.hurt = FALSE,
            !.ran = @ \/ a.at = "serving"]
HookRaises(a) == [a EXCEPT !.at = "returned", !.log = FALSE, !.hurt = TRUE]

StopApp(p) ==
  LET a == apps[p]
  IN /\ a.at \in {"serving", "failed"} \/ (a.at = "up" /\ a.byHand)
     /\ \/ Becomes(p, Stopped(a))
        \/ a.run # 0 /\ Becomes(p, HookRaises(a))
     /\ UNCHANGED <<program, calls>>

\* stop() by hand, after whatever happened.
StopByHand ==
  LET a == apps["parent"]
  IN /\ a.at = "returned" /\ (a.run # 0 \/ a.opened)
     /\ Becomes("parent", Stopped(a))
     /\ UNCHANGED <<program, calls>>

\* The supervisor is told to stop: its child is terminated before anything is closed.
SupervisorEnds ==
  /\ apps["parent"].at = "supervising"
  /\ apps' = [apps EXCEPT !["child"].at = "absent", !["child"].log = FALSE,
                        !["parent"].at = "returned", !["parent"].log = FALSE]
  /\ UNCHANGED <<program, calls>>

MainNext ==
  \/ RunApplication \/ RunAsWorker \/ StartByHand \/ StopByHand \/ SupervisorEnds
  \/ \E p \in Runners :
       DeclareApp(p) \/ ValidateApp(p) \/ StartApp(p) \/ AppIsUp(p) \/ StartFails(p) \/ ServeApp(p) \/ StopApp(p)
MainSpec == MainInit /\ [][MainNext]_mainVars
-----------------------------------------------------------------------------
MainTypeOK ==
  /\ program \in Programs /\ calls \in 0 .. MaxCalls
  /\ \A p \in Runners :
       /\ apps[p].at \in {"absent", "main", "declared", "refused", "validating", "supervising",
                         "prepared", "starting", "up", "serving", "failed", "returned"}
       /\ apps[p].run \in {0, apps[p].runs} /\ apps[p].jobsOf \in 0 .. apps[p].runs

\* A run() that is over holds nothing, whichever of its steps failed, and neither does
\* one that was refused; excepted is what a stop() that raised, or a start() by hand
\* that nobody stopped, left behind.
NothingIsLeftOpen ==
  \A p \in Runners :
    /\ apps[p].at \in {"returned", "refused"} => ~apps[p].log
    /\ apps[p].at \in {"returned", "refused"} /\ ~apps[p].hurt /\ ~apps[p].abandoned =>
         apps[p].run = 0 /\ ~apps[p].opened /\ "jobs" \notin DoorsIn(apps[p].doors)

\* However often the application ran before, what serves is every adapter once, and the
\* scheduler that belongs to the container of this run.
ThisRunsAdapters ==
  \A p \in Runners :
    apps[p].at = "serving" =>
      /\ Once(apps[p].doors)
      /\ "jobs" \in DoorsIn(apps[p].doors) => apps[p].jobsOf = apps[p].run

\* A configuration that was accepted is accepted again by the next run().
AcceptedAgain ==
  LET a == apps["parent"]
  IN a.ran /\ ~a.hurt /\ ~a.abandoned /\ a.at = "validating" => Valid(a)
NeverRefusedLater ==
  LET a == apps["parent"]
  IN a.ran /\ ~a.hurt /\ ~a.abandoned /\ a.at = "returned" => Resolves(a)

\* A child that serves has its parent's adapters and configuration; and one that is
\* refused, although its parent was not, comes from a main.py that declares something
\* under `if __name__`.
ChildIsItsParent ==
  LET c == apps["child"]  b == apps["parent"]
  IN /\ c.at = "serving" =>
          DoorsIn(c.doors) \ {"jobs"} = DoorsIn(b.doors) /\ c.binding = "full"
     /\ c.at = "refused" =>
          program.guarded # EmptyBag \/ "guarded" \in {program.name, program.config}

\* No application serves an empty container because something inside its configuration
\* could not be imported.
NoSilentEmptiness ==
  \A p \in Runners :
    apps[p].at = "serving" /\ apps[p].binding = "empty" => program.package # "broken"

\* A child's records always have a parent to write them.
LogOutlivesChild == apps["child"].log => apps["parent"].log

ProgramIsSound ==
  /\ NothingIsLeftOpen /\ ThisRunsAdapters /\ AcceptedAgain /\ NeverRefusedLater
  /\ ChildIsItsParent /\ NoSilentEmptiness /\ LogOutlivesChild
=============================================================================
