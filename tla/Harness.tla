------------------------------ MODULE Harness ------------------------------
(***************************************************************************)
(* The scripts that measure: bench/strong/run_strong.py and run_http.py,   *)
(* and the earlier bench/investigation/run_matrix.py, run_http.py and      *)
(* run_limits.py.  Each is a process that walks through a list of runs; a  *)
(* run is a list of steps (start a container, wait for it, measure, write  *)
(* files), any of which may raise, and then a sweep over its containers.   *)
(* The five differ in their steps, in which containers they sweep and in   *)
(* whether an exception ends the run or the script.                        *)
(*                                                                         *)
(* Docker, the servers and the Go clients are the environment.  A call of  *)
(* `docker run -d' may fail after it created the container; `docker stop'  *)
(* and `rm' may fail, which the scripts ignore (check=False), or outlast   *)
(* their timeout, which raises out of the sweep, as a log that cannot be   *)
(* written does.  The short-lived clients run with `docker run --rm' have  *)
(* no name: when such a call is timed out only the command is killed.      *)
(***************************************************************************)
EXTENDS Naturals, Sequences, FiniteSets

CONSTANTS
    Jobs,        \* what a script may be started on: records with a name, a
                 \* script and a sequence of runs
    Outcomes(_), \* what the client of a script can print, by script
    NoResult,    \* there is no result.json
    Torn,        \* result.json cannot be parsed: writing it failed half-way
    MaxFaults    \* bound: what goes wrong outside the scripts, in one behaviour

ASSUME FaultsAssumption == MaxFaults \in Nat

\* Jobs differ in their names (each has an output path of its own); the HTTP
\* scripts have three paths to choose from, and run_limits measures once.
ASSUME JobsAssumption ==
    /\ \A j, k \in Jobs : j.name = k.name => j = k
    /\ \A j \in Jobs :
         /\ j.script \in {"strong", "http", "matrix", "media", "limits"}
         /\ \A i \in DOMAIN j.runs : i \in Nat \ {0}
         /\ j.script \in {"http", "media"} => \A i \in DOMAIN j.runs :
              j.runs[i].engine \in {"nginx", "grpc_adapter", "origin_direct"}
         /\ j.script = "limits" => DOMAIN j.runs = {1}

\* The HTTP client has no schedule of arrivals that it could fall behind.
ASSUME OutcomesAssumption == \A o \in Outcomes("http") : ~o.dropped

VARIABLES
    job,         \* the script under way
    exitCode,    \* how the last script ended
    containers,  \* the containers that exist
    networks,    \* the Docker networks that exist, by job
    files,       \* what is in the directory of each run of each job
    faults,      \* how much has gone wrong so far
    trouble,     \* (history) the containers and networks that the script could
                 \* not give back, each with a cause of its own
    measured     \* (history) what the client of each run really measured

harnessVars ==
    <<job, exitCode, containers, networks, files, faults, trouble, measured>>

Names == {j.name : j \in Jobs}
jobNamed(n) == CHOOSE j \in Jobs : j.name = n

\* No script is running.
NoJob == [phase |-> "none"]

\* Run 0 of a script is what it does before the first run of its schedule.
Prologue == 0

NoFiles == [probe |-> FALSE, result |-> NoResult, cgroup |-> FALSE,
            error |-> "none", flash |-> "none"]

-----------------------------------------------------------------------------
\* The steps of a run, script by script.

start(role) == [do |-> "start", role |-> role]
step(what)  == [do |-> what, role |-> "none"]

\* run_strong.run_once.
strongSteps ==
    <<start("server"), step("ready"), step("verify"), start("client"),
      step("await"), step("measure"), step("record"), step("cgroup"),
      step("inspect"), step("flag")>>

\* run_http.run_one, for each of its three paths.
pathContainers(engine) ==
    CASE engine = "nginx"         -> <<start("target")>>
      [] engine = "grpc_adapter"  -> <<start("cache"), start("target")>>
      [] engine = "origin_direct" -> <<>>

httpSteps(engine) ==
    pathContainers(engine)
    \o <<step("ready"), start("client"), step("await"), step("measure"),
         step("record"), step("cgroup"), step("flag")>>

\* run_matrix.run_case: the client is a `docker run --rm' that is waited for.
matrixSteps ==
    <<start("server"), step("ready"), step("verify"), step("measure"),
      step("record"), step("cgroup"), step("inspect")>>

\* The first run_http.main: one cache path, then its client.
mediaSteps(engine) ==
    pathContainers(engine) \o <<step("ready"), step("sample")>>

\* run_limits.main.
limitsSteps == <<start("server"), step("ready"), step("measure"), step("record")>>

prologueSteps(script) ==
    IF script \in {"http", "media"} THEN <<start("origin")>> ELSE <<>>

Steps(script, run, engine) ==
    IF run = Prologue THEN prologueSteps(script)
    ELSE CASE script = "strong" -> strongSteps
           [] script = "http"   -> httpSteps(engine)
           [] script = "matrix" -> matrixSteps
           [] script = "media"  -> mediaSteps(engine)
           [] script = "limits" -> limitsSteps

\* run_once returns at once for what an engine has no operation or size for,
\* and run_matrix.main leaves such runs out of its loop.
grpcEngines(script) == IF script = "strong" THEN {"grpc"} ELSE {"grpc", "grpc_nvm"}
skipped(script, r) ==
    /\ script \in {"strong", "matrix"}
    /\ \/ r.operation = "pipeline" /\ r.engine \notin grpcEngines(script)
       \/ r.operation = "batch-set" /\ r.engine \in {"memcached", "memcached_extstore"}
       \/ r.engine = "memcached_extstore" /\ r.small

\* The engines whose server gets the directory flash/ of its run to fill.
FILE_TIER_ENGINES ==
    {"grpc_nvm", "memcached_extstore", "dragonfly_tiered", "garnet_storage", "kvrocks"}

\* server_arguments raises for a server that could not start with its budget:
\* a Dragonfly of four threads needs 256 MiB for each.
DragonflyMb == 1024
server_arguments_raise(r) ==
    \/ r.engine \in {"dragonfly", "dragonfly_tiered"} /\ r.cacheMb < DragonflyMb
    \/ r.engine = "dragonfly_tiered" /\ r.flashMb < DragonflyMb

\* An exception inside a run of run_once, run_one and run_case ends the run;
\* elsewhere it ends the script.
caught(script, run) == script \in {"strong", "http", "matrix"} /\ run # Prologue

\* (Mutant) Only what the run started last is swept.
sweepOf_client(script, run, active) ==
    IF run = Prologue THEN {} ELSE {"client"}

\* The containers a run stops and removes when it is over.  run_once and
\* run_case go by the names they chose, whether or not those were started; the
\* two HTTP scripts by the list of those whose `docker run' succeeded.
sweepOf(script, run, active) ==
    IF run = Prologue THEN {}
    ELSE CASE script = "strong"            -> {"client", "server"}
           [] script = "matrix"            -> {"server"}
           [] script = "limits"            -> {}
           [] script \in {"http", "media"} -> active \ {"origin"}

\* What the script stops and removes in the end, whatever happened.
lastSweep(script, active) ==
    CASE script = "http"                 -> {"origin"}
      [] script = "limits"               -> {"server"}
      [] script = "media"                -> active
      [] script \in {"strong", "matrix"} -> {}

\* Every sweep takes the container that was started last first.
startOrder(r) == CASE r = "client" -> 4
                   [] r \in {"target", "server"} -> 3
                   [] r = "cache"  -> 2
                   [] OTHER        -> 1
latest(roles) == CHOOSE r \in roles : \A q \in roles : startOrder(q) <= startOrder(r)

-----------------------------------------------------------------------------
\* Where the script is.

runOf(j) == IF j.run = Prologue THEN [engine |-> "none"]
            ELSE jobNamed(j.name).runs[j.run]
stepsNow == Steps(job.script, job.run, runOf(job).engine)
AtStep(what) == /\ job # NoJob
                /\ job.phase = "body"
                /\ job.at <= Len(stepsNow)
                /\ stepsNow[job.at].do = what
role == stepsNow[job.at].role

Advance == job' = [job EXCEPT !.at = @ + 1]
write(field, value) ==
    files' = [files EXCEPT ![job.name][job.run] = [@ EXCEPT ![field] = value]]

\* Something outside the script goes wrong.
Fault == faults < MaxFaults /\ faults' = faults + 1

\* How a container, or the network of a job, is named in trouble.
id(c) == <<c.name, c.run, c.role>>
networkOf(n) == <<n, Prologue, "network">>

\* A client run with --rm, which has no name and is in no list.
helper(n, run) == [name |-> n, run |-> run, role |-> "helper", up |-> TRUE]

\* An exception: error.txt and the sweep of the run, or the end of the script.
\* Where the handler itself raises (error.txt or a log cannot be written), the
\* run is swept all the same and the script ends after that.
Raise(handled) ==
    IF caught(job.script, job.run)
    THEN job' = [job EXCEPT !.phase = "sweep", !.failed = ~handled,
                            !.sweep = sweepOf(job.script, job.run, job.active)]
    ELSE job' = [job EXCEPT !.phase = "ending", !.failed = TRUE,
                            !.sweep = lastSweep(job.script, job.active)]

\* main starts: manifest.json and the network.  The argument, CPU and adapter
\* checks that come first end the script before anything else is done.
Launch(j) ==
    /\ job = NoJob
    /\ job' = [name |-> j.name, script |-> j.script, run |-> Prologue, at |-> 1,
               phase |-> "body", active |-> {}, sweep |-> {},
               measured |-> NoResult, failed |-> FALSE]
    /\ networks' = networks \cup {j.name}
    /\ UNCHANGED <<exitCode, containers, files, faults, trouble, measured>>

\* One of run_http's checks runs a container, outside any network.
Refused(j) ==
    /\ job = NoJob
    /\ exitCode' = 1
    /\ \/ UNCHANGED <<containers, trouble, faults>>
       \/ /\ j.script = "http"
          /\ Fault
          /\ containers' = containers \cup {helper(j.name, Prologue)}
          /\ trouble' = trouble \cup {id(helper(j.name, Prologue))}
    /\ UNCHANGED <<job, networks, files, measured>>

\* setup makes flash/ before it looks at the arguments.
withFlash ==
    IF runOf(job).engine \in FILE_TIER_ENGINES
    THEN [files EXCEPT ![job.name][job.run].flash = "filled"] ELSE files
withError(fs) ==
    IF caught(job.script, job.run)
    THEN [fs EXCEPT ![job.name][job.run].error = "raised"] ELSE fs
Thrown(fs, handled) ==
    /\ Raise(handled)
    /\ files' = withError(fs) \/ (~handled /\ files' = fs)

\* setup, start: the container runs.  Only the HTTP scripts keep a list, and
\* the second of them not of its origin.
StartContainer ==
    /\ AtStep("start")
    /\ ~server_arguments_raise(runOf(job))
    /\ containers' = containers \cup
          {[name |-> job.name, run |-> job.run, role |-> role, up |-> TRUE]}
    /\ job' = [job EXCEPT !.at = @ + 1,
                          !.active = IF job.script = "http" /\ role = "origin"
                                     THEN @ ELSE @ \cup {role}]
    /\ files' = IF role = "server" THEN withFlash ELSE files
    /\ UNCHANGED <<exitCode, networks, faults, trouble, measured>>

\* The run cannot be configured: server_arguments raises.
StartRaises ==
    /\ AtStep("start")
    /\ server_arguments_raise(runOf(job))
    /\ \/ Thrown(withFlash, TRUE) /\ UNCHANGED faults
       \/ Thrown(withFlash, FALSE) /\ Fault
    /\ UNCHANGED <<exitCode, containers, networks, trouble, measured>>

\* `docker run' fails or is timed out, before or after it created the container.
SweptByName == \/ job.script \in {"strong", "matrix", "limits"}
               \/ job.script = "http" /\ job.run = Prologue
StartFails ==
    /\ AtStep("start")
    /\ ~server_arguments_raise(runOf(job))
    /\ Fault
    /\ \E handled \in BOOLEAN :
          Thrown(IF role = "server" THEN withFlash ELSE files, handled)
    /\ \/ UNCHANGED <<containers, trouble>>
       \/ \E up \in BOOLEAN :
             LET new == [name |-> job.name, run |-> job.run, role |-> role, up |-> up] IN
             /\ containers' = containers \cup {new}
             /\ trouble' = IF SweptByName THEN trouble ELSE trouble \cup {id(new)}
    /\ UNCHANGED <<exitCode, networks, measured>>

\* Readiness, MEASURE_START and `docker inspect': a bounded loop or one call.
Wait ==
    /\ AtStep("ready") \/ AtStep("await") \/ AtStep("inspect")
    /\ Advance
    /\ UNCHANGED <<exitCode, containers, networks, files, faults, trouble, measured>>

\* The correctness probe of client.py passes and is written down.
Verify ==
    /\ AtStep("verify")
    /\ write("probe", TRUE)
    /\ Advance
    /\ UNCHANGED <<exitCode, containers, networks, faults, trouble, measured>>

\* The client runs to its end and prints its JSON line.
Measure ==
    /\ AtStep("measure")
    /\ \E o \in Outcomes(job.script) :
          /\ job' = [job EXCEPT !.at = @ + 1, !.measured = o]
          /\ measured' = [measured EXCEPT ![job.name][job.run] = o]
    /\ UNCHANGED <<exitCode, containers, networks, files, faults, trouble>>

\* result.json, and after it the two samples of every cgroup.
Record ==
    /\ AtStep("record")
    /\ write("result", job.measured)
    /\ Advance
    /\ UNCHANGED <<exitCode, containers, networks, faults, trouble, measured>>

WriteCgroups ==
    /\ AtStep("cgroup")
    /\ write("cgroup", TRUE)
    /\ Advance
    /\ UNCHANGED <<exitCode, containers, networks, faults, trouble, measured>>

\* error.txt for a client that had errors, dropped arrivals or failed.
flagged(o) == o.exit # 0 \/ o.errors \/ o.dropped
Flag ==
    /\ AtStep("flag")
    /\ IF flagged(job.measured) THEN write("error", "client") ELSE UNCHANGED files
    /\ Advance
    /\ UNCHANGED <<exitCode, containers, networks, faults, trouble, measured>>

\* The first run_http: a client that fails leaves error.txt, any other its result.
Sample ==
    /\ AtStep("sample")
    /\ \/ \E o \in Outcomes(job.script) :
             /\ write("result", o)
             /\ measured' = [measured EXCEPT ![job.name][job.run] = o]
       \/ write("error", "client") /\ UNCHANGED measured
    /\ Advance
    /\ UNCHANGED <<exitCode, containers, networks, faults, trouble>>

\* Any step but a start raises: a timeout, a server or client that is gone, an
\* exit status, a disk that is full.  Writing result.json may stop half-way.
StepRaises ==
    /\ \E what \in {"ready", "verify", "await", "measure", "record", "cgroup",
                    "inspect", "flag", "sample"} : AtStep(what)
    /\ Fault
    /\ \E handled \in BOOLEAN :
          \/ Thrown(files, handled)
          \/ /\ AtStep("record")
             /\ Thrown([files EXCEPT ![job.name][job.run].result = Torn], handled)
    /\ UNCHANGED <<exitCode, containers, networks, trouble, measured>>

\* A client run with --rm outlasts its timeout: the command is killed, the
\* container goes on.  The readiness loops of run_once and run_case try again;
\* anywhere else the exception ends the run.  (run_limits has no timeout, and
\* run_http uses such a client for readiness only.)
runsHelper == \/ AtStep("ready") /\ job.script # "limits"
              \/ AtStep("verify") \/ AtStep("sample")
              \/ AtStep("measure") /\ job.script \in {"strong", "matrix"}
HelperOutlives ==
    /\ runsHelper
    /\ Fault
    /\ containers' = containers \cup {helper(job.name, job.run)}
    /\ trouble' = trouble \cup {id(helper(job.name, job.run))}
    /\ IF AtStep("ready") /\ job.script \in {"strong", "matrix"}
       THEN UNCHANGED <<job, files>>
       ELSE \E handled \in BOOLEAN : Thrown(files, handled)
    /\ UNCHANGED <<exitCode, networks, measured>>

\* The body is over.
EndBody ==
    /\ job # NoJob
    /\ job.phase = "body"
    /\ job.at > Len(stepsNow)
    /\ job' = [job EXCEPT !.phase = "sweep",
                          !.sweep = sweepOf(job.script, job.run, job.active)]
    /\ UNCHANGED <<exitCode, containers, networks, files, faults, trouble, measured>>

-----------------------------------------------------------------------------
\* The sweep: docker logs, stop, rm for each container in turn.

Sweeping == job # NoJob /\ job.phase \in {"sweep", "ending"} /\ job.sweep # {}
toSweep == {c \in containers : /\ c.name = job.name
                               /\ c.role \in job.sweep
                               /\ c.run \in {job.run, Prologue}}
swept == {c \in toSweep : c.role = latest(job.sweep)}
sweepRest == [job EXCEPT !.sweep = @ \ {latest(job.sweep)},
                         !.active = @ \ {latest(job.sweep)}]

CleanUp ==
    /\ Sweeping
    /\ containers' = containers \ swept
    /\ job' = sweepRest
    /\ UNCHANGED <<exitCode, networks, files, faults, trouble, measured>>

\* docker stop fails, and rm refuses a running container; or rm fails.
stopped(c) == [name |-> c.name, run |-> c.run, role |-> c.role, up |-> FALSE]
StopFails ==
    /\ Sweeping
    /\ swept # {}
    /\ Fault
    /\ containers' \in {containers, (containers \ swept) \cup {stopped(c) : c \in swept}}
    /\ trouble' = trouble \cup {id(c) : c \in swept}
    /\ job' = sweepRest
    /\ UNCHANGED <<exitCode, networks, files, measured>>

\* The sweep of a run raises: docker logs, stop or rm outlasts its timeout, or a
\* log cannot be written (run_once writes the server's whether or not there is
\* one).  What it had still to do is not done, the rest of the schedule is lost,
\* and main's own finally is all that follows.
SweepRaises ==
    /\ Sweeping /\ job.phase = "sweep"
    /\ Fault
    /\ containers' \in {containers, containers \ swept}
    /\ trouble' = trouble \cup
          {id(c) : c \in {k \in toSweep : k.role \notin lastSweep(job.script, job.active)}}
    /\ job' = [job EXCEPT !.failed = TRUE, !.phase = "ending",
                          !.sweep = lastSweep(job.script, job.active)]
    /\ UNCHANGED <<exitCode, networks, files, measured>>

\* main's own sweep raises (in run_limits the log that comes before its stop):
\* the script is over, and the network is not removed either.
LastSweepRaises ==
    /\ Sweeping /\ job.phase = "ending"
    /\ Fault
    /\ containers' \in {containers, containers \ swept}
    /\ trouble' = trouble \cup {id(c) : c \in toSweep} \cup {networkOf(job.name)}
    /\ job' = NoJob
    /\ exitCode' = 1
    /\ UNCHANGED <<networks, files, measured>>

\* The sweep is over.  run_once then writes down the size of the backing file,
\* and with --discard-flash-files removes it.
RunOver == job # NoJob /\ job.phase = "sweep" /\ job.sweep = {}
record_flash_usage ==
    IF /\ job.run # Prologue
       /\ job.script = "strong"
       /\ files[job.name][job.run].flash = "filled"
    THEN write("flash", "recorded")
    ELSE UNCHANGED files

\* The next run of the schedule that is not left out.
runsLeft == {i \in DOMAIN jobNamed(job.name).runs :
                i > job.run /\ ~skipped(job.script, jobNamed(job.name).runs[i])}

NextRun ==
    /\ RunOver /\ ~job.failed
    /\ record_flash_usage
    /\ runsLeft # {}
    /\ job' = [job EXCEPT !.run = CHOOSE i \in runsLeft : \A k \in runsLeft : i <= k,
                          !.at = 1, !.phase = "body", !.measured = NoResult]
    /\ UNCHANGED <<exitCode, containers, networks, faults, trouble, measured>>

\* The schedule is over, or a run's handler raised: main's finally.
ScheduleOver ==
    /\ RunOver
    /\ record_flash_usage
    /\ runsLeft = {} \/ job.failed
    /\ job' = [job EXCEPT !.phase = "ending",
                          !.sweep = lastSweep(job.script, job.active)]
    /\ UNCHANGED <<exitCode, containers, networks, faults, trouble, measured>>

\* flash-usage.json cannot be written.
FlashRaises ==
    /\ RunOver
    /\ job.run # Prologue
    /\ job.script = "strong" /\ files[job.name][job.run].flash = "filled"
    /\ Fault
    /\ job' = [job EXCEPT !.failed = TRUE, !.phase = "ending",
                          !.sweep = lastSweep(job.script, job.active)]
    /\ UNCHANGED <<exitCode, containers, networks, files, trouble, measured>>

\* `docker network rm' fails, unnoticed, while a container is attached to it.
Exit ==
    /\ job # NoJob
    /\ job.phase = "ending" /\ job.sweep = {}
    /\ networks' = IF \E c \in containers : c.name = job.name /\ c.up
                   THEN networks ELSE networks \ {job.name}
    /\ exitCode' = IF job.failed THEN 1 ELSE 0
    /\ job' = NoJob
    /\ UNCHANGED <<containers, files, faults, trouble, measured>>

\* It fails for another reason, or outlasts its timeout.
NetworkStays ==
    /\ job # NoJob
    /\ job.phase = "ending" /\ job.sweep = {}
    /\ Fault
    /\ trouble' = trouble \cup {networkOf(job.name)}
    /\ exitCode' \in {IF job.failed THEN 1 ELSE 0, 1}
    /\ job' = NoJob
    /\ UNCHANGED <<containers, networks, files, measured>>

HarnessStep ==
    \/ StartContainer \/ StartRaises \/ StartFails \/ Wait \/ Verify \/ Measure \/ Record
    \/ WriteCgroups \/ Flag \/ Sample \/ StepRaises \/ HelperOutlives \/ EndBody
    \/ CleanUp \/ StopFails \/ SweepRaises \/ LastSweepRaises
    \/ NextRun \/ ScheduleOver \/ FlashRaises \/ Exit \/ NetworkStays

\* A client run with --rm that was left behind comes to its end: Docker removes it.
HelperEnds ==
    /\ \E c \in containers : c.role = "helper" /\ containers' = containers \ {c}
    /\ UNCHANGED <<job, exitCode, networks, files, faults, trouble, measured>>

\* The script is killed: no finally runs, and Docker keeps what it has.
HarnessKilled ==
    /\ job # NoJob
    /\ Fault
    /\ job' = NoJob
    /\ exitCode' = 1
    /\ trouble' = trouble \cup {id(c) : c \in {k \in containers : k.name = job.name}}
                          \cup {networkOf(job.name)}
    /\ UNCHANGED <<containers, networks, files, measured>>

HarnessInit ==
    /\ job = NoJob
    /\ exitCode = 0
    /\ containers = {}
    /\ networks = {}
    /\ files = [n \in Names |-> [i \in DOMAIN jobNamed(n).runs |-> NoFiles]]
    /\ faults = 0
    /\ trouble = {}
    /\ measured = [n \in Names |-> [i \in DOMAIN jobNamed(n).runs |-> NoResult]]

-----------------------------------------------------------------------------
\* A script gives back what it took.  When a run is over, each of its containers
\* that is still there has a cause of its own: docker would not stop or remove that
\* one; the run's sweep was cut short, by a timeout or by a log it could not write,
\* before that one; the script was killed; it is a nameless --rm client whose
\* command was timed out; or (the HTTP scripts, which sweep only what they saw
\* start) docker run created it and failed.  A run that raises anywhere, the
\* handler included, leaves no other, and no failure over one container leaves
\* another that the sweep still reaches.  A network stays for the same causes only
\* (run_strong.py:300-309, run_http.py:157-164, run_matrix.py:174-182,
\* run_limits.py:54-58).
InUse(c) == job # NoJob /\ c.name = job.name /\ c.run \in {job.run, Prologue}
NoForgottenContainer ==
    /\ \A c \in containers : InUse(c) \/ id(c) \in trouble
    /\ \A n \in networks : \/ job # NoJob /\ job.name = n
                           \/ \E x \in trouble : x[1] = n
=============================================================================
