----------------------------- MODULE DockerDrills -----------------------------
(***************************************************************************)
(* The drills that build their own Docker objects: the restore drills of   *)
(* ops/postgres and ops/grafana, and the setup and cleanup of the container*)
(* soak.  Any docker command may fail, a container may exist although the  *)
(* command that was to start it failed, and a drill may be killed.  Two    *)
(* invocations are given the same --run-id, so that they name the same     *)
(* objects: after each other, or at the same time.                         *)
(*                                                                         *)
(* Docker (external): creating a volume that exists succeeds and changes   *)
(* nothing, creating a network or container that exists fails, running a   *)
(* container creates the volume it mounts, and what a container uses       *)
(* cannot be removed.                                                      *)
(***************************************************************************)
EXTENDS Naturals, FiniteSets, SequencesExt

CONSTANTS
    Drills,    \* invocations with one run id
    Nobody     \* creator of an object that does not exist

ASSUME DrillsAssumption == Nobody \notin Drills

VARIABLES
    kind,      \* the script: "postgres", "grafana" or "soak"
    objects,   \* creator of every Docker object
    at,        \* "check", "script", "cleanup" or "end"
    step,      \* position in the script
    left,      \* cleanup: objects still to be looked at, in order
    preserve,  \* --preserve-target, --keep
    tracked,   \* created_containers of the soak
    succeeded,
    outcome,   \* "running", "refused", "failed", "evidence" or "killed"
    seen,      \* what the integrity checks found
    target,    \* history: creator of the volume that the drill's container mounts
    blind,     \* history: drills whose check for existing objects told them nothing
    robbers,   \* history: drills that removed an object of another drill
    hiccups    \* history: drills with a command that failed and left an object behind

drillVars == <<kind, objects, at, step, left, preserve, tracked, succeeded, outcome, seen,
               target, blind, robbers, hiccups>>

-----------------------------------------------------------------------------
(* Scripts                                                                 *)

Make(obj) == [do |-> "make", obj |-> obj]       \* docker volume / network create
Run(obj) == [do |-> "run", obj |-> obj]         \* docker run --detach --name
Discard(obj) == [do |-> "remove", obj |-> obj]   \* docker kill, docker rm
Probe(what) == [do |-> "probe", obj |-> what]   \* a command or check without lasting effect

Restores == {"postgres", "grafana"}

\* verify_restore.run_drill of ops/postgres
PostgresScript ==
    <<Probe("pull"), Make("volume"), Run("container"), Probe("ready"), Probe("list"),
      Probe("restore"), Probe("server"), Probe("heads"), Probe("counts"), Probe("bytes")>>

\* verify_restore.run_drill of ops/grafana
GrafanaScript ==
    <<Probe("pull"), Make("volume"), Probe("extract"), Probe("chown"), Probe("unchanged"),
      Run("container"), Probe("port"), Probe("healthy"), Probe("dashboards"),
      Probe("folders"), Probe("datasources"), Probe("access"), Probe("bytes")>>

\* execute of run_container_soak; the drill between "seed" and "evidence" is
\* that of ContainerSoak.  "services" stands for postgres, redis and provider and
\* "workers" for the four replicas: one command each, although a start may fail
\* when some of them already run; those are in created_containers all the same.
SoakScript ==
    <<Probe("build"), Make("network"), Make("volume"), Run("services"), Probe("ready"),
      Run("worker-1"), Probe("seed"), Discard("worker-1"), Run("workers"), Probe("faults"),
      Run("coordinator"), Probe("evidence")>>

Script == [postgres |-> PostgresScript, grafana |-> GrafanaScript, soak |-> SoakScript]

Containers == {"container", "services", "worker-1", "workers", "coordinator"}
Objects == Containers \cup {"volume", "network"}

Exists(o) == objects[o] # Nobody
Running(d) == outcome[d] = "running"
Command(d) == Script[kind][step[d]]
InScript(d) == Running(d) /\ at[d] = "script"

\* The containers that hold on to a volume or network.
Users(o) == IF o = "volume" THEN {"container", "services"}
            ELSE IF o = "network" THEN Containers ELSE {}
InUse(o) == \E c \in Users(o) : Exists(c)

-----------------------------------------------------------------------------
(* What the integrity checks of the restore drills look at                 *)

\* Expected dashboards, by title and origin, and what anonymous callers meet.
Dashboard == [title : BOOLEAN, provisioned : BOOLEAN]
Access == [expected : {"disabled", "Viewer"}, enabled : BOOLEAN, role : {"Viewer", "Editor"},
           reads : BOOLEAN, admin : {200, 403}]

(***************************************************************************)
(* What a check may find.  Bounds: the major version of the server, whether*)
(* the Alembic heads are the expected ones, and the rows of a relation     *)
(* that is to have at least one.                                           *)
(***************************************************************************)
Findings ==
    [server |-> {17, 18}, heads |-> BOOLEAN, counts |-> {0, 1},
     unchanged |-> BOOLEAN, dashboards |-> [1 .. 2 -> Dashboard], folders |-> BOOLEAN,
     datasources |-> BOOLEAN, access |-> Access]

\* Mutant: nobody tries to read a dashboard.
validate_access_policy_by_settings(f) ==
    LET expected_enabled == f.expected # "disabled" IN
    /\ f.enabled = expected_enabled
    /\ expected_enabled => f.role = f.expected
    /\ f.admin \in {401, 403}

\* validate_access_policy: settings, then an anonymous read and an anonymous admin call.
validate_access_policy(f) ==
    LET expected_enabled == f.expected # "disabled" IN
    /\ f.enabled = expected_enabled
    /\ expected_enabled => f.role = f.expected
    /\ f.reads = expected_enabled
    /\ f.admin \in {401, 403}

\* Every title matches and one dashboard at least is not provisioned.
dashboards_met(f) ==
    /\ \A i \in DOMAIN f : f[i].title
    /\ \E i \in DOMAIN f : ~f[i].provisioned

\* Does run_drill go on after this finding of a check?
Accepts(check, f) ==
    /\ check = "server" => f = 18
    /\ check = "counts" => f >= 1
    /\ check \in {"heads", "unchanged", "folders", "datasources"} => f
    /\ check = "dashboards" => dashboards_met(f)
    /\ check = "access" => validate_access_policy(f)

-----------------------------------------------------------------------------
(* Start                                                                   *)

\* The names run_drill looks for before it creates anything.
ToLookFor == <<"container", "volume">>

Init ==
    /\ kind \in {"postgres", "grafana", "soak"}
    /\ objects = [o \in Objects |-> Nobody]
    /\ at = [d \in Drills |-> "check"]
    /\ step = [d \in Drills |-> 1]
    /\ left = [d \in Drills |-> ToLookFor]
    /\ preserve \in [Drills -> BOOLEAN]
    /\ tracked = [d \in Drills |-> <<>>]
    /\ succeeded = [d \in Drills |-> FALSE]
    /\ outcome = [d \in Drills |-> "running"]
    /\ seen = [d \in Drills |-> <<>>]
    /\ target = [d \in Drills |-> Nobody]
    /\ blind = {} /\ robbers = {} /\ hiccups = {}

Ends(d, how) ==
    /\ outcome' = [outcome EXCEPT ![d] = how]
    /\ at' = [at EXCEPT ![d] = "end"]

Settings == <<kind, preserve>>
History == <<target, blind, robbers, hiccups>>

\* validate_args or the soak's own checks refuse the arguments.
Refuse(d) ==
    /\ Running(d) /\ at[d] = "check"
    /\ Ends(d, "refused")
    /\ UNCHANGED <<Settings, objects, step, left, tracked, succeeded, seen, History>>

-----------------------------------------------------------------------------
(* Commands                                                                *)

\* Mutant: the restore drills forget the volume.
CleanupListContainers(made) ==
    IF kind \in Restores THEN <<"container">>
    ELSE Reverse(made) \o <<"network", "volume">>

\* finally: what there is to clean up, in order.
CleanupList(made) ==
    IF kind \in Restores THEN <<"container", "volume">>
    ELSE Reverse(made) \o <<"network", "volume">>

\* The drill leaves its try block.
Leave(d, made, well) ==
    /\ succeeded' = [succeeded EXCEPT ![d] = well]
    /\ UNCHANGED step
    /\ IF preserve[d] /\ (well \/ kind = "soak")
       THEN Ends(d, IF well THEN "evidence" ELSE "failed") /\ UNCHANGED left
       ELSE /\ at' = [at EXCEPT ![d] = "cleanup"]
            /\ left' = [left EXCEPT ![d] = CleanupList(made)]
            /\ UNCHANGED outcome

\* Mutant: the look is taken inside the try block, so that a refusal cleans up.
CheckAbsentInTry(d) ==
    /\ Running(d) /\ at[d] = "check"
    /\ IF kind = "soak"
       THEN at' = [at EXCEPT ![d] = "script"] /\ UNCHANGED <<step, left, succeeded, outcome, blind>>
       ELSE \E found \in BOOLEAN :
            LET o == Head(left[d]) IN
            /\ found => Exists(o)
            /\ IF found THEN Leave(d, <<>>, FALSE) /\ UNCHANGED blind
               ELSE /\ left' = [left EXCEPT ![d] = Tail(@)]
                    /\ at' = [at EXCEPT ![d] = IF Len(left[d]) = 1 THEN "script" ELSE @]
                    /\ blind' = IF Exists(o) THEN blind \cup {d} ELSE blind
                    /\ UNCHANGED <<step, succeeded, outcome>>
    /\ UNCHANGED <<Settings, objects, tracked, seen, target, robbers, hiccups>>

(***************************************************************************)
(* docker_object_exists for the next name: a command that fails looks like *)
(* an object that does not exist.  The soak looks for nothing.             *)
(***************************************************************************)
CheckAbsent(d) ==
    /\ Running(d) /\ at[d] = "check"
    /\ IF kind = "soak" THEN at' = [at EXCEPT ![d] = "script"] /\ UNCHANGED <<left, outcome, blind>>
       ELSE \E found \in BOOLEAN :
            LET o == Head(left[d]) IN
            /\ found => Exists(o)
            /\ IF found THEN Ends(d, "refused") /\ UNCHANGED <<left, blind>>
               ELSE /\ left' = [left EXCEPT ![d] = Tail(@)]
                    /\ at' = [at EXCEPT ![d] = IF Len(left[d]) = 1 THEN "script" ELSE @]
                    /\ blind' = IF Exists(o) THEN blind \cup {d} ELSE blind
                    /\ UNCHANGED outcome
    /\ UNCHANGED <<Settings, objects, step, tracked, succeeded, seen, target, robbers, hiccups>>

\* The next command, or the end of the script.
Proceed(d, made) ==
    IF step[d] = Len(Script[kind]) THEN Leave(d, made, TRUE)
    ELSE step' = [step EXCEPT ![d] = @ + 1] /\ UNCHANGED <<at, left, succeeded, outcome>>

\* Drills past their check learn nothing of an object created now.
Unaware(d) == {e \in Drills \ {d} : Running(e) /\ (at[e] # "check" \/ left[e] # ToLookFor)}

MakeObject(d) ==
    /\ InScript(d) /\ Command(d).do = "make"
    /\ LET o == Command(d).obj IN
       /\ ~Exists(o) \/ o = "volume"
       /\ objects' = IF Exists(o) THEN objects ELSE [objects EXCEPT ![o] = d]
       /\ blind' = IF Exists(o) THEN blind ELSE blind \cup Unaware(d)
    /\ Proceed(d, tracked[d])
    /\ UNCHANGED <<Settings, tracked, seen, target, robbers, hiccups>>

\* What docker run does to the objects: the container, and a volume it mounts.
Started(d, o) ==
    [x \in Objects |-> IF x = o \/ (x = "volume" /\ o \in Users(x) /\ ~Exists(x)) THEN d
                       ELSE objects[x]]

RunContainer(d) ==
    /\ InScript(d) /\ Command(d).do = "run"
    /\ LET o == Command(d).obj
           made == Append(tracked[d], o)
       IN /\ ~Exists(o)
          /\ kind = "soak" => Exists("network")
          /\ objects' = Started(d, o)
          /\ target' = IF o \in Users("volume") THEN [target EXCEPT ![d] = objects'["volume"]]
                       ELSE target
          /\ tracked' = IF kind = "soak" THEN [tracked EXCEPT ![d] = made] ELSE tracked
          /\ Proceed(d, made)
    /\ blind' = blind \cup Unaware(d)
    /\ UNCHANGED <<Settings, seen, robbers, hiccups>>

\* docker run creates the container and fails to start it.
RunHalfway(d) ==
    /\ InScript(d) /\ Command(d).do = "run"
    /\ LET o == Command(d).obj IN
       /\ ~Exists(o)
       /\ kind = "soak" => Exists("network")
       /\ objects' = Started(d, o)
    /\ Leave(d, tracked[d], FALSE)
    /\ blind' = blind \cup Unaware(d)
    /\ hiccups' = IF kind = "soak" THEN hiccups \cup {d} ELSE hiccups
    /\ UNCHANGED <<Settings, tracked, seen, target, robbers>>

\* Removing an object, and what the history makes of it.
Removed(d, o) ==
    /\ objects' = [objects EXCEPT ![o] = Nobody]
    /\ robbers' = IF objects[o] \in {d, Nobody} THEN robbers ELSE robbers \cup {d}

RemoveVictim(d) ==
    /\ InScript(d) /\ Command(d).do = "remove"
    /\ Exists(Command(d).obj)
    /\ Removed(d, Command(d).obj)
    /\ tracked' = [tracked EXCEPT ![d] = RemoveFirst(@, Command(d).obj)]
    /\ Proceed(d, tracked'[d])
    /\ UNCHANGED <<Settings, seen, target, blind, hiccups>>

\* A command or check succeeds; after "run" it needs the drill's container.
ProbePasses(d) ==
    /\ InScript(d) /\ Command(d).do = "probe"
    /\ LET ran == {i \in 1 .. step[d] - 1 : Script[kind][i].do = "run"}
           gone == {Script[kind][i].obj : i \in {j \in 1 .. step[d] - 1 : Script[kind][j].do = "remove"}}
       IN \A i \in ran : Script[kind][i].obj \in gone \/ Exists(Script[kind][i].obj)
    /\ LET check == Command(d).obj IN
       IF check \in DOMAIN Findings
       THEN \E f \in Findings[check] :
            /\ Accepts(check, f)
            /\ seen' = [seen EXCEPT ![d] = [c \in DOMAIN seen[d] \cup {check} |->
                                            IF c = check THEN f ELSE seen[d][c]]]
       ELSE UNCHANGED seen
    /\ Proceed(d, tracked[d])
    /\ UNCHANGED <<Settings, objects, tracked, History>>

\* Any command or check of the script fails, without an effect.
CommandFails(d) ==
    /\ InScript(d)
    /\ Leave(d, tracked[d], FALSE)
    /\ UNCHANGED <<Settings, objects, tracked, seen, History>>

-----------------------------------------------------------------------------
(* Cleanup                                                                 *)

CleaningUp(d) == Running(d) /\ at[d] = "cleanup"

\* The next object is dealt with; after the last one the outcome stands.
NextToClean(d) ==
    /\ left' = [left EXCEPT ![d] = Tail(@)]
    /\ IF Len(left[d]) = 1 THEN Ends(d, IF succeeded[d] THEN "evidence" ELSE "failed")
       ELSE UNCHANGED <<at, outcome>>

\* The object is found and removed: inspect and rm are one step, so that no other
\* drill removes it in between (rm would raise as in CleanupRaises).
CleanupRemoves(d) ==
    /\ CleaningUp(d)
    /\ LET o == Head(left[d]) IN Exists(o) /\ ~InUse(o) /\ Removed(d, o)
    /\ NextToClean(d)
    /\ UNCHANGED <<Settings, step, tracked, succeeded, seen, target, blind, hiccups>>

\* The object is not there, or the inspection fails, or the soak ignores a failed removal.
CleanupSkips(d) ==
    /\ CleaningUp(d)
    /\ hiccups' = IF Exists(Head(left[d])) THEN hiccups \cup {d} ELSE hiccups
    /\ NextToClean(d)
    /\ UNCHANGED <<Settings, objects, step, tracked, succeeded, seen, target, blind, robbers>>

\* A removal of a restore drill raises: the rest is skipped, and so is the result.
CleanupRaises(d) ==
    /\ CleaningUp(d) /\ kind \in Restores
    /\ Exists(Head(left[d]))
    /\ hiccups' = hiccups \cup {d}
    /\ Ends(d, "failed")
    /\ UNCHANGED <<Settings, objects, step, left, tracked, succeeded, seen, target, blind, robbers>>

Killed(d) ==
    /\ Running(d)
    /\ Ends(d, "killed")
    /\ UNCHANGED <<Settings, objects, step, left, tracked, succeeded, seen, History>>

Next ==
    \E d \in Drills :
        \/ Refuse(d) \/ CheckAbsent(d)
        \/ MakeObject(d) \/ RunContainer(d) \/ RunHalfway(d) \/ RemoveVictim(d)
        \/ ProbePasses(d) \/ CommandFails(d)
        \/ CleanupRemoves(d) \/ CleanupSkips(d) \/ CleanupRaises(d)
        \/ Killed(d)

Spec == Init /\ [][Next]_drillVars

-----------------------------------------------------------------------------
(* Properties                                                              *)

(***************************************************************************)
(* A drill that was not killed leaves nothing of its own behind, whichever *)
(* command failed and wherever: a restore drill even removes a container   *)
(* that docker created and could not start.  The exceptions are a target   *)
(* that was to be preserved and passed (the soak's --keep: any), a cleanup *)
(* command that failed, and, in the soak, a container that was created but *)
(* not started: it is not in created_containers, and holds on to network   *)
(* and volume.                                                             *)
(***************************************************************************)
NothingLeftBehind ==
    \A d \in Drills \ hiccups :
        /\ outcome[d] \in {"refused", "failed", "evidence"}
        /\ ~(preserve[d] /\ (outcome[d] = "evidence" \/ kind = "soak"))
        => \A o \in Objects : objects[o] # d

(***************************************************************************)
(* One run id used twice: a restore drill removes an object of another     *)
(* drill only if its own look for existing objects could not see it, since *)
(* the two drills ran at the same time or docker inspect failed.  What a   *)
(* killed or a preserving drill left is never touched by a later one, nor  *)
(* is it taken for the drill's own: evidence is about a volume that the    *)
(* drill made itself, although docker volume create would silently accept  *)
(* the one that is there.                                                  *)
(***************************************************************************)
LaterDrillsKeepOff ==
    kind \in Restores =>
        /\ robbers \subseteq blind
        /\ \A d \in Drills \ blind : outcome[d] = "evidence" => target[d] = d

(***************************************************************************)
(* Evidence is only written for a target that deserves it: PostgreSQL 18   *)
(* with the expected heads and rows; a Grafana with content that cannot    *)
(* come from the mounted provisioning, whose dashboards anonymous callers  *)
(* read exactly if a role was expected, and whose settings they never read.*)
(* A target that was to be preserved is there when the evidence says so    *)
(* (target_preserved), unless the other drill could not see it.            *)
(***************************************************************************)
EvidenceIsDeserved ==
    \A d \in Drills : outcome[d] = "evidence" =>
        /\ kind \in Restores /\ preserve[d] /\ blind = {} =>
            objects["container"] = d /\ objects["volume"] = d
        /\ kind = "postgres" => seen[d] = [server |-> 18, heads |-> TRUE, counts |-> 1]
        /\ kind = "grafana" =>
            /\ seen[d].unchanged /\ seen[d].folders /\ seen[d].datasources
            /\ \E i \in 1 .. 2 : seen[d].dashboards[i] = [title |-> TRUE, provisioned |-> FALSE]
            /\ seen[d].access.reads <=> seen[d].access.expected # "disabled"
            /\ seen[d].access.admin # 200

=============================================================================
