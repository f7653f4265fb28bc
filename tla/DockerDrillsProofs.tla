-------------------------- MODULE DockerDrillsProofs --------------------------
(***************************************************************************)
(* Proofs about DockerDrills, for every number of invocations that share a *)
(* run id, and about RecoveryEvidence, for every number of defects.        *)
(***************************************************************************)
EXTENDS DockerDrills, RecoveryEvidence, SequenceTheorems, WellFoundedInduction, TLAPS

-----------------------------------------------------------------------------
(* The invariant                                                           *)

Kinds == {"postgres", "grafana", "soak"}

\* The integrity checks among the first n - 1 commands of a script.
Checks(k, n) == {Script[k][i].obj : i \in 1 .. n - 1} \cap DOMAIN Findings

\* The script has started the container of the restore drill.
Ran(d) == \E i \in 1 .. step[d] - 1 : Script[kind][i].do = "run"

\* The drill passed the start of its container and did not fail since.
Through(d) == succeeded[d] \/ (at[d] = "script" /\ Ran(d))

\* The drill made this object and it is still there.
Owns(d, o) == objects[o] = d

DrillTypes ==
    /\ kind \in Kinds
    /\ objects \in [Objects -> Drills \cup {Nobody}]
    /\ at \in [Drills -> {"check", "script", "cleanup", "end"}]
    /\ step \in [Drills -> Nat]
    /\ left \in [Drills -> Seq(Objects)]
    /\ preserve \in [Drills -> BOOLEAN]
    /\ tracked \in [Drills -> Seq(Objects)]
    /\ succeeded \in [Drills -> BOOLEAN]
    /\ outcome \in [Drills -> {"running", "refused", "failed", "evidence", "killed"}]
    /\ seen = [d \in Drills |-> seen[d]]
    /\ target \in [Drills -> Drills \cup {Nobody}]

\* Where a drill is: what is left to look at, and when it has succeeded.
ControlOK(d) ==
    /\ step[d] \in 1 .. Len(Script[kind])
    /\ at[d] = "end" <=> ~Running(d)
    /\ at[d] = "check" => step[d] = 1 /\ left[d] \in {<<"container", "volume">>, <<"volume">>}
    /\ at[d] = "cleanup" => left[d] # <<>>
    /\ at[d] = "cleanup" /\ kind \in Restores =>
        left[d] \in {<<"container", "volume">>, <<"volume">>}
    /\ at[d] \in {"check", "script"} => ~succeeded[d]
    /\ at[d] = "cleanup" /\ preserve[d] => kind \in Restores /\ ~succeeded[d]
    /\ succeeded[d] => step[d] = Len(Script[kind])
    /\ outcome[d] = "evidence" => succeeded[d]

\* A restore drill that is not blind has the names to itself.
NamesAreFree(d) ==
    kind \in Restores /\ d \notin blind /\ Running(d) =>
        /\ at[d] = "check" /\ left[d] = <<"volume">> => objects["container"] = Nobody
        /\ at[d] \in {"script", "cleanup"} =>
            \A o \in {"container", "volume"} : objects[o] \in {d, Nobody}

\* What its container mounts is its own.
MountsOwn(d) == kind \in Restores /\ d \notin blind /\ Through(d) => target[d] = d

\* While nobody is blind, what a drill needs or preserves stays.
TargetStays(d) ==
    kind \in Restores /\ blind = {}
        /\ ((at[d] = "script" /\ Ran(d)) \/ (outcome[d] = "evidence" /\ preserve[d])) =>
        Owns(d, "container") /\ Owns(d, "volume")

\* What the checks that were passed have seen.
SeenOK(d) ==
    /\ seen[d] = [c \in DOMAIN seen[d] |-> seen[d][c]]
    /\ DOMAIN seen[d] = Checks(kind, step[d])
    /\ \A c \in DOMAIN seen[d] : seen[d][c] \in Findings[c] /\ Accepts(c, seen[d][c])

\* A drill knows which of its own objects it has to remove.
KnowsItsOwn(d) ==
    /\ at[d] = "check" => \A o \in Objects : ~Owns(d, o)
    /\ at[d] = "script" => \A o \in Objects : Owns(d, o) => o \in ToSet(CleanupList(tracked[d]))
    /\ at[d] = "cleanup" /\ d \notin hiccups =>
        \A o \in Objects : Owns(d, o) => o \in ToSet(left[d])
    /\ d \notin hiccups
        /\ outcome[d] \in {"refused", "failed", "evidence"}
        /\ ~(preserve[d] /\ (outcome[d] = "evidence" \/ kind = "soak")) =>
        \A o \in Objects : ~Owns(d, o)

DrillOK(d) ==
    /\ ControlOK(d) /\ NamesAreFree(d) /\ MountsOwn(d) /\ TargetStays(d) /\ SeenOK(d)
    /\ KnowsItsOwn(d)

\* Restore drills have two names, and only blind ones rob another.
SharedOK ==
    kind \in Restores =>
        /\ robbers \subseteq blind
        /\ \A o \in Objects \ {"container", "volume"} : objects[o] = Nobody

DrillInv == DrillTypes /\ SharedOK /\ \A d \in Drills : DrillOK(d)
-----------------------------------------------------------------------------
(* The scripts                                                             *)

\* What the commands of a script are about.
LEMMA Commands ==
    ASSUME NEW k \in Kinds, NEW i \in 1 .. Len(Script[k])
    PROVE  /\ Script[k][i].do \in {"make", "run", "remove", "probe"}
           /\ Script[k][i].do = "make" => Script[k][i].obj \in {"volume", "network"}
           /\ Script[k][i].do = "make" /\ k \in Restores => Script[k][i].obj = "volume"
           /\ Script[k][i].do = "run" => Script[k][i].obj \in Containers
           /\ Script[k][i].do = "run" /\ k \in Restores => Script[k][i].obj = "container"
           /\ Script[k][i].do = "run" /\ k = "soak" => Script[k][i].obj # "container"
           /\ Script[k][i].do = "remove" => k = "soak" /\ Script[k][i].obj = "worker-1"
           /\ Script[k][i].do # "probe" => Script[k][i].obj \notin DOMAIN Findings
           /\ i = Len(Script[k]) =>
                Script[k][i].do = "probe" /\ Script[k][i].obj \notin DOMAIN Findings
<1>1. CASE k = "postgres"
  BY <1>1 DEF Script, PostgresScript, Make, Run, Discard, Probe, Restores, Containers, Findings
<1>2. CASE k = "grafana"
  BY <1>2 DEF Script, GrafanaScript, Make, Run, Discard, Probe, Restores, Containers, Findings
<1>3. CASE k = "soak"
  BY <1>3 DEF Script, SoakScript, Make, Run, Discard, Probe, Restores, Containers, Findings
<1> QED BY <1>1, <1>2, <1>3 DEF Kinds

\* A whole script.
LEMMA WholeScript ==
    ASSUME NEW k \in Kinds
    PROVE  /\ Len(Script[k]) \in Nat \ {0}
           /\ Len(Script[k]) # 1
           /\ k \in Restores => \E i \in 1 .. Len(Script[k]) - 1 : Script[k][i].do = "run"
           /\ k = "postgres" => Checks(k, Len(Script[k])) = {"server", "heads", "counts"}
           /\ k = "grafana" => Checks(k, Len(Script[k])) =
                {"unchanged", "dashboards", "folders", "datasources", "access"}
<1>1. CASE k = "postgres"
  <2>1. Len(Script[k]) = 10 /\ Script[k][3].do = "run"
    BY <1>1 DEF Script, PostgresScript, Make, Run, Probe
  <2>2. \A i \in 1 .. 9 : Script[k][i].obj \in {"pull", "volume", "container", "ready", "list",
            "restore", "server", "heads", "counts"}
    BY <1>1 DEF Script, PostgresScript, Make, Run, Probe
  <2>3. /\ Script[k][7].obj = "server" /\ Script[k][8].obj = "heads"
        /\ Script[k][9].obj = "counts"
    BY <1>1 DEF Script, PostgresScript, Make, Run, Probe
  <2>4. DOMAIN Findings = {"server", "heads", "counts", "unchanged", "dashboards", "folders",
                           "datasources", "access"}
    BY DEF Findings
  <2>5. Checks(k, Len(Script[k])) = {"server", "heads", "counts"}
    BY <2>1, <2>2, <2>3, <2>4 DEF Checks
  <2> QED BY <1>1, <2>1, <2>5
<1>2. CASE k = "grafana"
  <2>1. Len(Script[k]) = 13 /\ Script[k][6].do = "run"
    BY <1>2 DEF Script, GrafanaScript, Make, Run, Probe
  <2>2. \A i \in 1 .. 12 : Script[k][i].obj \in {"pull", "volume", "extract", "chown",
            "unchanged", "container", "port", "healthy", "dashboards", "folders",
            "datasources", "access"}
    BY <1>2 DEF Script, GrafanaScript, Make, Run, Probe
  <2>3. /\ Script[k][5].obj = "unchanged" /\ Script[k][9].obj = "dashboards"
        /\ Script[k][10].obj = "folders" /\ Script[k][11].obj = "datasources"
        /\ Script[k][12].obj = "access"
    BY <1>2 DEF Script, GrafanaScript, Make, Run, Probe
  <2>4. DOMAIN Findings = {"server", "heads", "counts", "unchanged", "dashboards", "folders",
                           "datasources", "access"}
    BY DEF Findings
  <2>5. Checks(k, Len(Script[k])) =
            {"unchanged", "dashboards", "folders", "datasources", "access"}
    BY <2>1, <2>2, <2>3, <2>4 DEF Checks
  <2> QED BY <1>2, <2>1, <2>5
<1>3. CASE k = "soak"
  BY <1>3 DEF Script, SoakScript, Restores
<1> QED BY <1>1, <1>2, <1>3 DEF Kinds

\* One command further, one check more if it is one.
LEMMA NextCheck ==
    ASSUME NEW k \in Kinds, NEW n \in 1 .. Len(Script[k])
    PROVE  /\ Script[k][n].obj \in DOMAIN Findings =>
                Checks(k, n + 1) = Checks(k, n) \cup {Script[k][n].obj}
           /\ Script[k][n].obj \notin DOMAIN Findings => Checks(k, n + 1) = Checks(k, n)
<1>1. n \in Nat /\ 1 .. (n + 1) - 1 = (1 .. n - 1) \cup {n}
  BY WholeScript
<1> QED BY <1>1 DEF Checks

-----------------------------------------------------------------------------
(* Lists of objects                                                        *)

\* Every set of naturals that is not empty has a least element.
LEMMA LeastIndex ==
    ASSUME NEW I \in SUBSET Nat, I # {}
    PROVE  Min(I) \in I
<1> DEFINE R == {p \in Nat \X Nat : p[1] < p[2]}
<1>1. OpToRel(<, Nat) = R
  BY DEF OpToRel
<1>2. IsWellFoundedOn(R, Nat)
  BY <1>1, NatLessThanWellFounded
<1>3. PICK x \in I : \A y \in I : ~(<<y, x>> \in R)
  <2> HIDE DEF R
  <2> QED BY <1>2, WFMin
<1>4. \A y \in I : x <= y
  <2> TAKE y \in I
  <2>1. x \in Nat /\ y \in Nat
    OBVIOUS
  <2>2. ~(y < x)
    BY <1>3, <2>1
  <2> QED BY <2>1, <2>2
<1> QED BY <1>4 DEF Min

\* created_containers.remove leaves every other object in the list.
LEMMA RemoveObject ==
    ASSUME NEW list \in Seq(Objects), NEW e
    PROVE  /\ RemoveFirst(list, e) \in Seq(Objects)
           /\ \A o \in ToSet(list) : o # e => o \in ToSet(RemoveFirst(list, e))
<1>1. CASE ~\E i \in 1 .. Len(list) : list[i] = e
  BY <1>1 DEF RemoveFirst
<1>2. CASE \E i \in 1 .. Len(list) : list[i] = e
  <2> DEFINE I == {i \in 1 .. Len(list) : list[i] = e}
             k == Min(I)
             a == SubSeq(list, 1, k - 1)
             b == SubSeq(list, k + 1, Len(list))
             n == Len(list)
  <2>1. /\ n \in Nat
        /\ DOMAIN list = 1 .. n
        /\ \A i \in 1 .. n : list[i] \in Objects
    BY LenProperties, ElementOfSeq
  <2>2. k \in I
    <3>1. I \in SUBSET Nat /\ I # {}
      BY <1>2, <2>1
    <3> HIDE DEF I
    <3> QED BY <3>1, LeastIndex
  <2>3. SelectInSeq(list, LAMBDA v : v = e) = k
    BY <1>2 DEF SelectInSeq
  <2>4. RemoveFirst(list, e) = a \o b
    BY <1>2, <2>3 DEF RemoveFirst, RemoveAt
  <2>5. k \in 1 .. n /\ list[k] = e
    BY <2>2
  <2> HIDE DEF k
  <2>6. /\ a \in Seq(Objects) /\ Len(a) = k - 1
        /\ \A i \in 1 .. k - 1 : a[i] = list[i]
    BY <2>1, <2>5, SubSeqProperties
  <2>7. /\ b \in Seq(Objects) /\ Len(b) = n - k
        /\ \A i \in 1 .. n - k : b[i] = list[k + i]
    <3>1. \A i \in (k + 1) .. n : list[i] \in Objects
      BY <2>1, <2>5
    <3>2. /\ b \in Seq(Objects)
          /\ Len(b) = IF k + 1 <= n THEN n - (k + 1) + 1 ELSE 0
          /\ \A i \in 1 .. n - (k + 1) + 1 : b[i] = list[(k + 1) + i - 1]
      BY <2>1, <2>5, <3>1, SubSeqProperties
    <3> HIDE DEF b, n
    <3>3. (IF k + 1 <= n THEN n - (k + 1) + 1 ELSE 0) = n - k
      BY <2>1, <2>5
    <3>4. ASSUME NEW i \in 1 .. n - k
          PROVE  b[i] = list[k + i]
      <4>1. i \in 1 .. n - (k + 1) + 1 /\ (k + 1) + i - 1 = k + i
        BY <2>1, <2>5
      <4> QED BY <3>2, <4>1
    <3> QED BY <3>2, <3>3, <3>4
  <2> HIDE DEF a, b, n
  <2>8. /\ a \o b \in Seq(Objects)
        /\ Len(a \o b) = Len(a) + Len(b)
        /\ \A i \in 1 .. Len(a) + Len(b) :
             (a \o b)[i] = IF i <= Len(a) THEN a[i] ELSE b[i - Len(a)]
    BY <2>6, <2>7, ConcatProperties
  <2>9. DOMAIN (a \o b) = 1 .. n - 1
    BY <2>1, <2>5, <2>6, <2>7, <2>8, LenProperties
  <2>10. ASSUME NEW i \in 1 .. n, list[i] # e
         PROVE  \E j \in DOMAIN (a \o b) : (a \o b)[j] = list[i]
    <3>1. CASE i < k
      <4>1. i \in 1 .. n - 1 /\ i <= Len(a) /\ i \in 1 .. k - 1 /\ i \in 1 .. Len(a) + Len(b)
        BY <2>1, <2>5, <2>6, <2>7, <3>1
      <4> QED BY <4>1, <2>6, <2>8, <2>9
    <3>2. CASE i > k
      <4>1. /\ i - 1 \in 1 .. n - 1 /\ ~(i - 1 <= Len(a)) /\ i - 1 - Len(a) = i - k
            /\ i - 1 \in 1 .. Len(a) + Len(b)
            /\ i - k \in 1 .. n - k /\ k + (i - k) = i
        BY <2>1, <2>5, <2>6, <2>7, <3>2
      <4>2. (a \o b)[i - 1] = b[i - k]
        BY <4>1, <2>8
      <4>3. b[i - k] = list[i]
        BY <4>1, <2>7
      <4> QED BY <4>1, <4>2, <4>3, <2>9
    <3> QED BY <2>1, <2>5, <2>10, <3>1, <3>2
  <2> QED BY <2>1, <2>4, <2>8, <2>10 DEF ToSet
<1> QED BY <1>1, <1>2

\* Appending, and going on to the next object of a list.
LEMMA ListSteps ==
    ASSUME NEW list \in Seq(Objects)
    PROVE  /\ \A o \in Objects : /\ Append(list, o) \in Seq(Objects)
                                 /\ ToSet(Append(list, o)) = ToSet(list) \cup {o}
           /\ list # <<>> => /\ Head(list) \in Objects
                             /\ Tail(list) \in Seq(Objects)
                             /\ ToSet(list) \subseteq {Head(list)} \cup ToSet(Tail(list))
                             /\ Len(list) = 1 => ToSet(Tail(list)) = {}
                             /\ Len(list) # 1 => Tail(list) # <<>>
<1>0. Len(list) \in Nat /\ DOMAIN list = 1 .. Len(list)
  BY LenProperties
<1>1. ASSUME NEW o \in Objects
      PROVE  /\ Append(list, o) \in Seq(Objects)
             /\ ToSet(Append(list, o)) = ToSet(list) \cup {o}
  <2> DEFINE new == Append(list, o)
  <2>1. /\ new \in Seq(Objects) /\ Len(new) = Len(list) + 1
        /\ \A i \in 1 .. Len(list) : new[i] = list[i]
        /\ new[Len(list) + 1] = o
    BY AppendProperties
  <2> HIDE DEF new
  <2>2. DOMAIN new = 1 .. Len(list) + 1
    BY <2>1, LenProperties
  <2>3. DOMAIN new = DOMAIN list \cup {Len(list) + 1}
    BY <1>0, <2>2
  <2>4. ToSet(new) = ToSet(list) \cup {o}
    BY <1>0, <2>1, <2>3 DEF ToSet
  <2> QED BY <2>1, <2>4 DEF new
<1>2. ASSUME list # <<>>
      PROVE  /\ Head(list) \in Objects
             /\ Tail(list) \in Seq(Objects)
             /\ ToSet(list) \subseteq {Head(list)} \cup ToSet(Tail(list))
             /\ Len(list) = 1 => ToSet(Tail(list)) = {}
             /\ Len(list) # 1 => Tail(list) # <<>>
  <2> DEFINE rest == Tail(list)
  <2>1. /\ Head(list) \in Objects /\ rest \in Seq(Objects)
        /\ Len(rest) = Len(list) - 1
        /\ \A i \in 1 .. Len(rest) : rest[i] = list[i + 1]
    BY <1>2, HeadTailProperties
  <2>2. Head(list) = list[1] /\ Len(list) # 0
    BY <1>2, EmptySeq
  <2> HIDE DEF rest
  <2>3. DOMAIN rest = 1 .. Len(list) - 1
    BY <2>1, LenProperties
  <2>4. ASSUME NEW i \in DOMAIN list
        PROVE  list[i] \in {Head(list)} \cup ToSet(rest)
    <3>1. CASE i = 1
      BY <2>2, <3>1
    <3>2. CASE i # 1
      <4>1. i - 1 \in DOMAIN rest /\ i - 1 \in 1 .. Len(rest) /\ (i - 1) + 1 = i
        BY <1>0, <2>1, <2>3, <3>2
      <4>2. rest[i - 1] = list[i]
        BY <2>1, <4>1
      <4> QED BY <4>1, <4>2 DEF ToSet
    <3> QED BY <3>1, <3>2
  <2>5. ToSet(list) \subseteq {Head(list)} \cup ToSet(rest)
    BY <2>4 DEF ToSet
  <2>6. Len(list) = 1 => ToSet(rest) = {}
    BY <2>3 DEF ToSet
  <2>7. Len(list) # 1 => rest # <<>>
    BY <1>0, <2>1, <2>2, EmptySeq
  <2> QED BY <2>1, <2>5, <2>6, <2>7 DEF rest
<1> QED BY <1>1, <1>2

\* The lists that the restore drills go through.
LEMMA LookedAt ==
    /\ <<"container", "volume">> \in Seq(Objects)
    /\ <<"container", "volume">> # <<>>
    /\ Len(<<"container", "volume">>) = 2
    /\ Head(<<"container", "volume">>) = "container"
    /\ Tail(<<"container", "volume">>) = <<"volume">>
    /\ <<"volume">> \in Seq(Objects)
    /\ <<"volume">> # <<>>
    /\ Len(<<"volume">>) = 1
    /\ Head(<<"volume">>) = "volume"
    /\ Tail(<<"volume">>) = <<>>
<1>1. "container" \in Objects /\ "volume" \in Objects
  BY DEF Objects, Containers
<1>2. /\ <<"container", "volume">> \in Seq(Objects) /\ <<"volume">> \in Seq(Objects)
      /\ Len(<<"container", "volume">>) = 2 /\ Len(<<"volume">>) = 1
      /\ Head(<<"container", "volume">>) = "container" /\ Head(<<"volume">>) = "volume"
  BY <1>1
<1>3. <<"container", "volume">> # <<>> /\ <<"volume">> # <<>>
  BY <1>2, EmptySeq
<1>4. Tail(<<"container", "volume">>) = <<"volume">>
  OBVIOUS
<1>5. Tail(<<"volume">>) = <<>>
  OBVIOUS
<1> QED BY <1>2, <1>3, <1>4, <1>5

\* What the cleanup looks at.
LEMMA CleanupSet ==
    ASSUME NEW made \in Seq(Objects)
    PROVE  /\ CleanupList(made) \in Seq(Objects)
           /\ CleanupList(made) # <<>>
           /\ kind \in Restores => CleanupList(made) = <<"container", "volume">>
           /\ kind \in Restores => ToSet(CleanupList(made)) = {"container", "volume"}
           /\ kind \notin Restores =>
                ToSet(CleanupList(made)) = ToSet(made) \cup {"network", "volume"}
<1>1. CASE kind \in Restores
  <2>1. CleanupList(made) = <<"container", "volume">>
    BY <1>1 DEF CleanupList
  <2>2. ToSet(<<"container", "volume">>) = {"container", "volume"}
    BY DEF ToSet
  <2> QED BY <1>1, <2>1, <2>2 DEF Objects, Containers
<1>2. CASE kind \notin Restores
  <2> DEFINE back == Reverse(made)
             rest == <<"network", "volume">>
             n == Len(made)
  <2>1. n \in Nat /\ DOMAIN made = 1 .. n /\ \A i \in 1 .. n : made[i] \in Objects
    BY LenProperties, ElementOfSeq
  <2>2. back \in Seq(Objects) /\ Len(back) = n /\ \A i \in 1 .. n : back[i] = made[n - i + 1]
    BY <2>1, IsASeq DEF Reverse
  <2>3. rest \in Seq(Objects) /\ Len(rest) = 2 /\ rest[1] = "network" /\ rest[2] = "volume"
    BY DEF Objects, Containers
  <2> HIDE DEF back, rest, n
  <2>4. /\ back \o rest \in Seq(Objects)
        /\ Len(back \o rest) = n + 2
        /\ \A i \in 1 .. n + 2 : (back \o rest)[i] = IF i <= n THEN back[i] ELSE rest[i - n]
    <3>1. /\ back \o rest \in Seq(Objects)
          /\ Len(back \o rest) = Len(back) + Len(rest)
          /\ \A i \in 1 .. Len(back) + Len(rest) :
               (back \o rest)[i] = IF i <= Len(back) THEN back[i] ELSE rest[i - Len(back)]
      BY <2>2, <2>3, ConcatProperties
    <3> QED BY <2>2, <2>3, <3>1
  <2>5. DOMAIN (back \o rest) = 1 .. n + 2
    BY <2>4, LenProperties
  <2>6. ASSUME NEW i \in 1 .. n
        PROVE  made[i] \in ToSet(back \o rest)
    <3>1. n - i + 1 \in 1 .. n /\ n - i + 1 \in 1 .. n + 2 /\ n - (n - i + 1) + 1 = i
      BY <2>1
    <3>2. (back \o rest)[n - i + 1] = made[i]
      BY <2>2, <2>4, <3>1
    <3> QED BY <2>5, <3>1, <3>2 DEF ToSet
  <2>7. {"network", "volume"} \subseteq ToSet(back \o rest)
    <3>1. /\ n + 1 \in 1 .. n + 2 /\ n + 2 \in 1 .. n + 2
          /\ ~(n + 1 <= n) /\ ~(n + 2 <= n) /\ n + 1 - n = 1 /\ n + 2 - n = 2
      BY <2>1
    <3>2. (back \o rest)[n + 1] = rest[1] /\ (back \o rest)[n + 2] = rest[2]
      <4>1. ASSUME NEW i, NEW j \in 1 .. 2, i = n + j
            PROVE  (back \o rest)[i] = rest[j]
        <5>1. i \in 1 .. n + 2 /\ ~(i <= n) /\ i - n = j
          BY <2>1, <4>1
        <5> QED BY <2>4, <5>1
      <4>2. \A j \in 1 .. 2 : (back \o rest)[n + j] = rest[j]
        BY <4>1
      <4>3. 1 \in 1 .. 2 /\ 2 \in 1 .. 2
        OBVIOUS
      <4> QED BY <4>2, <4>3, Zenon
    <3>3. (back \o rest)[n + 1] = "network" /\ (back \o rest)[n + 2] = "volume"
      BY <2>3, <3>2
    <3> QED BY <2>5, <3>1, <3>3 DEF ToSet
  <2>8. CleanupList(made) = back \o rest
    BY <1>2 DEF CleanupList, back, rest
  <2>9. back \o rest # <<>>
    BY <2>1, <2>4, EmptySeq
  <2>10. ToSet(made) \subseteq ToSet(back \o rest)
    <3>1. ToSet(made) = {made[i] : i \in 1 .. n}
      BY <2>1 DEF ToSet
    <3> QED BY <2>6, <3>1
  <2>11. ASSUME NEW i \in 1 .. n + 2
         PROVE  (back \o rest)[i] \in ToSet(made) \cup {"network", "volume"}
    <3>1. CASE i <= n
      <4>1. i \in 1 .. n /\ n - i + 1 \in 1 .. n
        BY <2>1, <3>1
      <4>2. (back \o rest)[i] = made[n - i + 1]
        BY <2>2, <2>4, <3>1, <4>1
      <4> QED BY <2>1, <4>1, <4>2 DEF ToSet
    <3>2. CASE ~(i <= n)
      <4>1. i - n \in {1, 2} /\ (back \o rest)[i] = rest[i - n]
        BY <2>1, <2>4, <3>2
      <4> QED BY <2>3, <4>1
    <3> QED BY <3>1, <3>2
  <2>12. ToSet(back \o rest) \subseteq ToSet(made) \cup {"network", "volume"}
    <3>1. ToSet(back \o rest) = {(back \o rest)[i] : i \in 1 .. n + 2}
      BY <2>5 DEF ToSet
    <3> QED BY <2>11, <3>1
  <2> QED BY <1>2, <2>4, <2>7, <2>8, <2>9, <2>10, <2>12
<1> QED BY <1>1, <1>2

-----------------------------------------------------------------------------
(* The start, and the steps of another drill                               *)

LEMMA DrillInitInv == Init => DrillInv
<1> SUFFICES ASSUME Init PROVE DrillInv
  OBVIOUS
<1> USE DEF Init
<1>1. DrillTypes
  BY DEF DrillTypes, Kinds, ToLookFor, Objects, Containers
<1>2. SharedOK
  BY DEF SharedOK, Restores
<1>3. ASSUME NEW d \in Drills
      PROVE  DrillOK(d)
  <2>1. /\ at[d] = "check" /\ step[d] = 1 /\ left[d] = <<"container", "volume">>
        /\ outcome[d] = "running" /\ succeeded[d] = FALSE /\ seen[d] = <<>>
        /\ kind \in Kinds
    BY DEF ToLookFor, Kinds
  <2>2. Len(Script[kind]) \in Nat \ {0}
    BY <2>1, WholeScript
  <2> HIDE DEF Init
  <2>3. ControlOK(d)
    BY <2>1, <2>2 DEF ControlOK, Running
  <2>4. NamesAreFree(d)
    BY <2>1 DEF NamesAreFree
  <2>5. MountsOwn(d) /\ TargetStays(d)
    BY <2>1 DEF MountsOwn, TargetStays, Through
  <2>6. SeenOK(d)
    <3>1. Checks(kind, 1) = {}
      BY DEF Checks
    <3>2. seen[d] = [c \in {} |-> seen[d][c]] /\ DOMAIN seen[d] = {}
      BY <2>1
    <3> QED BY <2>1, <3>1, <3>2 DEF SeenOK
  <2>7. KnowsItsOwn(d)
    BY <2>1, DrillsAssumption DEF KnowsItsOwn, Owns, Init
  <2> QED BY <2>3, <2>4, <2>5, <2>6, <2>7 DEF DrillOK
<1> QED BY <1>1, <1>2, <1>3 DEF DrillInv

(***************************************************************************)
(* What a step of e does not do to the others: it may create an object that*)
(* does not exist, which makes the drills that are past their check blind, *)
(* and remove one.                                                         *)
(***************************************************************************)
Aside(e) ==
    /\ kind' = kind /\ preserve' = preserve
    /\ \A d \in Drills \ {e} :
        /\ at'[d] = at[d] /\ step'[d] = step[d] /\ left'[d] = left[d]
        /\ tracked'[d] = tracked[d] /\ succeeded'[d] = succeeded[d]
        /\ outcome'[d] = outcome[d] /\ seen'[d] = seen[d] /\ target'[d] = target[d]
    /\ blind \subseteq blind' /\ hiccups \subseteq hiccups'
    /\ \A o \in Objects :
        \/ objects'[o] = objects[o]
        \/ objects'[o] = e /\ objects[o] = Nobody /\ Unaware(e) \subseteq blind'
        \/ objects'[o] = Nobody /\ (objects[o] \in {e, Nobody} \/ e \in robbers')

LEMMA OtherDrill ==
    ASSUME DrillInv, NEW e \in Drills, Aside(e),
           kind \in Restores => robbers' \subseteq blind',
           NEW d \in Drills, d # e
    PROVE  DrillOK(d)'
<1>1. /\ ControlOK(d) /\ NamesAreFree(d) /\ MountsOwn(d) /\ TargetStays(d) /\ SeenOK(d)
      /\ KnowsItsOwn(d)
  BY DEF DrillInv, DrillOK
<1>2. /\ kind' = kind /\ preserve' = preserve
      /\ at'[d] = at[d] /\ step'[d] = step[d] /\ left'[d] = left[d]
      /\ tracked'[d] = tracked[d] /\ succeeded'[d] = succeeded[d]
      /\ outcome'[d] = outcome[d] /\ seen'[d] = seen[d] /\ target'[d] = target[d]
      /\ blind \subseteq blind' /\ hiccups \subseteq hiccups'
  BY DEF Aside
<1>3. \A o \in Objects :
        \/ objects'[o] = objects[o]
        \/ objects'[o] = e /\ objects[o] = Nobody /\ Unaware(e) \subseteq blind'
        \/ objects'[o] = Nobody /\ (objects[o] \in {e, Nobody} \/ e \in robbers')
  BY DEF Aside
<1>4. "container" \in Objects /\ "volume" \in Objects
  BY DEF Objects, Containers
<1>5. \A o \in Objects : Owns(d, o)' => Owns(d, o)
  BY <1>3, DrillsAssumption DEF Owns
<1>6. ControlOK(d)'
  BY <1>1, <1>2 DEF ControlOK, Running
<1>7. NamesAreFree(d)'
  <2> SUFFICES ASSUME kind \in Restores, d \notin blind', Running(d)
               PROVE  /\ at[d] = "check" /\ left[d] = <<"volume">> =>
                            objects'["container"] = Nobody
                      /\ at[d] \in {"script", "cleanup"} =>
                            \A o \in {"container", "volume"} : objects'[o] \in {d, Nobody}
    BY <1>2 DEF NamesAreFree, Running
  <2>1. ASSUME at[d] # "check" \/ left[d] # ToLookFor
        PROVE  \A o \in Objects : objects'[o] \in {objects[o], Nobody}
    <3>1. d \in Unaware(e)
      BY <2>1 DEF Unaware
    <3> QED BY <1>3, <3>1
  <2>2. <<"volume">> # ToLookFor
    BY DEF ToLookFor
  <2>3. ASSUME at[d] = "check", left[d] = <<"volume">>
        PROVE  objects'["container"] = Nobody
    BY <1>1, <1>2, <1>4, <2>1, <2>2, <2>3 DEF NamesAreFree
  <2>4. ASSUME at[d] \in {"script", "cleanup"}, NEW o \in {"container", "volume"}
        PROVE  objects'[o] \in {d, Nobody}
    <3>1. objects[o] \in {d, Nobody}
      BY <1>1, <1>2, <2>4 DEF NamesAreFree
    <3>2. objects'[o] \in {objects[o], Nobody}
      BY <1>4, <2>1, <2>4
    <3> QED BY <3>1, <3>2
  <2> QED BY <2>3, <2>4
<1>8. MountsOwn(d)'
  BY <1>1, <1>2 DEF MountsOwn, Through, Ran
<1>9. TargetStays(d)'
  <2> SUFFICES ASSUME kind \in Restores, blind' = {},
                      (at[d] = "script" /\ Ran(d)) \/ (outcome[d] = "evidence" /\ preserve[d])
               PROVE  Owns(d, "container")' /\ Owns(d, "volume")'
    BY <1>2 DEF TargetStays, Ran
  <2>1. Owns(d, "container") /\ Owns(d, "volume")
    BY <1>1, <1>2 DEF TargetStays
  <2>2. e \notin robbers'
    OBVIOUS
  <2> QED BY <1>3, <1>4, <2>1, <2>2, DrillsAssumption DEF Owns
<1>10. SeenOK(d)'
  BY <1>1, <1>2 DEF SeenOK
<1>11. KnowsItsOwn(d)'
  <2>1. CleanupList(tracked[d])' = CleanupList(tracked[d])
    BY <1>2 DEF CleanupList
  <2> QED BY <1>1, <1>2, <1>5, <2>1 DEF KnowsItsOwn
<1> QED BY <1>6, <1>7, <1>8, <1>9, <1>10, <1>11 DEF DrillOK

-----------------------------------------------------------------------------
(* The steps of a drill                                                    *)

LEMMA StepInv ==
    ASSUME DrillInv, NEW e \in Drills, Aside(e), DrillTypes', SharedOK', DrillOK(e)'
    PROVE  DrillInv'
<1>1. kind' = kind
  BY DEF Aside
<1>2. kind \in Restores => robbers' \subseteq blind'
  BY <1>1 DEF SharedOK
<1>3. \A d \in Drills : DrillOK(d)'
  BY <1>2, OtherDrill
<1> QED BY <1>3 DEF DrillInv

\* The control variables keep their types, and those of the others their values.
Control(e) ==
    /\ at' \in [Drills -> {"check", "script", "cleanup", "end"}]
    /\ step' \in [Drills -> Nat]
    /\ left' \in [Drills -> Seq(Objects)]
    /\ succeeded' \in [Drills -> BOOLEAN]
    /\ outcome' \in [Drills -> {"running", "refused", "failed", "evidence", "killed"}]
    /\ \A d \in Drills \ {e} :
        /\ at'[d] = at[d] /\ step'[d] = step[d] /\ left'[d] = left[d]
        /\ succeeded'[d] = succeeded[d] /\ outcome'[d] = outcome[d]

\* The drill goes on with its script.
WentOn(e) ==
    /\ step[e] # Len(Script[kind]) /\ step'[e] = step[e] + 1
    /\ at'[e] = "script" /\ outcome'[e] = "running" /\ succeeded'[e] = FALSE

\* The drill has left its script, for the cleanup or, with what it preserves, for good.
HasLeft(e, made, well) ==
    /\ step'[e] = step[e] /\ succeeded'[e] = well
    /\ \/ /\ preserve[e] /\ (well \/ kind = "soak")
          /\ at'[e] = "end" /\ outcome'[e] = IF well THEN "evidence" ELSE "failed"
       \/ /\ ~(preserve[e] /\ (well \/ kind = "soak"))
          /\ at'[e] = "cleanup" /\ outcome'[e] = "running"
          /\ left'[e] = CleanupList(made)

LEMMA Leaving ==
    ASSUME DrillTypes, NEW e \in Drills, InScript(e), NEW made \in Seq(Objects),
           NEW well \in BOOLEAN, Leave(e, made, well)
    PROVE  Control(e) /\ HasLeft(e, made, well)
<1>1. CleanupList(made) \in Seq(Objects)
  BY CleanupSet
<1>2. CASE preserve[e] /\ (well \/ kind = "soak")
  BY <1>2 DEF Leave, Ends, DrillTypes, Control, HasLeft
<1>3. CASE ~(preserve[e] /\ (well \/ kind = "soak"))
  BY <1>1, <1>3 DEF Leave, DrillTypes, Control, HasLeft, InScript, Running
<1> QED BY <1>2, <1>3

LEMMA Proceeding ==
    ASSUME DrillTypes, NEW e \in Drills, ControlOK(e), InScript(e), NEW made \in Seq(Objects),
           Proceed(e, made)
    PROVE  /\ Control(e)
           /\ WentOn(e) \/ (step[e] = Len(Script[kind]) /\ HasLeft(e, made, TRUE))
<1>1. CASE step[e] = Len(Script[kind])
  <2>1. Leave(e, made, TRUE)
    BY <1>1 DEF Proceed
  <2> QED BY <1>1, <2>1, Leaving
<1>2. CASE step[e] # Len(Script[kind])
  <2>1. /\ step' = [step EXCEPT ![e] = @ + 1]
        /\ at' = at /\ left' = left /\ succeeded' = succeeded /\ outcome' = outcome
    BY <1>2 DEF Proceed
  <2>2. succeeded[e] \in BOOLEAN /\ ~succeeded[e] /\ at[e] = "script" /\ outcome[e] = "running"
    BY DEF DrillTypes, ControlOK, InScript, Running
  <2>3. Control(e)
    BY <2>1 DEF DrillTypes, Control
  <2>4. succeeded'[e] = FALSE
    BY <2>1, <2>2
  <2>5. step'[e] = step[e] + 1
    BY <2>1 DEF DrillTypes
  <2> QED BY <1>2, <2>1, <2>2, <2>3, <2>4, <2>5 DEF WentOn
<1> QED BY <1>1, <1>2

\* Both keep what is known of the position.
LEMMA MovedControl ==
    ASSUME DrillTypes, NEW e \in Drills, ControlOK(e), kind' = kind, preserve' = preserve,
           NEW made \in Seq(Objects), NEW well \in BOOLEAN,
           WentOn(e) \/ (HasLeft(e, made, well) /\ (well => step[e] = Len(Script[kind])))
    PROVE  ControlOK(e)'
<1>1. Len(Script[kind]) \in Nat \ {0} /\ step[e] \in 1 .. Len(Script[kind])
  BY WholeScript DEF DrillTypes, ControlOK
<1>2. CASE WentOn(e)
  BY <1>1, <1>2 DEF WentOn, ControlOK, Running
<1>3. CASE HasLeft(e, made, well) /\ (well => step[e] = Len(Script[kind]))
  <2>1. /\ CleanupList(made) # <<>>
        /\ kind \in Restores => CleanupList(made) = <<"container", "volume">>
    BY CleanupSet
  <2>2. kind \in Restores \/ kind = "soak"
    BY DEF DrillTypes, Kinds, Restores
  <2> QED BY <1>1, <1>3, <2>1, <2>2 DEF HasLeft, ControlOK, Running
<1> QED BY <1>2, <1>3

\* A command that is no check adds nothing to what was seen.
LEMMA MovedSeen ==
    ASSUME DrillTypes, NEW e \in Drills, ControlOK(e), SeenOK(e), kind' = kind, seen' = seen,
           NEW made, NEW well,
           \/ WentOn(e) /\ Command(e).obj \notin DOMAIN Findings
           \/ HasLeft(e, made, well)
    PROVE  SeenOK(e)'
<1>1. Checks(kind, step'[e]) = Checks(kind, step[e])
  BY NextCheck DEF WentOn, HasLeft, Command, DrillTypes, ControlOK
<1> QED BY <1>1 DEF SeenOK

\* What a drill that leaves its script, or goes on, has to know of its objects.
LEMMA MovedOwn ==
    ASSUME NEW e \in Drills, kind' = kind, preserve' = preserve,
           NEW made, NEW well \in BOOLEAN,
           \/ /\ WentOn(e)
              /\ \A o \in Objects : Owns(e, o)' => o \in ToSet(CleanupList(tracked'[e]))
           \/ /\ HasLeft(e, made, well)
              /\ e \notin hiccups' =>
                    \A o \in Objects : Owns(e, o)' => o \in ToSet(CleanupList(made))
    PROVE  KnowsItsOwn(e)'
<1>1. CASE /\ WentOn(e)
           /\ \A o \in Objects : Owns(e, o)' => o \in ToSet(CleanupList(tracked'[e]))
  <2>1. CleanupList(tracked[e])' = CleanupList(tracked'[e])
    BY DEF CleanupList
  <2> QED BY <1>1, <2>1 DEF WentOn, KnowsItsOwn
<1>2. CASE /\ HasLeft(e, made, well)
           /\ e \notin hiccups' =>
                \A o \in Objects : Owns(e, o)' => o \in ToSet(CleanupList(made))
  BY <1>2 DEF HasLeft, KnowsItsOwn
<1> QED BY <1>1, <1>2

\* What the invariant says of the drill that takes a step.
LEMMA OfDrill ==
    ASSUME DrillInv, NEW e \in Drills
    PROVE  /\ DrillTypes /\ SharedOK
           /\ ControlOK(e) /\ NamesAreFree(e) /\ MountsOwn(e) /\ TargetStays(e) /\ SeenOK(e)
           /\ KnowsItsOwn(e)
           /\ kind \in Kinds /\ step[e] \in 1 .. Len(Script[kind])
           /\ "container" \in Objects /\ "volume" \in Objects
           /\ tracked[e] \in Seq(Objects)
  BY DEF DrillInv, DrillOK, ControlOK, DrillTypes, Objects, Containers

\* Only docker run starts the container.
LEMMA MovedRan ==
    ASSUME DrillTypes, NEW e \in Drills, ControlOK(e), kind' = kind, NEW made, NEW well,
           (WentOn(e) /\ Command(e).do # "run") \/ HasLeft(e, made, well)
    PROVE  Ran(e)' => Ran(e)
<1> SUFFICES ASSUME NEW i \in 1 .. step'[e] - 1, Script[kind][i].do = "run"
             PROVE  Ran(e)
  BY DEF Ran
<1>1. Len(Script[kind]) \in Nat /\ step[e] \in 1 .. Len(Script[kind])
  BY WholeScript DEF DrillTypes, ControlOK
<1>2. CASE WentOn(e) /\ Command(e).do # "run"
  <2>1. i # step[e]
    BY <1>2 DEF Command
  <2>2. i \in 1 .. step[e] - 1
    BY <1>1, <1>2, <2>1 DEF WentOn
  <2> QED BY <2>2 DEF Ran
<1>3. CASE HasLeft(e, made, well)
  BY <1>3 DEF HasLeft, Ran
<1> QED BY <1>2, <1>3

LEMMA MakeObjectInv ==
    ASSUME DrillInv, NEW e \in Drills, MakeObject(e)
    PROVE  DrillInv'
<1> USE OfDrill
<1>1. PICK o : o = Command(e).obj
  OBVIOUS
<1>2. /\ InScript(e) /\ Command(e).do = "make"
      /\ ~Exists(o) \/ o = "volume"
      /\ objects' = IF Exists(o) THEN objects ELSE [objects EXCEPT ![o] = e]
      /\ blind' = IF Exists(o) THEN blind ELSE blind \cup Unaware(e)
      /\ Proceed(e, tracked[e])
      /\ kind' = kind /\ preserve' = preserve /\ tracked' = tracked /\ seen' = seen
      /\ target' = target /\ robbers' = robbers /\ hiccups' = hiccups
  BY <1>1 DEF MakeObject, Settings
<1>3. /\ o \in {"volume", "network"} /\ (kind \in Restores => o = "volume")
      /\ Command(e).obj \notin DOMAIN Findings
      /\ step[e] # Len(Script[kind])
  BY <1>1, <1>2, Commands DEF Command
<1>4. Control(e) /\ WentOn(e)
  BY <1>2, <1>3, Proceeding
<1>5. o \in Objects /\ objects \in [Objects -> Drills \cup {Nobody}]
  BY <1>3 DEF Objects, DrillTypes
<1>6. /\ objects' \in [Objects -> Drills \cup {Nobody}]
      /\ \A x \in Objects : x # o => objects'[x] = objects[x]
      /\ objects'[o] = IF Exists(o) THEN objects[o] ELSE e
  BY <1>2, <1>5
<1>7. Aside(e)
  BY <1>2, <1>4, <1>5, <1>6 DEF Aside, Control, Exists
<1>8. DrillTypes'
  BY <1>2, <1>4, <1>6 DEF DrillTypes, Control
<1>9. SharedOK'
  BY <1>2, <1>3, <1>6 DEF SharedOK
<1>10. DrillOK(e)'
  <2>1. ControlOK(e)'
    BY <1>2, <1>4, MovedControl
  <2>2. \A x \in Objects : objects[x] \in {e, Nobody} => objects'[x] \in {e, Nobody}
    BY <1>6
  <2>3. e \notin blind' => e \notin blind
    BY <1>2
  <2>4. NamesAreFree(e)'
    BY <1>2, <1>4, <2>2, <2>3 DEF NamesAreFree, WentOn, InScript, Running
  <2>5. Ran(e)' => Ran(e)
    BY <1>2, <1>4, MovedRan
  <2>6. MountsOwn(e)'
    BY <1>2, <1>4, <2>3, <2>5 DEF MountsOwn, Through, WentOn, InScript
  <2>7. TargetStays(e)'
    <3> SUFFICES ASSUME kind \in Restores, blind' = {}, Ran(e)
                 PROVE  Owns(e, "container")' /\ Owns(e, "volume")'
      BY <1>2, <1>4, <2>5 DEF TargetStays, WentOn
    <3>1. blind = {}
      BY <1>2
    <3>2. Owns(e, "container") /\ Owns(e, "volume")
      BY <1>2, <3>1 DEF TargetStays, InScript
    <3> QED BY <1>6, <3>2 DEF Owns
  <2>8. SeenOK(e)'
    BY <1>2, <1>3, <1>4, MovedSeen
  <2>9. KnowsItsOwn(e)'
    <3>1. o \in ToSet(CleanupList(tracked[e]))
      BY <1>3, CleanupSet
    <3>2. \A x \in Objects : Owns(e, x)' => x \in ToSet(CleanupList(tracked'[e]))
      BY <1>2, <1>6, <3>1 DEF KnowsItsOwn, Owns, InScript
    <3> QED BY <1>2, <1>4, <3>2, MovedOwn
  <2> QED BY <2>1, <2>4, <2>6, <2>7, <2>8, <2>9 DEF DrillOK
<1> QED BY <1>7, <1>8, <1>9, <1>10, StepInv

\* What docker run makes of the objects.
LEMMA StartedObjects ==
    ASSUME DrillInv, NEW e \in Drills, NEW o \in Objects, ~Exists(o),
           objects' = Started(e, o)
    PROVE  /\ objects' \in [Objects -> Drills \cup {Nobody}]
           /\ objects'[o] = e
           /\ \A x \in Objects : objects'[x] = objects[x] \/ (objects'[x] = e /\ objects[x] = Nobody)
           /\ \A x \in Objects : x # o /\ x # "volume" => objects'[x] = objects[x]
           /\ o = "container" /\ objects["volume"] \in {e, Nobody} => objects'["volume"] = e
<1>1. objects \in [Objects -> Drills \cup {Nobody}]
  BY DEF DrillInv, DrillTypes
<1>2. "volume" \in Objects
  BY DEF Objects
<1> QED BY <1>1, <1>2 DEF Started, Exists, Users

\* What both outcomes of docker run have in common.
LEMMA RunFacts ==
    ASSUME DrillInv, NEW e \in Drills, InScript(e), Command(e).do = "run",
           NEW o, o = Command(e).obj, ~Exists(o),
           objects' = Started(e, o), blind' = blind \cup Unaware(e),
           kind' = kind, preserve' = preserve, robbers' = robbers, seen' = seen
    PROVE  /\ o \in Containers /\ o \in Objects
           /\ kind \in Restores => o = "container"
           /\ SharedOK'
           /\ Command(e).obj \notin DOMAIN Findings
           /\ step[e] # Len(Script[kind])
           /\ objects' \in [Objects -> Drills \cup {Nobody}]
           /\ kind \in Restores /\ e \notin blind' =>
                objects'["container"] = e /\ objects'["volume"] = e
           /\ \A x \in Objects : Owns(e, x)' => Owns(e, x) \/ x = o \/ x = "volume"
           /\ \A x \in Objects :
                \/ objects'[x] = objects[x]
                \/ objects'[x] = e /\ objects[x] = Nobody /\ Unaware(e) \subseteq blind'
<1> USE OfDrill
<1>1. /\ o \in Containers /\ (kind \in Restores => o = "container")
      /\ Command(e).obj \notin DOMAIN Findings
      /\ step[e] # Len(Script[kind])
  BY Commands DEF Command
<1>2. o \in Objects
  BY <1>1 DEF Objects
<1>3. /\ objects' \in [Objects -> Drills \cup {Nobody}]
      /\ objects'[o] = e
      /\ \A x \in Objects : objects'[x] = objects[x] \/ (objects'[x] = e /\ objects[x] = Nobody)
      /\ \A x \in Objects : x # o /\ x # "volume" => objects'[x] = objects[x]
      /\ o = "container" /\ objects["volume"] \in {e, Nobody} => objects'["volume"] = e
  BY <1>2, StartedObjects
<1>4. SharedOK'
  BY <1>1, <1>3 DEF SharedOK
<1>5. ASSUME kind \in Restores, e \notin blind'
      PROVE  objects'["container"] = e /\ objects'["volume"] = e
  <2>1. objects["volume"] \in {e, Nobody}
    BY <1>5 DEF NamesAreFree, InScript, Running
  <2> QED BY <1>1, <1>3, <1>5, <2>1
<1> QED BY <1>1, <1>2, <1>3, <1>4, <1>5 DEF Owns

LEMMA RunContainerInv ==
    ASSUME DrillInv, NEW e \in Drills, RunContainer(e)
    PROVE  DrillInv'
<1> USE OfDrill
<1>1. PICK o, made : o = Command(e).obj /\ made = Append(tracked[e], o)
  OBVIOUS
<1>2. /\ InScript(e) /\ Command(e).do = "run" /\ ~Exists(o)
      /\ objects' = Started(e, o)
      /\ target' = IF o \in Users("volume") THEN [target EXCEPT ![e] = objects'["volume"]]
                   ELSE target
      /\ tracked' = IF kind = "soak" THEN [tracked EXCEPT ![e] = made] ELSE tracked
      /\ Proceed(e, made)
      /\ blind' = blind \cup Unaware(e)
      /\ kind' = kind /\ preserve' = preserve /\ seen' = seen /\ robbers' = robbers
      /\ hiccups' = hiccups
  BY <1>1 DEF RunContainer, Settings
<1>3. /\ o \in Containers /\ o \in Objects
      /\ kind \in Restores => o = "container"
      /\ SharedOK'
      /\ Command(e).obj \notin DOMAIN Findings
      /\ step[e] # Len(Script[kind])
      /\ objects' \in [Objects -> Drills \cup {Nobody}]
      /\ kind \in Restores /\ e \notin blind' =>
           objects'["container"] = e /\ objects'["volume"] = e
      /\ \A x \in Objects : Owns(e, x)' => Owns(e, x) \/ x = o \/ x = "volume"
      /\ \A x \in Objects :
           \/ objects'[x] = objects[x]
           \/ objects'[x] = e /\ objects[x] = Nobody /\ Unaware(e) \subseteq blind'
  BY <1>1, <1>2, RunFacts
<1>4. /\ made \in Seq(Objects)
      /\ ToSet(made) = ToSet(tracked[e]) \cup {o}
  BY <1>1, <1>3, ListSteps
<1>5. Control(e) /\ WentOn(e)
  BY <1>2, <1>3, <1>4, Proceeding
<1>6. /\ target' \in [Drills -> Drills \cup {Nobody}]
      /\ tracked' \in [Drills -> Seq(Objects)]
      /\ \A d \in Drills \ {e} : target'[d] = target[d] /\ tracked'[d] = tracked[d]
      /\ kind = "soak" => tracked'[e] = made
      /\ kind \in Restores => target'[e] = objects'["volume"]
  BY <1>2, <1>3, <1>4 DEF DrillTypes, Users
<1>7. Aside(e)
  BY <1>2, <1>3, <1>5, <1>6 DEF Aside, Control
<1>8. DrillTypes'
  BY <1>2, <1>3, <1>5, <1>6 DEF DrillTypes, Control
<1>9. DrillOK(e)'
  <2>1. ControlOK(e)'
    BY <1>2, <1>4, <1>5, MovedControl
  <2>2. NamesAreFree(e)'
    BY <1>2, <1>3, <1>5 DEF NamesAreFree, WentOn
  <2>3. MountsOwn(e)'
    BY <1>2, <1>3, <1>6 DEF MountsOwn
  <2>4. TargetStays(e)'
    BY <1>2, <1>3 DEF TargetStays, Owns
  <2>5. SeenOK(e)'
    BY <1>2, <1>3, <1>5, MovedSeen
  <2>6. KnowsItsOwn(e)'
    <3>1. CASE kind \in Restores
      <4>1. ToSet(CleanupList(tracked[e])) = {"container", "volume"}
        BY <3>1, CleanupSet
      <4>2. tracked'[e] \in Seq(Objects)
        BY <1>6
      <4>3. ToSet(CleanupList(tracked'[e])) = {"container", "volume"}
        BY <3>1, <4>2, CleanupSet
      <4>4. \A x \in Objects : Owns(e, x)' => x \in ToSet(CleanupList(tracked'[e]))
        BY <1>2, <1>3, <3>1, <4>1, <4>3 DEF KnowsItsOwn, InScript
      <4> QED BY <1>2, <1>5, <4>4, MovedOwn
    <3>2. CASE kind \notin Restores
      <4>1. kind = "soak"
        BY <3>2 DEF Kinds, Restores
      <4>2. ASSUME NEW x \in Objects, Owns(e, x)
            PROVE  x \in ToSet(CleanupList(made))
        <5>1. x \in ToSet(CleanupList(tracked[e]))
          BY <1>2, <4>2 DEF KnowsItsOwn, InScript
        <5>2. x \in ToSet(tracked[e]) \/ x \in {"network", "volume"}
          BY <3>2, <5>1, CleanupSet
        <5> QED BY <1>4, <3>2, <5>2, CleanupSet
      <4>3. o \in ToSet(CleanupList(made)) /\ "volume" \in ToSet(CleanupList(made))
        BY <1>4, <3>2, CleanupSet
      <4>4. \A x \in Objects : Owns(e, x)' => x \in ToSet(CleanupList(tracked'[e]))
        BY <1>3, <1>6, <4>1, <4>2, <4>3
      <4> QED BY <1>2, <1>5, <4>4, MovedOwn
    <3> QED BY <3>1, <3>2
  <2> QED BY <2>1, <2>2, <2>3, <2>4, <2>5, <2>6 DEF DrillOK
<1> QED BY <1>3, <1>7, <1>8, <1>9, StepInv

LEMMA RunHalfwayInv ==
    ASSUME DrillInv, NEW e \in Drills, RunHalfway(e)
    PROVE  DrillInv'
<1> USE OfDrill
<1>1. PICK o : o = Command(e).obj
  OBVIOUS
<1>2. /\ InScript(e) /\ Command(e).do = "run" /\ ~Exists(o)
      /\ objects' = Started(e, o)
      /\ Leave(e, tracked[e], FALSE)
      /\ blind' = blind \cup Unaware(e)
      /\ hiccups' = IF kind = "soak" THEN hiccups \cup {e} ELSE hiccups
      /\ kind' = kind /\ preserve' = preserve /\ tracked' = tracked /\ seen' = seen
      /\ target' = target /\ robbers' = robbers
  BY <1>1 DEF RunHalfway, Settings
<1>3. /\ o \in Containers /\ o \in Objects
      /\ kind \in Restores => o = "container"
      /\ SharedOK'
      /\ objects' \in [Objects -> Drills \cup {Nobody}]
      /\ kind \in Restores /\ e \notin blind' =>
           objects'["container"] = e /\ objects'["volume"] = e
      /\ \A x \in Objects : Owns(e, x)' => Owns(e, x) \/ x = o \/ x = "volume"
      /\ \A x \in Objects :
           \/ objects'[x] = objects[x]
           \/ objects'[x] = e /\ objects[x] = Nobody /\ Unaware(e) \subseteq blind'
  BY <1>1, <1>2, RunFacts
<1>4. Control(e) /\ HasLeft(e, tracked[e], FALSE)
  BY <1>2, Leaving
<1>5. Aside(e)
  BY <1>2, <1>3, <1>4 DEF Aside, Control
<1>6. DrillTypes'
  BY <1>2, <1>3, <1>4 DEF DrillTypes, Control
<1>7. DrillOK(e)'
  <2>1. ControlOK(e)'
    BY <1>2, <1>4, MovedControl
  <2>2. NamesAreFree(e)'
    BY <1>2, <1>3, <1>4 DEF NamesAreFree, HasLeft
  <2>3. MountsOwn(e)' /\ TargetStays(e)'
    BY <1>4 DEF MountsOwn, TargetStays, Through, HasLeft
  <2>4. SeenOK(e)'
    BY <1>2, <1>4, MovedSeen
  <2>5. KnowsItsOwn(e)'
    <3>1. ASSUME e \notin hiccups', NEW x \in Objects, Owns(e, x)'
          PROVE  x \in ToSet(CleanupList(tracked[e]))
      <4>1. kind \in Restores
        BY <1>2, <3>1 DEF Kinds, Restores
      <4>2. ToSet(CleanupList(tracked[e])) = {"container", "volume"}
        BY <4>1, CleanupSet
      <4> QED BY <1>2, <1>3, <3>1, <4>1, <4>2 DEF KnowsItsOwn, InScript
    <3> QED BY <1>2, <1>4, <3>1, MovedOwn
  <2> QED BY <2>1, <2>2, <2>3, <2>4, <2>5 DEF DrillOK
<1> QED BY <1>3, <1>5, <1>6, <1>7, StepInv

LEMMA RemoveVictimInv ==
    ASSUME DrillInv, NEW e \in Drills, RemoveVictim(e)
    PROVE  DrillInv'
<1> USE OfDrill
<1>1. PICK o, rest : o = Command(e).obj /\ rest = RemoveFirst(tracked[e], o)
  OBVIOUS
<1>2. /\ InScript(e) /\ Command(e).do = "remove" /\ Exists(o)
      /\ objects' = [objects EXCEPT ![o] = Nobody]
      /\ robbers' = IF objects[o] \in {e, Nobody} THEN robbers ELSE robbers \cup {e}
      /\ tracked' = [tracked EXCEPT ![e] = rest]
      /\ Proceed(e, tracked'[e])
      /\ kind' = kind /\ preserve' = preserve /\ seen' = seen /\ target' = target
      /\ blind' = blind /\ hiccups' = hiccups
  BY <1>1 DEF RemoveVictim, Removed, Settings, DrillTypes
<1>3. /\ kind = "soak" /\ o = "worker-1"
      /\ Command(e).obj \notin DOMAIN Findings
      /\ step[e] # Len(Script[kind])
  BY <1>1, <1>2, Commands DEF Command
<1>4. kind \notin Restores /\ o \in Objects /\ o \notin {"network", "volume"}
  BY <1>3 DEF Restores, Objects, Containers
<1>5. /\ rest \in Seq(Objects)
      /\ \A x \in ToSet(tracked[e]) : x # o => x \in ToSet(rest)
  BY <1>1, RemoveObject
<1>6. /\ tracked' \in [Drills -> Seq(Objects)] /\ tracked'[e] = rest
      /\ \A d \in Drills \ {e} : tracked'[d] = tracked[d]
  BY <1>2, <1>5 DEF DrillTypes
<1>7. Control(e) /\ WentOn(e)
  BY <1>2, <1>3, <1>5, <1>6, Proceeding
<1>8. /\ objects' \in [Objects -> Drills \cup {Nobody}]
      /\ objects'[o] = Nobody
      /\ \A x \in Objects : x # o => objects'[x] = objects[x]
  BY <1>2, <1>4 DEF DrillTypes
<1>9. Aside(e)
  BY <1>2, <1>4, <1>6, <1>7, <1>8 DEF Aside, Control
<1>10. DrillTypes'
  BY <1>2, <1>6, <1>7, <1>8 DEF DrillTypes, Control
<1>11. SharedOK'
  BY <1>2, <1>4 DEF SharedOK
<1>12. DrillOK(e)'
  <2>1. ControlOK(e)'
    BY <1>2, <1>5, <1>7, MovedControl
  <2>2. NamesAreFree(e)' /\ MountsOwn(e)' /\ TargetStays(e)'
    BY <1>2, <1>4 DEF NamesAreFree, MountsOwn, TargetStays
  <2>3. SeenOK(e)'
    BY <1>2, <1>3, <1>7, MovedSeen
  <2>4. KnowsItsOwn(e)'
    <3>1. ASSUME NEW x \in Objects, Owns(e, x)'
          PROVE  x \in ToSet(CleanupList(rest))
      <4>1. x # o /\ Owns(e, x)
        BY <1>8, <3>1, DrillsAssumption DEF Owns
      <4>2. x \in ToSet(CleanupList(tracked[e]))
        BY <1>2, <4>1 DEF KnowsItsOwn, InScript
      <4>3. x \in ToSet(tracked[e]) \cup {"network", "volume"}
        BY <1>4, <4>2, CleanupSet
      <4>4. x \in ToSet(rest) \cup {"network", "volume"}
        BY <1>5, <4>1, <4>3
      <4> QED BY <1>4, <1>5, <4>4, CleanupSet
    <3> QED BY <1>2, <1>6, <1>7, <3>1, MovedOwn
  <2> QED BY <2>1, <2>2, <2>3, <2>4 DEF DrillOK
<1> QED BY <1>9, <1>10, <1>11, <1>12, StepInv

\* A step of the script that changes no object.
LEMMA QuietMove ==
    ASSUME DrillInv, NEW e \in Drills, InScript(e), Control(e), NEW well \in BOOLEAN,
           \/ WentOn(e) /\ Command(e).do # "run"
           \/ HasLeft(e, tracked[e], well) /\ (well => step[e] = Len(Script[kind])),
           SeenOK(e)', seen' = [d \in Drills |-> seen'[d]],
           \A d \in Drills \ {e} : seen'[d] = seen[d],
           kind' = kind, preserve' = preserve, objects' = objects, tracked' = tracked,
           target' = target, blind' = blind, robbers' = robbers, hiccups' = hiccups
    PROVE  DrillInv'
<1> USE OfDrill
<1>1. Aside(e)
  BY DEF Aside, Control
<1>2. DrillTypes' /\ SharedOK'
  BY DEF DrillTypes, SharedOK, Control
<1>3. ControlOK(e)'
  BY MovedControl
<1>4. Ran(e)' => Ran(e)
  BY MovedRan
<1>5. NamesAreFree(e)'
  BY DEF NamesAreFree, WentOn, HasLeft, InScript, Running
<1>6. ASSUME kind \in Restores, Through(e)'
      PROVE  Through(e)
  <2>1. CASE WentOn(e)
    BY <1>4, <1>6, <2>1 DEF Through, WentOn, InScript
  <2>2. CASE HasLeft(e, tracked[e], well) /\ (well => step[e] = Len(Script[kind]))
    <3>1. well
      BY <1>6, <2>2 DEF Through, HasLeft
    <3>2. Ran(e)
      BY <1>6, <2>2, <3>1, WholeScript DEF Ran
    <3> QED BY <3>2 DEF Through, InScript
  <2> QED BY <2>1, <2>2
<1>7. MountsOwn(e)'
  BY <1>6 DEF MountsOwn
<1>8. TargetStays(e)'
  <2> SUFFICES ASSUME kind \in Restores, blind = {},
                      \/ at'[e] = "script" /\ Ran(e)'
                      \/ outcome'[e] = "evidence" /\ preserve[e]
               PROVE  Owns(e, "container") /\ Owns(e, "volume")
    BY DEF TargetStays, Owns
  <2>1. Ran(e)
    <3>1. CASE at'[e] = "script" /\ Ran(e)'
      BY <1>4, <3>1
    <3>2. CASE outcome'[e] = "evidence"
      <4>1. well /\ step[e] = Len(Script[kind])
        BY <3>2 DEF WentOn, HasLeft
      <4> QED BY <4>1, WholeScript DEF Ran
    <3> QED BY <3>1, <3>2
  <2> QED BY <2>1 DEF TargetStays, InScript
<1>9. KnowsItsOwn(e)'
  <2>1. \A x \in Objects : Owns(e, x)' => x \in ToSet(CleanupList(tracked[e]))
    BY DEF KnowsItsOwn, InScript, Owns
  <2> QED BY <2>1, MovedOwn
<1>10. DrillOK(e)'
  BY <1>3, <1>5, <1>7, <1>8, <1>9 DEF DrillOK
<1> QED BY <1>1, <1>2, <1>10, StepInv

LEMMA CommandFailsInv ==
    ASSUME DrillInv, NEW e \in Drills, CommandFails(e)
    PROVE  DrillInv'
<1> USE OfDrill
<1>1. /\ InScript(e) /\ Leave(e, tracked[e], FALSE)
      /\ kind' = kind /\ preserve' = preserve /\ objects' = objects /\ tracked' = tracked
      /\ seen' = seen /\ target' = target /\ blind' = blind /\ robbers' = robbers
      /\ hiccups' = hiccups
  BY DEF CommandFails, Settings, History
<1>2. Control(e) /\ HasLeft(e, tracked[e], FALSE)
  BY <1>1, Leaving
<1>3. SeenOK(e)'
  BY <1>1, <1>2, MovedSeen
<1>4. seen' = [d \in Drills |-> seen'[d]]
  BY <1>1 DEF DrillTypes
<1> QED BY <1>1, <1>2, <1>3, <1>4, QuietMove

LEMMA ProbePassesInv ==
    ASSUME DrillInv, NEW e \in Drills, ProbePasses(e)
    PROVE  DrillInv'
<1> USE OfDrill
<1> DEFINE check == Command(e).obj
<1>2. /\ InScript(e) /\ Command(e).do = "probe"
      /\ Proceed(e, tracked[e])
      /\ kind' = kind /\ preserve' = preserve /\ objects' = objects /\ tracked' = tracked
      /\ target' = target /\ blind' = blind /\ robbers' = robbers /\ hiccups' = hiccups
  BY DEF ProbePasses, Settings, History
<1>3. /\ Control(e)
      /\ WentOn(e) \/ (step[e] = Len(Script[kind]) /\ HasLeft(e, tracked[e], TRUE))
  BY <1>2, Proceeding
<1>4. CASE check \notin DOMAIN Findings
  <2>1. seen' = seen
    BY <1>4 DEF ProbePasses
  <2>2. SeenOK(e)'
    BY <1>2, <1>3, <1>4, <2>1, MovedSeen
  <2>3. seen' = [d \in Drills |-> seen'[d]]
    BY <2>1 DEF DrillTypes
  <2> QED BY <1>2, <1>3, <2>1, <2>2, <2>3, QuietMove
<1>5. CASE check \in DOMAIN Findings
  <2>1. PICK f \in Findings[check] :
          /\ Accepts(check, f)
          /\ seen' = [seen EXCEPT ![e] = [c \in DOMAIN seen[e] \cup {check} |->
                                            IF c = check THEN f ELSE seen[e][c]]]
    BY <1>5 DEF ProbePasses
  <2>2. WentOn(e)
    BY <1>2, <1>3, <1>5, Commands DEF Command
  <2>3. seen = [d \in Drills |-> seen[d]]
    BY DEF DrillTypes
  <2>4. /\ seen' = [d \in Drills |-> seen'[d]]
        /\ \A d \in Drills \ {e} : seen'[d] = seen[d]
        /\ seen'[e] = [c \in DOMAIN seen[e] \cup {check} |-> IF c = check THEN f ELSE seen[e][c]]
    BY <2>1, <2>3
  <2>5. SeenOK(e)'
    <3>1. DOMAIN seen[e] = Checks(kind, step[e])
      BY DEF SeenOK
    <3>2. Checks(kind, step'[e]) = Checks(kind, step[e]) \cup {check}
      BY <1>5, <2>2, NextCheck DEF WentOn, Command
    <3> HIDE DEF check
    <3>3. DOMAIN seen'[e] = Checks(kind, step'[e])
      BY <2>4, <3>1, <3>2
    <3>4. seen'[e] = [c \in DOMAIN seen'[e] |-> seen'[e][c]]
      BY <2>4
    <3>5. ASSUME NEW c \in DOMAIN seen'[e]
          PROVE  seen'[e][c] \in Findings[c] /\ Accepts(c, seen'[e][c])
      <4>1. CASE c = check
        BY <2>1, <2>4, <4>1
      <4>2. CASE c # check
        BY <2>4, <4>2 DEF SeenOK
      <4> QED BY <4>1, <4>2
    <3> QED BY <1>2, <3>3, <3>4, <3>5 DEF SeenOK
  <2> QED BY <1>2, <1>3, <2>2, <2>4, <2>5, QuietMove
<1> QED BY <1>4, <1>5

\* A drill ends: what remains to be shown is what it leaves behind.
LEMMA EndsInv ==
    ASSUME DrillInv, NEW e \in Drills, Running(e),
           NEW how \in {"refused", "failed", "evidence", "killed"}, Ends(e, how),
           how = "evidence" => succeeded[e] /\ ~preserve[e],
           left' \in [Drills -> Seq(Objects)],
           \A d \in Drills \ {e} : left'[d] = left[d],
           step' = step, succeeded' = succeeded, kind' = kind, preserve' = preserve,
           objects' \in [Objects -> Drills \cup {Nobody}], tracked' = tracked, seen' = seen,
           target' = target, blind' = blind, hiccups \subseteq hiccups',
           \A o \in Objects :
              \/ objects'[o] = objects[o]
              \/ objects'[o] = Nobody /\ (objects[o] \in {e, Nobody} \/ e \in robbers'),
           kind \in Restores => robbers' \subseteq blind,
           how = "killed"
              \/ (how = "failed" /\ kind = "soak" /\ preserve[e])
              \/ (e \notin hiccups' => \A o \in Objects : ~Owns(e, o)')
    PROVE  DrillInv'
<1> USE OfDrill
<1>1. /\ at' \in [Drills -> {"check", "script", "cleanup", "end"}] /\ at'[e] = "end"
      /\ outcome' \in [Drills -> {"running", "refused", "failed", "evidence", "killed"}]
      /\ outcome'[e] = how
      /\ \A d \in Drills \ {e} : at'[d] = at[d] /\ outcome'[d] = outcome[d]
  BY DEF Ends, DrillTypes
<1>2. Aside(e)
  BY <1>1 DEF Aside
<1>3. DrillTypes'
  BY <1>1 DEF DrillTypes
<1>4. SharedOK'
  BY DEF SharedOK
<1>5. DrillOK(e)'
  <2>1. ControlOK(e)'
    BY <1>1 DEF ControlOK, Running
  <2>2. NamesAreFree(e)' /\ TargetStays(e)'
    BY <1>1 DEF NamesAreFree, TargetStays, Running
  <2>3. MountsOwn(e)'
    BY <1>1 DEF MountsOwn, Through
  <2>4. SeenOK(e)'
    BY DEF SeenOK
  <2>5. KnowsItsOwn(e)'
    BY <1>1 DEF KnowsItsOwn
  <2> QED BY <2>1, <2>2, <2>3, <2>4, <2>5 DEF DrillOK
<1> QED BY <1>2, <1>3, <1>4, <1>5, StepInv

LEMMA RefuseInv ==
    ASSUME DrillInv, NEW e \in Drills, Refuse(e)
    PROVE  DrillInv'
<1> USE OfDrill
<1>1. /\ Running(e) /\ at[e] = "check" /\ Ends(e, "refused")
      /\ UNCHANGED <<kind, preserve, objects, step, left, tracked, succeeded, seen, target, blind,
                     robbers, hiccups>>
  BY DEF Refuse, Settings, History
<1>2. \A o \in Objects : ~Owns(e, o)'
  BY <1>1 DEF KnowsItsOwn, Owns
<1> QED BY <1>1, <1>2, EndsInv DEF DrillTypes, SharedOK

LEMMA KilledInv ==
    ASSUME DrillInv, NEW e \in Drills, Killed(e)
    PROVE  DrillInv'
<1> USE OfDrill
<1>1. /\ Running(e) /\ Ends(e, "killed")
      /\ UNCHANGED <<kind, preserve, objects, step, left, tracked, succeeded, seen, target, blind,
                     robbers, hiccups>>
  BY DEF Killed, Settings, History
<1> QED BY <1>1, EndsInv DEF DrillTypes, SharedOK

LEMMA CheckAbsentInv ==
    ASSUME DrillInv, NEW e \in Drills, CheckAbsent(e)
    PROVE  DrillInv'
<1> USE OfDrill
<1>1. /\ Running(e) /\ at[e] = "check"
      /\ UNCHANGED <<kind, preserve, objects, step, tracked, succeeded, seen, target, robbers,
                     hiccups>>
  BY DEF CheckAbsent, Settings
<1>2. /\ left[e] \in {<<"container", "volume">>, <<"volume">>} /\ ~succeeded[e]
      /\ outcome[e] = "running"
      /\ \A o \in Objects : ~Owns(e, o)
  BY <1>1 DEF ControlOK, KnowsItsOwn, Running
<1>3. SeenOK(e)'
  BY <1>1 DEF SeenOK
<1>4. CASE kind = "soak"
  <2>1. at' = [at EXCEPT ![e] = "script"] /\ UNCHANGED <<left, outcome, blind>>
    BY <1>4 DEF CheckAbsent
  <2>2. kind \notin Restores
    BY <1>4 DEF Restores
  <2>3. Aside(e)
    BY <1>1, <2>1 DEF Aside, DrillTypes
  <2>4. DrillTypes' /\ SharedOK'
    BY <1>1, <2>1 DEF DrillTypes, SharedOK
  <2>5. at'[e] = "script"
    BY <2>1 DEF DrillTypes
  <2>6. ControlOK(e)'
    BY <1>1, <1>2, <2>1, <2>5 DEF ControlOK, Running
  <2>7. NamesAreFree(e)' /\ MountsOwn(e)' /\ TargetStays(e)'
    BY <1>1, <2>2 DEF NamesAreFree, MountsOwn, TargetStays
  <2>8. KnowsItsOwn(e)'
    BY <1>1, <1>2, <2>1, <2>5 DEF KnowsItsOwn, Owns
  <2>9. DrillOK(e)'
    BY <1>3, <2>6, <2>7, <2>8 DEF DrillOK
  <2> QED BY <2>3, <2>4, <2>9, StepInv
<1>5. CASE kind # "soak"
  <2>1. PICK found \in BOOLEAN :
          LET o == Head(left[e]) IN
          /\ found => Exists(o)
          /\ IF found THEN Ends(e, "refused") /\ UNCHANGED <<left, blind>>
             ELSE /\ left' = [left EXCEPT ![e] = Tail(@)]
                  /\ at' = [at EXCEPT ![e] = IF Len(left[e]) = 1 THEN "script" ELSE @]
                  /\ blind' = IF Exists(o) THEN blind \cup {e} ELSE blind
                  /\ UNCHANGED outcome
    BY <1>5 DEF CheckAbsent
  <2>2. CASE found
    <3>1. Ends(e, "refused") /\ UNCHANGED <<left, blind>>
      BY <2>1, <2>2
    <3>2. \A o \in Objects : ~Owns(e, o)'
      BY <1>1, <1>2 DEF Owns
    <3> QED BY <1>1, <3>1, <3>2, EndsInv DEF DrillTypes, SharedOK
  <2>3. CASE ~found
    <3>0. /\ left' = [left EXCEPT ![e] = Tail(@)]
          /\ at' = [at EXCEPT ![e] = IF Len(left[e]) = 1 THEN "script" ELSE @]
          /\ blind' = IF Exists(Head(left[e])) THEN blind \cup {e} ELSE blind
          /\ outcome' = outcome
      BY <2>1, <2>3
    <3>1. left[e] \in Seq(Objects) /\ left[e] # <<>> /\ Tail(left[e]) \in Seq(Objects)
      BY <1>2, LookedAt, ListSteps
    <3>2. /\ left' \in [Drills -> Seq(Objects)] /\ left'[e] = Tail(left[e])
          /\ at' \in [Drills -> {"check", "script", "cleanup", "end"}]
          /\ at'[e] = IF Len(left[e]) = 1 THEN "script" ELSE "check"
          /\ \A d \in Drills \ {e} : left'[d] = left[d] /\ at'[d] = at[d]
      BY <1>1, <3>0, <3>1 DEF DrillTypes
    <3>3. Aside(e)
      BY <1>1, <3>0, <3>2 DEF Aside
    <3>4. DrillTypes'
      BY <1>1, <3>0, <3>2 DEF DrillTypes
    <3>5. SharedOK'
      BY <1>1, <3>0 DEF SharedOK
    <3>6. \/ /\ left[e] = <<"container", "volume">> /\ Head(left[e]) = "container"
             /\ left'[e] = <<"volume">> /\ at'[e] = "check"
          \/ /\ left[e] = <<"volume">> /\ Head(left[e]) = "volume" /\ at'[e] = "script"
      <4>1. CASE left[e] = <<"container", "volume">>
        <5>1. Len(left[e]) = 2 /\ Head(left[e]) = "container" /\ Tail(left[e]) = <<"volume">>
          BY <4>1, LookedAt, Zenon
        <5> QED BY <3>2, <4>1, <5>1
      <4>2. CASE left[e] = <<"volume">>
        <5>1. Len(left[e]) = 1 /\ Head(left[e]) = "volume"
          BY <4>2, LookedAt, Zenon
        <5> QED BY <3>2, <4>2, <5>1
      <4> QED BY <1>2, <4>1, <4>2
    <3>7. ControlOK(e)'
      BY <1>1, <1>2, <3>0, <3>6 DEF ControlOK, Running
    <3>8. NamesAreFree(e)'
      <4> SUFFICES ASSUME kind \in Restores, e \notin blind'
                   PROVE  /\ left'[e] = <<"volume">> /\ at'[e] = "check" =>
                                objects["container"] = Nobody
                          /\ at'[e] \in {"script", "cleanup"} =>
                                \A o \in {"container", "volume"} : objects[o] \in {e, Nobody}
        BY <1>1 DEF NamesAreFree
      <4>1. e \notin blind /\ ~Exists(Head(left[e]))
        BY <3>0
      <4>2. CASE left[e] = <<"container", "volume">>
        BY <3>6, <4>1, <4>2 DEF Exists
      <4>3. CASE left[e] = <<"volume">>
        BY <1>1, <3>6, <4>1, <4>3 DEF Exists, NamesAreFree
      <4> QED BY <1>2, <4>2, <4>3
    <3>9. ~Ran(e)'
      BY <1>1 DEF Ran, ControlOK
    <3>10. MountsOwn(e)' /\ TargetStays(e)'
      BY <1>1, <1>2, <3>0, <3>9 DEF MountsOwn, TargetStays, Through
    <3>11. KnowsItsOwn(e)'
      BY <1>1, <1>2, <3>0, <3>6 DEF KnowsItsOwn, Owns
    <3>12. DrillOK(e)'
      BY <1>3, <3>7, <3>8, <3>10, <3>11 DEF DrillOK
    <3> QED BY <3>3, <3>4, <3>5, <3>12, StepInv
  <2> QED BY <2>2, <2>3
<1> QED BY <1>4, <1>5

\* The cleanup goes on to the next object, or ends.
LEMMA CleanupInv ==
    ASSUME DrillInv, NEW e \in Drills, CleaningUp(e), NextToClean(e),
           step' = step, succeeded' = succeeded, kind' = kind, preserve' = preserve,
           tracked' = tracked, seen' = seen, target' = target, blind' = blind,
           hiccups \subseteq hiccups',
           objects' \in [Objects -> Drills \cup {Nobody}],
           \A o \in Objects :
              \/ objects'[o] = objects[o]
              \/ objects'[o] = Nobody /\ (objects[o] \in {e, Nobody} \/ e \in robbers'),
           kind \in Restores => robbers' \subseteq blind,
           objects'[Head(left[e])] = e => e \in hiccups'
    PROVE  DrillInv'
<1> USE OfDrill
<1>1. PICK o, rest : o = Head(left[e]) /\ rest = Tail(left[e])
  OBVIOUS
<1>2. /\ at[e] = "cleanup" /\ Running(e) /\ outcome[e] = "running"
      /\ left[e] \in Seq(Objects) /\ left[e] # <<>>
      /\ succeeded[e] \in BOOLEAN
      /\ kind \in Restores => left[e] \in {<<"container", "volume">>, <<"volume">>}
      /\ preserve[e] => ~succeeded[e]
  BY DEF CleaningUp, ControlOK, DrillTypes, Running
<1>3. /\ o \in Objects /\ rest \in Seq(Objects)
      /\ ToSet(left[e]) \subseteq {o} \cup ToSet(rest)
      /\ Len(left[e]) = 1 => ToSet(rest) = {}
      /\ Len(left[e]) # 1 => rest # <<>>
  BY <1>1, <1>2, ListSteps
<1>4. /\ left' \in [Drills -> Seq(Objects)] /\ left'[e] = rest
      /\ \A d \in Drills \ {e} : left'[d] = left[d]
  BY <1>1, <1>3 DEF NextToClean, DrillTypes
<1>5. ASSUME e \notin hiccups', NEW x \in Objects, Owns(e, x)'
      PROVE  x \in ToSet(rest)
  <2>1. x # o
    BY <1>1, <1>5 DEF Owns
  <2>2. Owns(e, x)
    BY <1>5, DrillsAssumption DEF Owns
  <2>3. x \in ToSet(left[e])
    BY <1>2, <1>5, <2>2 DEF KnowsItsOwn
  <2> QED BY <1>3, <2>1, <2>3
<1>6. CASE Len(left[e]) = 1
  <2>1. Ends(e, IF succeeded[e] THEN "evidence" ELSE "failed")
    BY <1>6 DEF NextToClean
  <2>2. e \notin hiccups' => \A x \in Objects : ~Owns(e, x)'
    BY <1>3, <1>5, <1>6
  <2>3. CASE succeeded[e]
    <3>1. Ends(e, "evidence")
      BY <2>1, <2>3
    <3>2. ~preserve[e]
      BY <1>2, <2>3
    <3> QED BY <1>2, <1>4, <2>2, <2>3, <3>1, <3>2, EndsInv
  <2>4. CASE ~succeeded[e]
    <3>1. Ends(e, "failed")
      BY <2>1, <2>4
    <3> QED BY <1>2, <1>4, <2>2, <3>1, EndsInv
  <2> QED BY <2>3, <2>4
<1>7. CASE Len(left[e]) # 1
  <2>1. at' = at /\ outcome' = outcome
    BY <1>7 DEF NextToClean
  <2>2. Aside(e)
    BY <1>4, <2>1 DEF Aside
  <2>3. DrillTypes' /\ SharedOK'
    BY <1>4, <2>1 DEF DrillTypes, SharedOK
  <2>4. ControlOK(e)'
    <3>1. ASSUME kind \in Restores
          PROVE  rest = <<"volume">>
      <4>1. left[e] = <<"container", "volume">>
        BY <1>2, <1>7, <3>1, LookedAt
      <4> QED BY <1>1, <4>1, LookedAt, Zenon
    <3> QED BY <1>2, <1>3, <1>4, <1>7, <2>1, <3>1 DEF ControlOK, Running
  <2>5. NamesAreFree(e)'
    <3> SUFFICES ASSUME kind \in Restores, e \notin blind, NEW x \in {"container", "volume"}
                 PROVE  objects'[x] \in {e, Nobody}
      BY <1>2, <2>1 DEF NamesAreFree
    <3>1. objects[x] \in {e, Nobody}
      BY <1>2 DEF NamesAreFree
    <3>2. x \in Objects
      OBVIOUS
    <3> QED BY <3>1, <3>2
  <2>6. MountsOwn(e)' /\ TargetStays(e)'
    BY <1>2, <2>1 DEF MountsOwn, TargetStays, Through
  <2>7. SeenOK(e)'
    BY DEF SeenOK
  <2>8. KnowsItsOwn(e)'
    BY <1>2, <1>4, <1>5, <2>1 DEF KnowsItsOwn
  <2>9. DrillOK(e)'
    BY <2>4, <2>5, <2>6, <2>7, <2>8 DEF DrillOK
  <2> QED BY <2>2, <2>3, <2>9, StepInv
<1> QED BY <1>6, <1>7

LEMMA CleanupRemovesInv ==
    ASSUME DrillInv, NEW e \in Drills, CleanupRemoves(e)
    PROVE  DrillInv'
<1> USE OfDrill
<1>1. PICK o : o = Head(left[e])
  OBVIOUS
<1>2. /\ CleaningUp(e) /\ NextToClean(e)
      /\ objects' = [objects EXCEPT ![o] = Nobody]
      /\ robbers' = IF objects[o] \in {e, Nobody} THEN robbers ELSE robbers \cup {e}
      /\ UNCHANGED <<kind, preserve, step, tracked, succeeded, seen, target, blind, hiccups>>
  BY <1>1 DEF CleanupRemoves, Removed, Settings
<1>3. o \in Objects
  <2>1. left[e] \in Seq(Objects) /\ left[e] # <<>>
    BY <1>2 DEF CleaningUp, ControlOK, DrillTypes
  <2> QED BY <1>1, <2>1, ListSteps
<1>4. /\ objects' \in [Objects -> Drills \cup {Nobody}]
      /\ objects'[o] = Nobody
      /\ \A x \in Objects : x # o => objects'[x] = objects[x]
  BY <1>2, <1>3 DEF DrillTypes
<1>5. ASSUME kind \in Restores
      PROVE  robbers' \subseteq blind
  <2>1. o \in {"container", "volume"}
    BY <1>1, <1>2, <1>5, LookedAt DEF CleaningUp, ControlOK
  <2>2. e \notin blind => objects[o] \in {e, Nobody}
    BY <1>2, <1>5, <2>1 DEF NamesAreFree, CleaningUp
  <2> QED BY <1>2, <1>5, <2>2 DEF SharedOK
<1>6. \A x \in Objects :
        \/ objects'[x] = objects[x]
        \/ objects'[x] = Nobody /\ (objects[x] \in {e, Nobody} \/ e \in robbers')
  BY <1>2, <1>3, <1>4
<1>7. objects'[Head(left[e])] # e
  BY <1>1, <1>4, DrillsAssumption
<1> QED BY <1>2, <1>4, <1>5, <1>6, <1>7, CleanupInv

LEMMA CleanupSkipsInv ==
    ASSUME DrillInv, NEW e \in Drills, CleanupSkips(e)
    PROVE  DrillInv'
<1> USE OfDrill
<1>1. /\ CleaningUp(e) /\ NextToClean(e)
      /\ hiccups' = IF Exists(Head(left[e])) THEN hiccups \cup {e} ELSE hiccups
      /\ UNCHANGED <<kind, preserve, objects, step, tracked, succeeded, seen, target, blind, robbers>>
  BY DEF CleanupSkips, Settings
<1>2. objects' \in [Objects -> Drills \cup {Nobody}]
  BY <1>1 DEF DrillTypes
<1>3. objects'[Head(left[e])] = e => e \in hiccups'
  BY <1>1, DrillsAssumption DEF Exists
<1>4. kind \in Restores => robbers' \subseteq blind
  BY <1>1 DEF SharedOK
<1> QED BY <1>1, <1>2, <1>3, <1>4, CleanupInv

LEMMA CleanupRaisesInv ==
    ASSUME DrillInv, NEW e \in Drills, CleanupRaises(e)
    PROVE  DrillInv'
<1> USE OfDrill
<1>1. /\ Running(e) /\ Ends(e, "failed") /\ hiccups' = hiccups \cup {e}
      /\ UNCHANGED <<kind, preserve, objects, step, left, tracked, succeeded, seen, target, blind,
                     robbers>>
  BY DEF CleanupRaises, CleaningUp, Settings
<1> QED BY <1>1, EndsInv DEF DrillTypes, SharedOK

-----------------------------------------------------------------------------
(* Theorems                                                                *)

LEMMA DrillNextInv == DrillInv /\ [Next]_drillVars => DrillInv'
<1> SUFFICES ASSUME DrillInv, [Next]_drillVars PROVE DrillInv'
  OBVIOUS
<1>1. CASE UNCHANGED drillVars
  BY <1>1 DEF drillVars, DrillInv, DrillTypes, SharedOK, DrillOK, ControlOK, NamesAreFree,
              MountsOwn, TargetStays, SeenOK, KnowsItsOwn, Through, Ran, Owns, Running, CleanupList
<1>2. CASE Next
  <2>1. PICK e \in Drills :
          \/ Refuse(e) \/ CheckAbsent(e)
          \/ MakeObject(e) \/ RunContainer(e) \/ RunHalfway(e) \/ RemoveVictim(e)
          \/ ProbePasses(e) \/ CommandFails(e)
          \/ CleanupRemoves(e) \/ CleanupSkips(e) \/ CleanupRaises(e)
          \/ Killed(e)
    BY <1>2 DEF Next
  <2> QED BY <2>1, RefuseInv, CheckAbsentInv, MakeObjectInv, RunContainerInv, RunHalfwayInv,
             RemoveVictimInv, ProbePassesInv, CommandFailsInv, CleanupRemovesInv,
             CleanupSkipsInv, CleanupRaisesInv, KilledInv
<1> QED BY <1>1, <1>2

(***************************************************************************)
(* The inductive invariant of the drills, for any number of invocations    *)
(* with one run id: a restore drill that is not blind has the names to     *)
(* itself, mounts its own volume and has seen what its checks accept, and  *)
(* every drill knows which of its objects it has to remove.                *)
(***************************************************************************)
THEOREM DrillInvariant == Spec => []DrillInv
<1>1. Init => DrillInv
  BY DrillInitInv
<1>2. DrillInv /\ [Next]_drillVars => DrillInv'
  BY DrillNextInv
<1> QED BY <1>1, <1>2, PTL DEF Spec

\* A drill that was not killed leaves nothing of its own behind, whichever command failed.
THEOREM NothingLeftCorrect == Spec => []NothingLeftBehind
<1>1. DrillInv => NothingLeftBehind
  BY DEF DrillInv, DrillOK, KnowsItsOwn, Owns, NothingLeftBehind
<1> QED BY <1>1, DrillInvariant, PTL

(***************************************************************************)
(* A restore drill takes an object of another one only if its look at the  *)
(* names could not see it, and its evidence is about a volume of its own.  *)
(***************************************************************************)
THEOREM KeepOffCorrect == Spec => []LaterDrillsKeepOff
<1>1. DrillInv => LaterDrillsKeepOff
  BY DEF DrillInv, DrillOK, SharedOK, ControlOK, MountsOwn, Through, LaterDrillsKeepOff
<1> QED BY <1>1, DrillInvariant, PTL

(***************************************************************************)
(* Evidence is written for a target whose checks found what they should,   *)
(* and a target that was to be preserved is there.                         *)
(***************************************************************************)
THEOREM EvidenceCorrect == Spec => []EvidenceIsDeserved
<1>1. ASSUME DrillInv, NEW d \in Drills, outcome[d] = "evidence"
      PROVE  /\ kind \in Restores /\ preserve[d] /\ blind = {} =>
                objects["container"] = d /\ objects["volume"] = d
             /\ kind = "postgres" => seen[d] = [server |-> 18, heads |-> TRUE, counts |-> 1]
             /\ kind = "grafana" =>
                /\ seen[d].unchanged /\ seen[d].folders /\ seen[d].datasources
                /\ \E i \in 1 .. 2 : seen[d].dashboards[i] = [title |-> TRUE, provisioned |-> FALSE]
                /\ seen[d].access.reads <=> seen[d].access.expected # "disabled"
                /\ seen[d].access.admin # 200
  <2>1. step[d] = Len(Script[kind])
    BY <1>1, OfDrill DEF ControlOK
  <2>2. kind \in Restores /\ preserve[d] /\ blind = {} =>
            objects["container"] = d /\ objects["volume"] = d
    BY <1>1, OfDrill DEF TargetStays, Owns
  <2>3. /\ seen[d] = [c \in DOMAIN seen[d] |-> seen[d][c]]
        /\ DOMAIN seen[d] = Checks(kind, Len(Script[kind]))
        /\ \A c \in DOMAIN seen[d] : seen[d][c] \in Findings[c] /\ Accepts(c, seen[d][c])
    BY <1>1, <2>1, OfDrill DEF SeenOK
  <2>4. ASSUME kind = "postgres"
        PROVE  seen[d] = [server |-> 18, heads |-> TRUE, counts |-> 1]
    <3>1. DOMAIN seen[d] = {"server", "heads", "counts"}
      BY <1>1, <2>3, <2>4, OfDrill, WholeScript
    <3>2. seen[d]["server"] = 18
      BY <2>3, <3>1 DEF Accepts
    <3>3. seen[d]["heads"] = TRUE
      <4>1. Findings["heads"] = BOOLEAN
        BY DEF Findings
      <4>2. seen[d]["heads"] \in BOOLEAN /\ seen[d]["heads"]
        BY <2>3, <3>1, <4>1 DEF Accepts
      <4> QED BY <4>2
    <3>4. seen[d]["counts"] = 1
      <4>1. Findings["counts"] = {0, 1}
        BY DEF Findings
      <4>2. seen[d]["counts"] \in {0, 1} /\ seen[d]["counts"] >= 1
        BY <2>3, <3>1, <4>1 DEF Accepts
      <4> QED BY <4>2
    <3>5. seen[d] = [c \in {"server", "heads", "counts"} |-> seen[d][c]]
      BY <2>3, <3>1
    <3> QED BY <3>2, <3>3, <3>4, <3>5
  <2>5. ASSUME kind = "grafana"
        PROVE  /\ seen[d].unchanged /\ seen[d].folders /\ seen[d].datasources
               /\ \E i \in 1 .. 2 : seen[d].dashboards[i] = [title |-> TRUE, provisioned |-> FALSE]
               /\ seen[d].access.reads <=> seen[d].access.expected # "disabled"
               /\ seen[d].access.admin # 200
    <3>1. DOMAIN seen[d] = {"unchanged", "dashboards", "folders", "datasources", "access"}
      BY <1>1, <2>3, <2>5, OfDrill, WholeScript
    <3>2. seen[d].unchanged /\ seen[d].folders /\ seen[d].datasources
      BY <2>3, <3>1 DEF Accepts
    <3>3. \E i \in 1 .. 2 : seen[d].dashboards[i] = [title |-> TRUE, provisioned |-> FALSE]
      <4>1. Findings["dashboards"] = [1 .. 2 -> Dashboard]
        BY DEF Findings
      <4>2. PICK f : f = seen[d]["dashboards"]
        OBVIOUS
      <4>3. f \in [1 .. 2 -> Dashboard] /\ dashboards_met(f)
        BY <2>3, <3>1, <4>1, <4>2 DEF Accepts
      <4>4. PICK i \in 1 .. 2 : ~f[i].provisioned
        BY <4>3 DEF dashboards_met
      <4>5. f[i] \in [title : BOOLEAN, provisioned : BOOLEAN] /\ f[i].title
        BY <4>3 DEF dashboards_met, Dashboard
      <4>6. f[i] = [title |-> TRUE, provisioned |-> FALSE]
        BY <4>4, <4>5
      <4> QED BY <4>2, <4>6
    <3>4. /\ seen[d].access.reads <=> seen[d].access.expected # "disabled"
          /\ seen[d].access.admin # 200
      <4>1. Findings["access"] = Access
        BY DEF Findings
      <4>2. PICK f : f = seen[d]["access"]
        OBVIOUS
      <4>3. f \in Access /\ validate_access_policy(f)
        BY <2>3, <3>1, <4>1, <4>2 DEF Accepts
      <4>4. f.reads = (f.expected # "disabled") /\ f.admin \in {401, 403}
        BY <4>3 DEF validate_access_policy
      <4>5. f.reads <=> f.expected # "disabled"
        BY <4>4, Zenon
      <4>6. f.admin # 200
        BY <4>4
      <4> QED BY <4>2, <4>5, <4>6, Zenon
    <3> QED BY <3>2, <3>3, <3>4
  <2> QED BY <2>2, <2>4, <2>5
<1>2. DrillInv => EvidenceIsDeserved
  BY <1>1 DEF EvidenceIsDeserved
<1> QED BY <1>2, DrillInvariant, PTL

-----------------------------------------------------------------------------
(* The judgement on a recovery drill                                       *)

\* What is written down of a service.
Service(timeline, bytes, seconds, rpo, integrity, preserved) ==
    [timeline |-> timeline, backup_bytes |-> bytes, minimum_bytes |-> 10,
     backup_seconds |-> 1, restore_seconds |-> 1, recovery_seconds |-> seconds,
     observed_rpo |-> rpo, integrity_checks_passed |-> integrity, source_preserved |-> preserved]

\* A service of a drill in which the defects D have occurred.
Timeline(name, D) == IF <<name, "disordered">> \in D THEN <<1, 4, 3, 4>> ELSE <<1, 2, 3, 4>>
Bytes(name, D) == IF <<name, "small">> \in D THEN 9 ELSE 10
Seconds(name, D) == IF <<name, "slow">> \in D THEN 11 ELSE 10
Rpo(name, D) == IF <<name, "stale">> \in D THEN 6 ELSE 5
Integrity(name, D) == IF <<name, "corrupt">> \in D THEN FALSE ELSE TRUE
Preserved(name, D) == IF <<name, "source_lost">> \in D THEN FALSE ELSE TRUE

ServiceOf(name, D) ==
    Service(Timeline(name, D), Bytes(name, D), Seconds(name, D), Rpo(name, D),
            Integrity(name, D), Preserved(name, D))

\* One more defect of a service.
LEMMA SpoiledServiceOf ==
    ASSUME NEW D, NEW name, NEW x \in ServiceDefects, <<name, x>> \notin D
    PROVE  SpoiledService(ServiceOf(name, D), x) = ServiceOf(name, D \cup {<<name, x>>})
<1> DEFINE E == D \cup {<<name, x>>}
<1>0. \A y \in ServiceDefects : <<name, y>> \in E <=> <<name, y>> \in D \/ y = x
  OBVIOUS
<1> HIDE DEF E
<1>1. PICK t, b, s, r, i, p :
        /\ t = Timeline(name, D) /\ b = Bytes(name, D) /\ s = Seconds(name, D)
        /\ r = Rpo(name, D) /\ i = Integrity(name, D) /\ p = Preserved(name, D)
  OBVIOUS
<1>2. ServiceOf(name, D) = Service(t, b, s, r, i, p)
  BY <1>1 DEF ServiceOf
<1>3. /\ Timeline(name, E) = IF x = "disordered" THEN <<1, 4, 3, 4>> ELSE t
      /\ Bytes(name, E) = IF x = "small" THEN 9 ELSE b
      /\ Seconds(name, E) = IF x = "slow" THEN 11 ELSE s
      /\ Rpo(name, E) = IF x = "stale" THEN 6 ELSE r
      /\ Integrity(name, E) = IF x = "corrupt" THEN FALSE ELSE i
      /\ Preserved(name, E) = IF x = "source_lost" THEN FALSE ELSE p
  BY <1>0, <1>1 DEF ServiceDefects, Timeline, Bytes, Seconds, Rpo, Integrity, Preserved
<1>4. CASE x = "small"
  <2>1. b - 1 = 9
    BY <1>1, <1>4 DEF Bytes
  <2>2. ServiceOf(name, E) = Service(t, 9, s, r, i, p)
    BY <1>3, <1>4 DEF ServiceOf
  <2>3. SpoiledService(Service(t, b, s, r, i, p), x) = Service(t, 9, s, r, i, p)
    BY <1>4, <2>1 DEF SpoiledService, Service
  <2> QED BY <1>2, <2>2, <2>3 DEF E
<1>5. CASE x = "slow"
  <2>1. s + 1 = 11
    BY <1>1, <1>5 DEF Seconds
  <2>2. ServiceOf(name, E) = Service(t, b, 11, r, i, p)
    BY <1>3, <1>5 DEF ServiceOf
  <2>3. SpoiledService(Service(t, b, s, r, i, p), x) = Service(t, b, 11, r, i, p)
    BY <1>5, <2>1 DEF SpoiledService, Service
  <2> QED BY <1>2, <2>2, <2>3 DEF E
<1>6. CASE x = "stale"
  <2>1. r + 1 = 6
    BY <1>1, <1>6 DEF Rpo
  <2>2. ServiceOf(name, E) = Service(t, b, s, 6, i, p)
    BY <1>3, <1>6 DEF ServiceOf
  <2>3. SpoiledService(Service(t, b, s, r, i, p), x) = Service(t, b, s, 6, i, p)
    BY <1>6, <2>1 DEF SpoiledService, Service
  <2> QED BY <1>2, <2>2, <2>3 DEF E
<1>7. CASE x = "corrupt"
  <2>2. ServiceOf(name, E) = Service(t, b, s, r, FALSE, p)
    BY <1>3, <1>7 DEF ServiceOf
  <2>3. SpoiledService(Service(t, b, s, r, i, p), x) = Service(t, b, s, r, FALSE, p)
    BY <1>7 DEF SpoiledService, Service
  <2> QED BY <1>2, <2>2, <2>3 DEF E
<1>8. CASE x = "source_lost"
  <2>2. ServiceOf(name, E) = Service(t, b, s, r, i, FALSE)
    BY <1>3, <1>8 DEF ServiceOf
  <2>3. SpoiledService(Service(t, b, s, r, i, p), x) = Service(t, b, s, r, i, FALSE)
    BY <1>8 DEF SpoiledService, Service
  <2> QED BY <1>2, <2>2, <2>3 DEF E
<1>9. CASE x = "disordered"
  <2>1. t = <<1, 2, 3, 4>>
    BY <1>1, <1>9 DEF Timeline
  <2>2. ServiceOf(name, E) = Service(<<1, 4, 3, 4>>, b, s, r, i, p)
    BY <1>3, <1>9 DEF ServiceOf
  <2>3. SpoiledService(Service(t, b, s, r, i, p), x) = Service(<<1, 4, 3, 4>>, b, s, r, i, p)
    BY <1>9, <2>1 DEF SpoiledService, Service
  <2> QED BY <1>2, <2>2, <2>3 DEF E
<1> QED BY <1>4, <1>5, <1>6, <1>7, <1>8, <1>9 DEF ServiceDefects

\* What is written down of a drill.
Drill(started, cutover, completed, checked, rto, pg, gf, approved, rollback, flags, reviewed,
      matches) ==
    [started_at |-> started, completed_at |-> completed, checked_at |-> checked,
     postgres_rto |-> 10, grafana_rto |-> 10, rpo |-> 5, rollback_rto |-> rto,
     postgres |-> pg, grafana |-> gf, cutover |-> cutover, approved |-> approved,
     rollback |-> rollback, flags |-> flags, reviewed |-> reviewed,
     secret_scan_matches |-> matches]

WindowStart(D) == IF <<"drill", "early">> \in D THEN 2 ELSE 1
Cutover(D) == IF <<"drill", "late_approval">> \in D THEN <<7, 6, 7>> ELSE <<5, 6, 7>>
Completed(D) == IF <<"drill", "late">> \in D THEN 10 ELSE 11
Checked(D) == IF <<"drill", "future">> \in D THEN 10 ELSE 11
RollbackRto(D) == IF <<"drill", "long_rollback">> \in D THEN 2 ELSE 3
Approved(D) == IF <<"drill", "unapproved">> \in D THEN FALSE ELSE TRUE
Rollback(D) == IF <<"drill", "early_rollback">> \in D THEN <<6, 7>> ELSE <<8, 11>>
Flags(D) == {f \in RollbackFlags : <<"flag", f>> \notin D}
            \cup (IF <<"drill", "crossed">> \in D THEN {"crossed_point_of_no_return"} ELSE {})
Reviewed(D) == IF <<"drill", "unreviewed">> \in D THEN FALSE ELSE TRUE
Matches(D) == IF <<"drill", "secret">> \in D THEN 1 ELSE 0

\* The drill in which the defects D occurred, in whatever order.
DrillOf(D) ==
    Drill(WindowStart(D), Cutover(D), Completed(D), Checked(D), RollbackRto(D),
          ServiceOf("postgres", D), ServiceOf("grafana", D), Approved(D), Rollback(D), Flags(D),
          Reviewed(D), Matches(D))

\* The observation is that of the defects, and the judgement is about it.
RecoveryInv ==
    /\ defects \subseteq DrillDefects
    /\ observation = DrillOf(defects)
    /\ judgement # "none" => judgement = judge_drill(observation)

\* The defects of one service are no defects of the other.
LEMMA SameService ==
    ASSUME NEW D, NEW E, NEW name,
           \A y \in ServiceDefects : <<name, y>> \in E <=> <<name, y>> \in D
    PROVE  ServiceOf(name, E) = ServiceOf(name, D)
<1>1. /\ Timeline(name, E) = Timeline(name, D) /\ Bytes(name, E) = Bytes(name, D)
      /\ Seconds(name, E) = Seconds(name, D) /\ Rpo(name, E) = Rpo(name, D)
      /\ Integrity(name, E) = Integrity(name, D) /\ Preserved(name, E) = Preserved(name, D)
  BY DEF ServiceDefects, Timeline, Bytes, Seconds, Rpo, Integrity, Preserved
<1> QED BY <1>1 DEF ServiceOf

\* One more defect.
LEMMA SpoiledDrillOf ==
    ASSUME NEW D, NEW d \in DrillDefects, d \notin D
    PROVE  SpoiledDrill(DrillOf(D), d) = DrillOf(D \cup {d})
<1> DEFINE E == D \cup {d}
<1>1. PICK s, u, c, k, t, pg, gf, a, b, f, r, m :
        /\ s = WindowStart(D) /\ u = Cutover(D)
        /\ c = Completed(D) /\ k = Checked(D) /\ t = RollbackRto(D)
        /\ pg = ServiceOf("postgres", D) /\ gf = ServiceOf("grafana", D)
        /\ a = Approved(D) /\ b = Rollback(D) /\ f = Flags(D) /\ r = Reviewed(D)
        /\ m = Matches(D)
  OBVIOUS
<1>2. DrillOf(D) = Drill(s, u, c, k, t, pg, gf, a, b, f, r, m)
  BY <1>1 DEF DrillOf
<1>3. \A x, y : <<x, y>> \in E <=> <<x, y>> \in D \/ d = <<x, y>>
  OBVIOUS
<1> HIDE DEF E
<1>4. /\ ~(d[1] = "drill" /\ d[2] = "early") => WindowStart(E) = s
      /\ ~(d[1] = "drill" /\ d[2] = "late_approval") => Cutover(E) = u
      /\ ~(d[1] = "drill" /\ d[2] = "late") => Completed(E) = c
      /\ ~(d[1] = "drill" /\ d[2] = "future") => Checked(E) = k
      /\ ~(d[1] = "drill" /\ d[2] = "long_rollback") => RollbackRto(E) = t
      /\ ~(d[1] = "drill" /\ d[2] = "unapproved") => Approved(E) = a
      /\ ~(d[1] = "drill" /\ d[2] = "early_rollback") => Rollback(E) = b
      /\ ~(d[1] = "drill" /\ d[2] = "unreviewed") => Reviewed(E) = r
      /\ ~(d[1] = "drill" /\ d[2] = "secret") => Matches(E) = m
  BY <1>1, <1>3 DEF WindowStart, Cutover, Completed, Checked, RollbackRto, Approved, Rollback,
                    Reviewed, Matches
<1>5. ~(d[1] = "drill" /\ d[2] = "crossed") /\ d[1] # "flag" => Flags(E) = f
  BY <1>1, <1>3 DEF Flags
<1>6. ASSUME NEW name, d[1] # name
      PROVE  ServiceOf(name, E) = ServiceOf(name, D)
  BY <1>3, <1>6, SameService
<1>7. ASSUME NEW x \in ServiceDefects, d = <<"postgres", x>>
      PROVE  SpoiledDrill(DrillOf(D), d) = DrillOf(E)
  <2>1. d[1] = "postgres" /\ d[2] = x
    BY <1>7
  <2>2. ServiceOf("postgres", E) = SpoiledService(pg, x)
    BY <1>1, <1>7, SpoiledServiceOf DEF E
  <2>3. DrillOf(E) = Drill(s, u, c, k, t, SpoiledService(pg, x), gf, a, b, f, r, m)
    BY <1>1, <1>4, <1>5, <1>6, <1>7, <2>1, <2>2 DEF DrillOf
  <2>4. SpoiledDrill(Drill(s, u, c, k, t, pg, gf, a, b, f, r, m), d)
          = Drill(s, u, c, k, t, SpoiledService(pg, x), gf, a, b, f, r, m)
    BY <2>1 DEF SpoiledDrill, Drill
  <2> QED BY <1>2, <2>3, <2>4
<1>8. ASSUME NEW x \in ServiceDefects, d = <<"grafana", x>>
      PROVE  SpoiledDrill(DrillOf(D), d) = DrillOf(E)
  <2>1. d[1] = "grafana" /\ d[2] = x
    BY <1>8
  <2>2. ServiceOf("grafana", E) = SpoiledService(gf, x)
    BY <1>1, <1>8, SpoiledServiceOf DEF E
  <2>3. DrillOf(E) = Drill(s, u, c, k, t, pg, SpoiledService(gf, x), a, b, f, r, m)
    BY <1>1, <1>4, <1>5, <1>6, <1>8, <2>1, <2>2 DEF DrillOf
  <2>4. SpoiledDrill(Drill(s, u, c, k, t, pg, gf, a, b, f, r, m), d)
          = Drill(s, u, c, k, t, pg, SpoiledService(gf, x), a, b, f, r, m)
    BY <2>1 DEF SpoiledDrill, Drill
  <2> QED BY <1>2, <2>3, <2>4
<1>9. ASSUME NEW x \in RollbackFlags, d = <<"flag", x>>
      PROVE  SpoiledDrill(DrillOf(D), d) = DrillOf(E)
  <2>1. d[1] = "flag" /\ d[2] = x
    BY <1>9
  <2>2. Flags(E) = f \ {x}
    BY <1>1, <1>3, <1>9 DEF Flags, RollbackFlags
  <2>3. DrillOf(E) = Drill(s, u, c, k, t, pg, gf, a, b, f \ {x}, r, m)
    BY <1>1, <1>4, <1>6, <1>9, <2>1, <2>2 DEF DrillOf
  <2>4. SpoiledDrill(Drill(s, u, c, k, t, pg, gf, a, b, f, r, m), d)
          = Drill(s, u, c, k, t, pg, gf, a, b, f \ {x}, r, m)
    BY <2>1 DEF SpoiledDrill, Drill
  <2> QED BY <1>2, <2>3, <2>4
<1>10. CASE d = <<"drill", "late">>
  <2>1. d[1] = "drill" /\ d[2] = "late"
    BY <1>10
  <2>2. Completed(E) = 10
    BY <1>1, <1>3, <1>10 DEF Completed
  <2>3. c = 11
    BY <1>1, <1>10, Zenon DEF Completed
  <2>4. DrillOf(E) = Drill(s, u, 10, k, t, pg, gf, a, b, f, r, m)
    BY <1>1, <1>4, <1>5, <1>6, <1>10, <2>1, <2>2 DEF DrillOf
  <2>5. SpoiledDrill(Drill(s, u, c, k, t, pg, gf, a, b, f, r, m), d)
          = Drill(s, u, 10, k, t, pg, gf, a, b, f, r, m)
    BY <2>1, <2>3 DEF SpoiledDrill, Drill
  <2> QED BY <1>2, <2>4, <2>5 DEF E
<1>11. CASE d = <<"drill", "early_rollback">>
  <2>1. d[1] = "drill" /\ d[2] = "early_rollback"
    BY <1>11
  <2>2. Rollback(E) = <<6, 7>>
    BY <1>1, <1>3, <1>11 DEF Rollback
  <2>3. DrillOf(E) = Drill(s, u, c, k, t, pg, gf, a, <<6, 7>>, f, r, m)
    BY <1>1, <1>4, <1>5, <1>6, <1>11, <2>1, <2>2 DEF DrillOf
  <2>4. SpoiledDrill(Drill(s, u, c, k, t, pg, gf, a, b, f, r, m), d)
          = Drill(s, u, c, k, t, pg, gf, a, <<6, 7>>, f, r, m)
    BY <2>1 DEF SpoiledDrill, Drill
  <2> QED BY <1>2, <2>3, <2>4 DEF E
<1>12. CASE d = <<"drill", "unapproved">>
  <2>1. d[1] = "drill" /\ d[2] = "unapproved"
    BY <1>12
  <2>2. Approved(E) = FALSE
    BY <1>1, <1>3, <1>12 DEF Approved
  <2>3. /\ Completed(E) = c /\ Checked(E) = k /\ RollbackRto(E) = t
        /\ ServiceOf("postgres", E) = pg /\ ServiceOf("grafana", E) = gf
        /\ Rollback(E) = b /\ Flags(E) = f /\ Reviewed(E) = r /\ Matches(E) = m
        /\ WindowStart(E) = s /\ Cutover(E) = u
    BY <1>1, <1>4, <1>5, <1>6, <2>1
  <2>4. DrillOf(E) = Drill(s, u, c, k, t, pg, gf, FALSE, b, f, r, m)
    BY <2>2, <2>3, Zenon DEF DrillOf
  <2>5. SpoiledDrill(Drill(s, u, c, k, t, pg, gf, a, b, f, r, m), d)
          = Drill(s, u, c, k, t, pg, gf, FALSE, b, f, r, m)
    BY <2>1 DEF SpoiledDrill, Drill
  <2> QED BY <1>2, <2>4, <2>5 DEF E
<1>13. CASE d = <<"drill", "long_rollback">>
  <2>1. d[1] = "drill" /\ d[2] = "long_rollback"
    BY <1>13
  <2>2. RollbackRto(E) = 2
    BY <1>1, <1>3, <1>13 DEF RollbackRto
  <2>3. t = 3
    BY <1>1, <1>13, Zenon DEF RollbackRto
  <2>4. DrillOf(E) = Drill(s, u, c, k, 2, pg, gf, a, b, f, r, m)
    BY <1>1, <1>4, <1>5, <1>6, <1>13, <2>1, <2>2 DEF DrillOf
  <2>5. SpoiledDrill(Drill(s, u, c, k, t, pg, gf, a, b, f, r, m), d)
          = Drill(s, u, c, k, 2, pg, gf, a, b, f, r, m)
    BY <2>1, <2>3 DEF SpoiledDrill, Drill
  <2> QED BY <1>2, <2>4, <2>5 DEF E
<1>14. CASE d = <<"drill", "crossed">>
  <2>1. d[1] = "drill" /\ d[2] = "crossed"
    BY <1>14
  <2>2. Flags(E) = f \cup {"crossed_point_of_no_return"}
    BY <1>1, <1>3, <1>14 DEF Flags
  <2>3. DrillOf(E) = Drill(s, u, c, k, t, pg, gf, a, b, f \cup {"crossed_point_of_no_return"}, r, m)
    BY <1>1, <1>4, <1>5, <1>6, <1>14, <2>1, <2>2 DEF DrillOf
  <2>4. SpoiledDrill(Drill(s, u, c, k, t, pg, gf, a, b, f, r, m), d)
          = Drill(s, u, c, k, t, pg, gf, a, b, f \cup {"crossed_point_of_no_return"}, r, m)
    BY <2>1 DEF SpoiledDrill, Drill
  <2> QED BY <1>2, <2>3, <2>4 DEF E
<1>15. CASE d = <<"drill", "unreviewed">>
  <2>1. d[1] = "drill" /\ d[2] = "unreviewed"
    BY <1>15
  <2>2. Reviewed(E) = FALSE
    BY <1>1, <1>3, <1>15 DEF Reviewed
  <2>3. /\ Completed(E) = c /\ Checked(E) = k /\ RollbackRto(E) = t
        /\ ServiceOf("postgres", E) = pg /\ ServiceOf("grafana", E) = gf
        /\ Approved(E) = a /\ Rollback(E) = b /\ Flags(E) = f /\ Matches(E) = m
        /\ WindowStart(E) = s /\ Cutover(E) = u
    BY <1>1, <1>4, <1>5, <1>6, <2>1
  <2>4. DrillOf(E) = Drill(s, u, c, k, t, pg, gf, a, b, f, FALSE, m)
    BY <2>2, <2>3, Zenon DEF DrillOf
  <2>5. SpoiledDrill(Drill(s, u, c, k, t, pg, gf, a, b, f, r, m), d)
          = Drill(s, u, c, k, t, pg, gf, a, b, f, FALSE, m)
    BY <2>1 DEF SpoiledDrill, Drill
  <2> QED BY <1>2, <2>4, <2>5 DEF E
<1>16. CASE d = <<"drill", "secret">>
  <2>1. d[1] = "drill" /\ d[2] = "secret"
    BY <1>16
  <2>2. Matches(E) = 1
    BY <1>1, <1>3, <1>16 DEF Matches
  <2>3. DrillOf(E) = Drill(s, u, c, k, t, pg, gf, a, b, f, r, 1)
    BY <1>1, <1>4, <1>5, <1>6, <1>16, <2>1, <2>2 DEF DrillOf
  <2>4. SpoiledDrill(Drill(s, u, c, k, t, pg, gf, a, b, f, r, m), d)
          = Drill(s, u, c, k, t, pg, gf, a, b, f, r, 1)
    BY <2>1 DEF SpoiledDrill, Drill
  <2> QED BY <1>2, <2>3, <2>4 DEF E
<1>17. CASE d = <<"drill", "future">>
  <2>1. d[1] = "drill" /\ d[2] = "future"
    BY <1>17
  <2>2. Checked(E) = 10
    BY <1>1, <1>3, <1>17 DEF Checked
  <2>3. k = 11
    BY <1>1, <1>17, Zenon DEF Checked
  <2>4. DrillOf(E) = Drill(s, u, c, 10, t, pg, gf, a, b, f, r, m)
    BY <1>1, <1>4, <1>5, <1>6, <1>17, <2>1, <2>2 DEF DrillOf
  <2>5. SpoiledDrill(Drill(s, u, c, k, t, pg, gf, a, b, f, r, m), d)
          = Drill(s, u, c, 10, t, pg, gf, a, b, f, r, m)
    BY <2>1, <2>3 DEF SpoiledDrill, Drill
  <2> QED BY <1>2, <2>4, <2>5 DEF E
<1>18. CASE d = <<"drill", "early">>
  <2>1. d[1] = "drill" /\ d[2] = "early"
    BY <1>18
  <2>2. WindowStart(E) = 2
    BY <1>1, <1>3, <1>18 DEF WindowStart
  <2>3. s = 1
    BY <1>1, <1>18, Zenon DEF WindowStart
  <2>4. DrillOf(E) = Drill(2, u, c, k, t, pg, gf, a, b, f, r, m)
    BY <1>1, <1>4, <1>5, <1>6, <1>18, <2>1, <2>2 DEF DrillOf
  <2>5. SpoiledDrill(Drill(s, u, c, k, t, pg, gf, a, b, f, r, m), d)
          = Drill(2, u, c, k, t, pg, gf, a, b, f, r, m)
    BY <2>1, <2>3 DEF SpoiledDrill, Drill
  <2> QED BY <1>2, <2>4, <2>5 DEF E
<1>19. CASE d = <<"drill", "late_approval">>
  <2>1. d[1] = "drill" /\ d[2] = "late_approval"
    BY <1>19
  <2>2. Cutover(E) = <<7, 6, 7>>
    BY <1>1, <1>3, <1>19 DEF Cutover
  <2>3. DrillOf(E) = Drill(s, <<7, 6, 7>>, c, k, t, pg, gf, a, b, f, r, m)
    BY <1>1, <1>4, <1>5, <1>6, <1>19, <2>1, <2>2 DEF DrillOf
  <2>4. SpoiledDrill(Drill(s, u, c, k, t, pg, gf, a, b, f, r, m), d)
          = Drill(s, <<7, 6, 7>>, c, k, t, pg, gf, a, b, f, r, m)
    BY <2>1 DEF SpoiledDrill, Drill
  <2> QED BY <1>2, <2>3, <2>4 DEF E
<1> QED BY <1>7, <1>8, <1>9, <1>10, <1>11, <1>12, <1>13, <1>14, <1>15, <1>16, <1>17, <1>18, <1>19
        DEF DrillDefects, E

\* What a passing judgement says.
LEMMA PassedMeans ==
    ASSUME NEW o
    PROVE  judge_drill(o) = "passed" <=>
             /\ DrillParses(o)
             /\ service_passed(o, o.postgres, o.postgres_rto)
             /\ service_passed(o, o.grafana, o.grafana_rto)
             /\ o.approved
             /\ RollbackFlags \subseteq o.flags
             /\ o.rollback[2] - o.rollback[1] <= o.rollback_rto
             /\ "crossed_point_of_no_return" \notin o.flags
                    \/ "reconciliation_plan_reviewed" \in o.flags
             /\ o.reviewed /\ o.secret_scan_matches = 0
<1> DEFINE C == DrillChecks(o)
<1>1. /\ DOMAIN C = {"postgres_recovery", "grafana_recovery", "cutover_approved",
                     "rollback_verified", "point_of_no_return_controlled",
                     "artifacts_reviewed_and_clean"}
      /\ C["postgres_recovery"] <=> service_passed(o, o.postgres, o.postgres_rto)
      /\ C["grafana_recovery"] <=> service_passed(o, o.grafana, o.grafana_rto)
      /\ C["cutover_approved"] <=> o.approved
      /\ C["rollback_verified"] <=>
           RollbackFlags \subseteq o.flags /\ o.rollback[2] - o.rollback[1] <= o.rollback_rto
      /\ C["point_of_no_return_controlled"] <=>
           "crossed_point_of_no_return" \notin o.flags \/ "reconciliation_plan_reviewed" \in o.flags
      /\ C["artifacts_reviewed_and_clean"] <=> o.reviewed /\ o.secret_scan_matches = 0
  BY DEF DrillChecks
<1> HIDE DEF C
<1>2. judge_drill(o) = "passed" <=> DrillParses(o) /\ \A c \in DOMAIN C : C[c]
  BY DEF judge_drill, C
<1> QED BY <1>1, <1>2

\* The observation, field by field.
LEMMA Fields ==
    ASSUME NEW D
    PROVE  LET o == DrillOf(D) IN
           /\ o.started_at = WindowStart(D) /\ o.completed_at = Completed(D) /\ o.checked_at = Checked(D)
           /\ o.postgres_rto = 10 /\ o.grafana_rto = 10 /\ o.rpo = 5
           /\ o.rollback_rto = RollbackRto(D)
           /\ o.postgres = ServiceOf("postgres", D) /\ o.grafana = ServiceOf("grafana", D)
           /\ o.cutover = Cutover(D) /\ o.approved = Approved(D) /\ o.rollback = Rollback(D)
           /\ o.flags = Flags(D) /\ o.reviewed = Reviewed(D)
           /\ o.secret_scan_matches = Matches(D)
  BY DEF DrillOf, Drill

\* A service of the observation, field by field.
LEMMA ServiceFields ==
    ASSUME NEW D, NEW name
    PROVE  LET s == ServiceOf(name, D) IN
           /\ s.timeline = Timeline(name, D) /\ s.backup_bytes = Bytes(name, D)
           /\ s.minimum_bytes = 10 /\ s.backup_seconds = 1 /\ s.restore_seconds = 1
           /\ s.recovery_seconds = Seconds(name, D) /\ s.observed_rpo = Rpo(name, D)
           /\ s.integrity_checks_passed = Integrity(name, D)
           /\ s.source_preserved = Preserved(name, D)
  BY DEF ServiceOf, Service

\* The drill at every limit passes.
LEMMA GoodDrillPasses == judge_drill(DrillOf({})) = "passed"
<1> DEFINE o == DrillOf({})
<1>1. ASSUME NEW name
      PROVE  /\ ServiceOf(name, {}).timeline = <<1, 2, 3, 4>>
             /\ ServiceOf(name, {}).backup_bytes = 10 /\ ServiceOf(name, {}).minimum_bytes = 10
             /\ ServiceOf(name, {}).backup_seconds = 1 /\ ServiceOf(name, {}).restore_seconds = 1
             /\ ServiceOf(name, {}).recovery_seconds = 10 /\ ServiceOf(name, {}).observed_rpo = 5
             /\ ServiceOf(name, {}).integrity_checks_passed
             /\ ServiceOf(name, {}).source_preserved
  <2>1. /\ Timeline(name, {}) = <<1, 2, 3, 4>> /\ Bytes(name, {}) = 10
        /\ Seconds(name, {}) = 10 /\ Rpo(name, {}) = 5
    BY DEF Timeline, Bytes, Seconds, Rpo
  <2>2. Integrity(name, {}) /\ Preserved(name, {})
    BY DEF Integrity, Preserved
  <2> QED BY <2>1, <2>2, ServiceFields
<1>2. /\ o.started_at = 1 /\ o.completed_at = 11 /\ o.checked_at = 11
      /\ o.postgres_rto = 10 /\ o.grafana_rto = 10 /\ o.rpo = 5 /\ o.rollback_rto = 3
      /\ o.postgres = ServiceOf("postgres", {}) /\ o.grafana = ServiceOf("grafana", {})
      /\ o.cutover = <<5, 6, 7>> /\ o.approved /\ o.rollback = <<8, 11>>
      /\ o.reviewed /\ o.secret_scan_matches = 0
  <2>1. /\ WindowStart({}) = 1 /\ Cutover({}) = <<5, 6, 7>>
        /\ Completed({}) = 11 /\ Checked({}) = 11 /\ RollbackRto({}) = 3
        /\ Rollback({}) = <<8, 11>> /\ Matches({}) = 0
    BY DEF WindowStart, Cutover, Completed, Checked, RollbackRto, Rollback, Matches
  <2>2. Approved({}) /\ Reviewed({})
    BY DEF Approved, Reviewed
  <2>3. /\ o.started_at = 1 /\ o.completed_at = 11 /\ o.checked_at = 11
        /\ o.postgres_rto = 10 /\ o.grafana_rto = 10 /\ o.rpo = 5 /\ o.rollback_rto = 3
        /\ o.postgres = ServiceOf("postgres", {}) /\ o.grafana = ServiceOf("grafana", {})
        /\ o.cutover = <<5, 6, 7>> /\ o.rollback = <<8, 11>> /\ o.secret_scan_matches = 0
    BY <2>1, Fields
  <2>4. o.approved = Approved({}) /\ o.reviewed = Reviewed({})
    BY Fields
  <2>5. o.approved /\ o.reviewed
    BY <2>2, <2>4, Zenon
  <2> QED BY <2>3, <2>5
<1>3. o.flags = RollbackFlags
  <2>1. Flags({}) = RollbackFlags
    BY DEF Flags
  <2> QED BY <2>1, Fields
<1> HIDE DEF o
<1>4. Chronological(<<1, 2, 3, 4>>) /\ Chronological(<<5, 6, 7>>) /\ Chronological(<<8, 11>>)
  BY DEF Chronological
<1>5. ServiceParses(o.postgres) /\ ServiceParses(o.grafana)
  BY <1>1, <1>2, <1>4 DEF ServiceParses
<1>6. \A t \in AllTimes(o) : 1 <= t /\ t <= 11
  <2>1. AllTimes(o) = ({<<1, 2, 3, 4>>[i] : i \in DOMAIN <<1, 2, 3, 4>>}
                        \cup {<<1, 2, 3, 4>>[i] : i \in DOMAIN <<1, 2, 3, 4>>}
                        \cup {<<5, 6, 7>>[i] : i \in DOMAIN <<5, 6, 7>>})
                       \cup {<<8, 11>>[i] : i \in DOMAIN <<8, 11>>}
    BY <1>1, <1>2 DEF AllTimes
  <2> QED BY <2>1
<1>7. DrillParses(o)
  BY <1>2, <1>4, <1>5, <1>6 DEF DrillParses
<1>8. service_passed(o, o.postgres, o.postgres_rto) /\ service_passed(o, o.grafana, o.grafana_rto)
  BY <1>1, <1>2 DEF service_passed
<1>9. "crossed_point_of_no_return" \notin RollbackFlags
  BY DEF RollbackFlags
<1>10. o.rollback[2] - o.rollback[1] <= o.rollback_rto
  BY <1>2
<1> QED BY <1>2, <1>3, <1>7, <1>8, <1>9, <1>10, PassedMeans DEF o

\* A service with a defect does not pass.
LEMMA BadServiceFails ==
    ASSUME NEW D, NEW name, NEW x \in ServiceDefects, <<name, x>> \in D
    PROVE  \/ ~ServiceParses(ServiceOf(name, D))
           \/ \A o : o.rpo = 5 => ~service_passed(o, ServiceOf(name, D), 10)
<1>1. CASE x = "disordered"
  <2>1. ServiceOf(name, D).timeline = <<1, 4, 3, 4>>
    BY <1>1, ServiceFields DEF Timeline
  <2>2. ~Chronological(<<1, 4, 3, 4>>)
    <3>1. 2 \in 1 .. Len(<<1, 4, 3, 4>>) - 1 /\ ~(<<1, 4, 3, 4>>[2] <= <<1, 4, 3, 4>>[2 + 1])
      OBVIOUS
    <3> QED BY <3>1 DEF Chronological
  <2> QED BY <2>1, <2>2 DEF ServiceParses
<1>2. CASE x = "small"
  BY <1>2, ServiceFields DEF Bytes, service_passed
<1>3. CASE x = "slow"
  BY <1>3, ServiceFields DEF Seconds, service_passed
<1>4. CASE x = "stale"
  BY <1>4, ServiceFields DEF Rpo, service_passed
<1>5. CASE x = "corrupt"
  BY <1>5, ServiceFields DEF Integrity, service_passed
<1>6. CASE x = "source_lost"
  BY <1>6, ServiceFields DEF Preserved, service_passed
<1> QED BY <1>1, <1>2, <1>3, <1>4, <1>5, <1>6 DEF ServiceDefects

\* A drill with a defect does not pass, whatever other defects it has.
LEMMA BadDrillFails ==
    ASSUME NEW D, NEW d \in DrillDefects, d \in D
    PROVE  judge_drill(DrillOf(D)) # "passed"
<1> SUFFICES ASSUME judge_drill(DrillOf(D)) = "passed" PROVE FALSE
  OBVIOUS
<1> DEFINE o == DrillOf(D)
<1>1. /\ DrillParses(o)
      /\ service_passed(o, o.postgres, o.postgres_rto)
      /\ service_passed(o, o.grafana, o.grafana_rto)
      /\ o.approved
      /\ RollbackFlags \subseteq o.flags
      /\ o.rollback[2] - o.rollback[1] <= o.rollback_rto
      /\ "crossed_point_of_no_return" \notin o.flags
             \/ "reconciliation_plan_reviewed" \in o.flags
      /\ o.reviewed /\ o.secret_scan_matches = 0
  BY PassedMeans
<1>2. /\ o.started_at = WindowStart(D) /\ o.completed_at = Completed(D) /\ o.checked_at = Checked(D)
      /\ o.postgres_rto = 10 /\ o.grafana_rto = 10 /\ o.rpo = 5
      /\ o.rollback_rto = RollbackRto(D)
      /\ o.postgres = ServiceOf("postgres", D) /\ o.grafana = ServiceOf("grafana", D)
      /\ o.cutover = Cutover(D) /\ o.approved = Approved(D) /\ o.rollback = Rollback(D)
      /\ o.flags = Flags(D) /\ o.reviewed = Reviewed(D)
      /\ o.secret_scan_matches = Matches(D)
  BY Fields
<1> HIDE DEF o
<1>3. ASSUME NEW name \in {"postgres", "grafana"}, NEW x \in ServiceDefects, d = <<name, x>>
      PROVE  FALSE
  <2>1. ServiceParses(ServiceOf(name, D)) /\ service_passed(o, ServiceOf(name, D), 10)
    BY <1>1, <1>2, <1>3 DEF DrillParses
  <2> QED BY <1>2, <1>3, <2>1, BadServiceFails
<1>4. ASSUME NEW x \in RollbackFlags, d = <<"flag", x>>
      PROVE  FALSE
  <2>1. x \notin Flags(D)
    BY <1>4 DEF Flags, RollbackFlags
  <2> QED BY <1>1, <1>2, <1>4, <2>1
\* The rollback begins after the cutover, so it was not moved.
<1>5. Rollback(D) = <<8, 11>> /\ <<"drill", "early_rollback">> \notin D
  <2>1. o.cutover[3] = 7
    BY <1>2 DEF Cutover
  <2>2. o.rollback[1] >= 7
    BY <1>1, <2>1 DEF DrillParses
  <2> QED BY <1>2, <2>2 DEF Rollback
<1>6. CASE d = <<"drill", "late">>
  <2>1. o.completed_at = 10
    BY <1>2, <1>6 DEF Completed
  <2>2. 11 \in AllTimes(o)
    BY <1>2, <1>5 DEF AllTimes
  <2> QED BY <1>1, <2>1, <2>2 DEF DrillParses
<1>7. CASE d = <<"drill", "early_rollback">>
  BY <1>5, <1>7
<1>8. CASE d = <<"drill", "unapproved">>
  BY <1>1, <1>2, <1>8 DEF Approved
<1>9. CASE d = <<"drill", "long_rollback">>
  <2>1. o.rollback_rto = 2
    BY <1>2, <1>9 DEF RollbackRto
  <2>2. o.rollback[2] - o.rollback[1] = 3
    BY <1>2, <1>5
  <2> QED BY <1>1, <2>1, <2>2
<1>10. CASE d = <<"drill", "crossed">>
  <2>1. "crossed_point_of_no_return" \in Flags(D)
    BY <1>10 DEF Flags
  <2>2. "reconciliation_plan_reviewed" \notin Flags(D)
    BY DEF Flags, RollbackFlags
  <2> QED BY <1>1, <1>2, <2>1, <2>2
<1>11. CASE d = <<"drill", "unreviewed">>
  BY <1>1, <1>2, <1>11 DEF Reviewed
<1>12. CASE d = <<"drill", "secret">>
  BY <1>1, <1>2, <1>12 DEF Matches
<1>13. CASE d = <<"drill", "future">>
  <2>1. o.checked_at = 10
    BY <1>2, <1>13 DEF Checked
  <2>2. 11 \in AllTimes(o)
    BY <1>2, <1>5 DEF AllTimes
  <2>3. 11 <= o.completed_at /\ o.completed_at <= o.checked_at
    BY <1>1, <2>2 DEF DrillParses
  <2>4. o.completed_at \in {10, 11}
    BY <1>2 DEF Completed
  <2> QED BY <2>1, <2>3, <2>4
<1>14. CASE d = <<"drill", "early">>
  <2>1. o.started_at = 2
    BY <1>2, <1>14 DEF WindowStart
  <2>2. 1 \in DOMAIN Timeline("postgres", D) /\ Timeline("postgres", D)[1] = 1
    BY DEF Timeline
  <2>3. o.postgres.timeline = Timeline("postgres", D)
    BY <1>2, ServiceFields
  <2>4. 1 \in AllTimes(o)
    BY <2>2, <2>3 DEF AllTimes
  <2> QED BY <1>1, <2>1, <2>4 DEF DrillParses
<1>15. CASE d = <<"drill", "late_approval">>
  <2>1. o.cutover = <<7, 6, 7>>
    BY <1>2, <1>15 DEF Cutover
  <2>2. ~Chronological(<<7, 6, 7>>)
    <3>1. 1 \in 1 .. Len(<<7, 6, 7>>) - 1 /\ ~(<<7, 6, 7>>[1] <= <<7, 6, 7>>[1 + 1])
      OBVIOUS
    <3> QED BY <3>1 DEF Chronological
  <2> QED BY <1>1, <2>1, <2>2 DEF DrillParses
<1> QED BY <1>3, <1>4, <1>6, <1>7, <1>8, <1>9, <1>10, <1>11, <1>12, <1>13, <1>14, <1>15
        DEF DrillDefects

\* The drill at every limit is the one without a defect.
LEMMA RecoveryInitInv == RecoveryInit => RecoveryInv
<1>1. ServiceOf("postgres", {}) = GoodService /\ ServiceOf("grafana", {}) = GoodService
  BY DEF ServiceOf, Service, GoodService, Timeline, Bytes, Seconds, Rpo, Integrity, Preserved
<1>2. Flags({}) = RollbackFlags
  BY DEF Flags
<1>3. DrillOf({}) = GoodDrill
  BY <1>1, <1>2 DEF DrillOf, Drill, GoodDrill, WindowStart, Cutover, Completed, Checked, RollbackRto, Approved, Rollback,
              Reviewed, Matches
<1> QED BY <1>3 DEF RecoveryInit, RecoveryInv

\* Every step keeps the observation that of the defects, whatever their order.
LEMMA RecoveryNextInv == RecoveryInv /\ [RecoveryNext]_recoveryVars => RecoveryInv'
<1> SUFFICES ASSUME RecoveryInv, [RecoveryNext]_recoveryVars PROVE RecoveryInv'
  OBVIOUS
<1>1. CASE UNCHANGED recoveryVars
  BY <1>1 DEF RecoveryInv, recoveryVars
<1>2. ASSUME NEW d \in DrillDefects, GoesWrong(d)
      PROVE  RecoveryInv'
  BY <1>2, SpoiledDrillOf DEF GoesWrong, RecoveryInv
<1>3. CASE Compile
  BY <1>3 DEF Compile, RecoveryInv
<1> QED BY <1>1, <1>2, <1>3 DEF RecoveryNext

(***************************************************************************)
(* A recovery drill that just meets every objective passes, and no defect  *)
(* lets another one pass unnoticed, for every combination of defects in    *)
(* every order: what is written down depends on which defects occurred,    *)
(* not on their order, and each of them alone fails a comparison that the  *)
(* others cannot repair.                                                   *)
(***************************************************************************)
THEOREM NoDefectIsMaskedCorrect == RecoverySpec => []NoDefectIsMasked
<1>1. RecoveryInit => RecoveryInv
  BY RecoveryInitInv
<1>2. RecoveryInv /\ [RecoveryNext]_recoveryVars => RecoveryInv'
  BY RecoveryNextInv
<1>3. RecoveryInv => NoDefectIsMasked
  <2> SUFFICES ASSUME RecoveryInv, judgement # "none"
               PROVE  judgement = "passed" <=> defects = {}
    BY DEF NoDefectIsMasked
  <2>1. judgement = judge_drill(DrillOf(defects)) /\ defects \subseteq DrillDefects
    BY DEF RecoveryInv
  <2>2. CASE defects = {}
    BY <2>1, <2>2, GoodDrillPasses
  <2>3. CASE defects # {}
    BY <2>1, <2>3, BadDrillFails
  <2> QED BY <2>2, <2>3
<1> QED BY <1>1, <1>2, <1>3, PTL DEF RecoverySpec
=============================================================================
