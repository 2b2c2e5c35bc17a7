------------------------------ MODULE Exposition ------------------------------
(***************************************************************************)
(* GetMetricFamilies and GetMetricFamiliesMap, and what they share with    *)
(* the store.  Both hand out pointers to stored metric families, while the *)
(* store's goroutine goes on changing its maps in place; and a push is     *)
(* tried on maps that point to the same families.  So here, unlike in      *)
(* MetricGroups, families and maps are objects on a heap: a pointer is an  *)
(* index of `families', and a map is known by the generation in which it   *)
(* was made and its grouping key.                                          *)
(*                                                                         *)
(* A family is [name, help, samples]; a sample is the pointer of the       *)
(* family it was pushed with.  Labels, types and values are left out: the  *)
(* verdict on a push is open.  Of the two push metrics only                *)
(* push_failure_time_seconds is kept.                                      *)
(***************************************************************************)
EXTENDS Naturals, Sequences, FiniteSets, Functions, SequencesExt

CONSTANTS
  Keys,           \* grouping keys
  Names,          \* names of metric families
  predefinedHelp, \* those that have a predefined help string
  Pushes,         \* write requests other than deletes
  Readers,        \* goroutines that gather or take a snapshot
  Check,          \* the gathering of the store's own check
  MaxPushes,      \* bound: pushes
  MaxReads        \* bound: gatherings and snapshots of all readers

pushFailedMetricName == "push_failure_time_seconds"

\* A help string is the predefined one of its name, or another.
Helps == {"standard", "other"}

ASSUME NamesAssumption ==
  /\ IsFiniteSet(Names)
  /\ pushFailedMetricName \in Names
  /\ predefinedHelp \subseteq Names
  /\ Check \notin Readers
\* A push: the names of its families, the help string of all of them, whether
\* there are timestamps in it, and whether it has a Done channel.
ASSUME PushesAssumption ==
  Pushes \subseteq [key : Keys, names : SUBSET (Names \ {pushFailedMetricName}),
                    help : Helps, replace : BOOLEAN, stamped : BOOLEAN,
                    checked : BOOLEAN]
ASSUME BoundsAssumption == MaxPushes \in Nat /\ MaxReads \in Nat

VARIABLES
  families,    \* heap of metric families
  maps,        \* heap of maps from names to pointers
  generation,  \* number of times maps were made
  groups,      \* dms.metricGroups: a map for each key
  loop,        \* the store's goroutine: select, check, apply, fail, and its request
  gatherer,    \* what each gathering does: idle, gather, done, snapshot
  original,    \* history: each family as it was when it was made
  pushes,      \* number of pushes so far
  reads        \* number of reads so far

heap   == <<families, maps, generation, original>>
counts == <<pushes, reads>>
vars   == <<heap, groups, loop, gatherer, counts>>

Gatherers == Readers \cup {Check}

Waiting == [at |-> "select"]
Idle    == [at |-> "idle"]

Init ==
  /\ families = <<>> /\ original = <<>>
  /\ maps = [m \in {} |-> m] /\ generation = 0
  /\ groups = [k \in {} |-> k]
  /\ loop = Waiting
  /\ gatherer = [g \in Gatherers |-> Idle]
  /\ pushes = 0 /\ reads = 0

\* f, with g's values where g is defined.
Overridden(f, g) ==
  [x \in DOMAIN f \cup DOMAIN g |-> IF x \in DOMAIN g THEN g[x] ELSE f[x]]

\* What gs holds: by key and name, a pointer.
Contents(gs) == [k \in DOMAIN gs |-> maps[gs[k]]]

Pairs(gs) ==
  {pair \in Keys \X Names :
     pair[1] \in DOMAIN gs /\ pair[2] \in DOMAIN maps[gs[pair[1]]]}

\* The samples stored in gs under each name.
Samples(gs) ==
  [n \in {pair[2] : pair \in Pairs(gs)} |->
    UNION {ToSet(families[maps[gs[k]][n]].samples) :
             k \in {l \in DOMAIN gs : n \in DOMAIN maps[gs[l]]}}]

\* The maps of the next generation, for these keys.
Fresh(keys) == [k \in keys |-> <<generation + 1, k>>]

NewFamily(name, help, pointer) == [name |-> name, help |-> help, samples |-> <<pointer>>]

Allocate(new) == families' = families \o new /\ original' = original \o new

\* Mutated form: the write lock is not taken.
NoLock == TRUE

\* No reader holds the read lock.  The loop never takes the lock twice.
CanLock == \A r \in Readers : gatherer[r].at # "gather"

-----------------------------------------------------------------------------
(* Copies of the maps.                                                     *)

\* Mutated form: the inner maps are shared with the store.
MapOfGroups(keys) == [k \in keys |-> groups[k]]

\* GetMetricFamiliesMap: fresh maps that point to the same families.
GetMetricFamiliesMap(keys) == Fresh(keys)

\* The heap of maps with the copies in it.
MapsWith(copy) ==
  Overridden(maps, [m \in Range(copy) |-> maps[groups[m[2]]]])

TakeSnapshot(r) ==
  /\ reads < MaxReads /\ reads' = reads + 1
  /\ gatherer[r] = Idle
  /\ LET copy == GetMetricFamiliesMap(DOMAIN groups) IN
     /\ maps' = MapsWith(copy)
     /\ gatherer' = [gatherer EXCEPT ![r] =
                       [at |-> "snapshot", copy |-> copy, expected |-> Contents(groups)]]
  /\ generation' = generation + 1
  /\ UNCHANGED <<families, original, groups, loop, pushes>>

-----------------------------------------------------------------------------
(* GetMetricFamilies, one stored family at a time, in any order.           *)

\* With the read lock; expected is what the result should amount to.
Gathering(gs, samples) ==
  [at |-> "gather", source |-> gs, todo |-> Pairs(gs), result |-> <<>>,
   mfStatByName |-> [n \in {} |-> n], expected |-> samples]

GetMetricFamilies(r) ==
  /\ reads < MaxReads /\ reads' = reads + 1
  /\ gatherer[r] = Idle
  /\ gatherer' = [gatherer EXCEPT ![r] = Gathering(groups, Samples(groups))]
  /\ UNCHANGED <<heap, groups, loop, pushes>>

\* The gathering has come to a pair, with this result and these notes on the name.
Visited(g, pair, result, stat) ==
  gatherer' = [gatherer EXCEPT
    ![g].todo = @ \ {pair},
    ![g].result = result,
    ![g].mfStatByName = Overridden(@, [n \in {pair[2]} |-> stat])]

\* The first family of a name is taken over as it is, unless its help must be set.
AddFamily(g, pair) ==
  LET name == pair[2]
      p    == maps[gatherer[g].source[pair[1]]][name]
      pos  == Len(gatherer[g].result) + 1
  IN  /\ name \notin DOMAIN gatherer[g].mfStatByName
      /\ IF name \in predefinedHelp /\ families[p].help # "standard"
           THEN /\ Allocate(<<[families[p] EXCEPT !.help = "standard"]>>)
                /\ Visited(g, pair, Append(gatherer[g].result, Len(families) + 1),
                           [pos |-> pos, copied |-> TRUE])
           ELSE /\ UNCHANGED <<families, original>>
                /\ Visited(g, pair, Append(gatherer[g].result, p),
                           [pos |-> pos, copied |-> FALSE])

\* Mutated forms: the copy is not put into the result; there is no copy.
MergeAside(g, pair) ==
  LET name == pair[2]
      p    == maps[gatherer[g].source[pair[1]]][name]
      stat == gatherer[g].mfStatByName[name]
      old  == gatherer[g].result[stat.pos]
      all  == [families[old] EXCEPT !.samples = @ \o families[p].samples]
  IN  /\ name \in DOMAIN gatherer[g].mfStatByName
      /\ Allocate(<<all>>)
      /\ Visited(g, pair, gatherer[g].result, stat)

MergeInPlace(g, pair) ==
  LET name == pair[2]
      p    == maps[gatherer[g].source[pair[1]]][name]
      stat == gatherer[g].mfStatByName[name]
      old  == gatherer[g].result[stat.pos]
  IN  /\ name \in DOMAIN gatherer[g].mfStatByName
      /\ families' = [families EXCEPT ![old].samples = @ \o families[p].samples]
      /\ UNCHANGED original
      /\ Visited(g, pair, gatherer[g].result, stat)

\* Further families of the name are merged into the one in the result, which is
\* copied before if it may be a stored one.
MergeFamily(g, pair) ==
  LET name == pair[2]
      p    == maps[gatherer[g].source[pair[1]]][name]
      stat == gatherer[g].mfStatByName[name]
      old  == gatherer[g].result[stat.pos]
      all  == [families[old] EXCEPT !.samples = @ \o families[p].samples]
  IN  /\ name \in DOMAIN gatherer[g].mfStatByName
      /\ IF stat.copied
           THEN /\ families' = [families EXCEPT ![old] = all]
                /\ UNCHANGED original
                /\ Visited(g, pair, gatherer[g].result, stat)
           ELSE /\ Allocate(<<all>>)
                /\ Visited(g, pair,
                           [gatherer[g].result EXCEPT ![stat.pos] = Len(families) + 1],
                           [stat EXCEPT !.copied = TRUE])

\* The pairs that may be visited next: a group once begun is finished first.
Upcoming(g) ==
  LET begun   == {pair[1] : pair \in Pairs(gatherer[g].source) \ gatherer[g].todo}
      ongoing == {pair \in gatherer[g].todo : pair[1] \in begun}
  IN  IF ongoing = {} THEN gatherer[g].todo ELSE ongoing

\* (A missing family, which the code logs and skips, comes of a damaged file only.)
VisitFamily(g) ==
  /\ gatherer[g].at = "gather"
  /\ \E pair \in Upcoming(g) : AddFamily(g, pair) \/ MergeFamily(g, pair)
  /\ UNCHANGED <<maps, generation, groups, loop, counts>>

\* The lock is released, the result stays in use.
ReturnFamilies(g) ==
  /\ gatherer[g].at = "gather" /\ gatherer[g].todo = {}
  /\ gatherer' = [gatherer EXCEPT ![g] =
                    [at |-> "done", result |-> @.result, expected |-> @.expected]]
  /\ UNCHANGED <<heap, groups, loop, counts>>

\* A reader is done with what it has got.
Forget(r) ==
  /\ gatherer[r].at \in {"done", "snapshot"}
  /\ gatherer' = [gatherer EXCEPT ![r] = Idle]
  /\ UNCHANGED <<heap, groups, loop, counts>>

-----------------------------------------------------------------------------
(* The store's goroutine.                                                  *)

\* What a push makes of the metrics of its group.
Processed(metrics, request) ==
  LET kept == IF request.replace
                THEN Restrict(metrics, DOMAIN metrics \cap {pushFailedMetricName})
                ELSE metrics
      pushed == IF pushFailedMetricName \in DOMAIN metrics THEN request.metrics
                ELSE Overridden(request.metrics,
                                [n \in {pushFailedMetricName} |-> request.neverFailed])
  IN  Overridden(kept, pushed)

\* gs with a map for the key, if it had none.
WithGroup(gs, key) == IF key \in DOMAIN gs THEN gs ELSE Overridden(gs, Fresh({key}))

\* The metrics of a group; none if there is no such group.
MetricsOf(key) == IF key \in DOMAIN groups THEN maps[groups[key]] ELSE [n \in {} |-> n]

\* A push arrives: its families, and the zero failure time that it may add, are
\* new.  Without timestamps and Done channel it is accepted as it is.
ReceivePush(push) ==
  LET order   == SetToSeq(push.names)
      zero    == Len(families) + Len(order) + 1
      request == [key         |-> push.key,
                  metrics     |-> [n \in push.names |->
                                     Len(families) + CHOOSE i \in DOMAIN order : order[i] = n],
                  neverFailed |-> zero,
                  replace     |-> push.replace]
  IN  /\ loop = Waiting
      /\ pushes < MaxPushes /\ pushes' = pushes + 1
      /\ Allocate([i \in DOMAIN order |->
                      NewFamily(order[i], push.help, Len(families) + i)]
                    \o <<NewFamily(pushFailedMetricName, "standard", zero)>>)
      /\ loop' = [at      |-> IF push.stamped THEN "fail"
                             ELSE IF push.checked THEN "test" ELSE "apply",
                  request |-> request]
      /\ UNCHANGED <<maps, generation, groups, gatherer, reads>>

\* checkWriteRequest: the request is processed on a copy of the groups.
CheckWriteRequest ==
  /\ loop.at = "test"
  /\ LET key   == loop.request.key
         copy  == GetMetricFamiliesMap(DOMAIN groups)
         trial == WithGroup(copy, key)
     IN  /\ maps' = [m \in DOMAIN MapsWith(copy) \cup {trial[key]} |->
                       IF m = trial[key] THEN Processed(MetricsOf(key), loop.request)
                       ELSE MapsWith(copy)[m]]
         /\ loop' = [at |-> "check", request |-> loop.request, trial |-> trial]
  /\ generation' = generation + 1
  /\ UNCHANGED <<families, original, groups, gatherer, counts>>

\* The copy has a lock of its own.
GatherTrial ==
  /\ loop.at = "check" /\ gatherer[Check] = Idle
  /\ gatherer' = [gatherer EXCEPT ![Check] = Gathering(loop.trial, Samples(loop.trial))]
  /\ UNCHANGED <<heap, groups, loop, counts>>

Verdict ==
  /\ loop.at = "check" /\ gatherer[Check].at = "done"
  /\ \E verdict \in {"apply", "fail"} : loop' = [at |-> verdict, request |-> loop.request]
  /\ gatherer' = [gatherer EXCEPT ![Check] = Idle]
  /\ UNCHANGED <<heap, groups, counts>>

\* The metrics of the group of a key become these, in place if there is a group.
UpdateGroup(key, metrics) ==
  /\ groups' = WithGroup(groups, key)
  /\ maps' = Overridden(maps, [m \in {groups'[key]} |-> metrics])
  /\ generation' = IF key \in DOMAIN groups THEN generation ELSE generation + 1

ProcessWriteRequest ==
  /\ loop.at = "apply" /\ CanLock
  /\ UpdateGroup(loop.request.key, Processed(MetricsOf(loop.request.key), loop.request))
  /\ loop' = Waiting
  /\ UNCHANGED <<families, original, gatherer, counts>>

SetPushFailedTimestamp ==
  LET key == loop.request.key
      p   == Len(families) + 1
  IN  /\ loop.at = "fail" /\ CanLock
      /\ Allocate(<<NewFamily(pushFailedMetricName, "standard", p)>>)
      /\ UpdateGroup(key, Overridden(MetricsOf(key), [n \in {pushFailedMetricName} |-> p]))
      /\ loop' = Waiting
      /\ UNCHANGED <<gatherer, counts>>

\* A delete request is received and processed.
Delete(key) ==
  /\ loop = Waiting /\ CanLock
  /\ key \in DOMAIN groups
  /\ groups' = Restrict(groups, DOMAIN groups \ {key})
  /\ UNCHANGED <<heap, loop, gatherer, counts>>

-----------------------------------------------------------------------------

Next ==
  \/ \E push \in Pushes : ReceivePush(push)
  \/ CheckWriteRequest
  \/ GatherTrial
  \/ Verdict
  \/ ProcessWriteRequest
  \/ SetPushFailedTimestamp
  \/ \E key \in Keys : Delete(key)
  \/ \E r \in Readers : TakeSnapshot(r) \/ GetMetricFamilies(r) \/ Forget(r)
  \/ \E g \in Gatherers : VisitFamily(g) \/ ReturnFamilies(g)

Spec == Init /\ [][Next]_vars

-----------------------------------------------------------------------------
(* Properties.                                                             *)

Pointers == 1 .. Len(families)

\* Types.  Of a gathering under way, what it has still to visit is still there:
\* the read lock keeps the loop out, and nobody else changes a copy.
TypeOK ==
  /\ \A p \in Pointers : /\ families[p].name \in Names
                         /\ families[p].help \in Helps
                         /\ ToSet(families[p].samples) \subseteq Pointers
  /\ Len(original) = Len(families)
  /\ \A m \in DOMAIN maps : /\ m \in (1 .. generation) \X Keys
                           /\ DOMAIN maps[m] \subseteq Names
                           /\ \A n \in DOMAIN maps[m] :
                                maps[m][n] \in Pointers /\ families[maps[m][n]].name = n
  /\ DOMAIN groups \subseteq Keys /\ Range(groups) \subseteq DOMAIN maps
  /\ loop.at \in {"select", "test", "check", "apply", "fail"}
  /\ \A g \in Gatherers :
       /\ gatherer[g].at \in {"idle", "gather", "done", "snapshot"}
       /\ gatherer[g].at = "gather" => gatherer[g].todo \subseteq Pairs(gatherer[g].source)
  /\ pushes \in 0 .. MaxPushes /\ reads \in 0 .. MaxReads

\* A stored family stays as it was pushed: merging the families of several
\* groups, and setting a help string, happen on copies, in scrapes as in checks.
StoredUnchanged ==
  \A k \in DOMAIN groups, n \in Names :
    n \in DOMAIN maps[groups[k]] =>
      families[maps[groups[k]][n]] = original[maps[groups[k]][n]]

\* What GetMetricFamilies has returned has each name once, with every sample
\* that was stored when it began, none twice, and the predefined help string;
\* and it stays so while pushes, deletes and other gatherings go on.
GatheredFaithful ==
  \A g \in Gatherers : gatherer[g].at = "done" =>
    LET result == [i \in DOMAIN gatherer[g].result |-> families[gatherer[g].result[i]]]
    IN  /\ IsInjective([i \in DOMAIN result |-> result[i].name])
        /\ {mf.name : mf \in Range(result)} = DOMAIN gatherer[g].expected
        /\ \A mf \in Range(result) :
             /\ ToSet(mf.samples) = gatherer[g].expected[mf.name]
             /\ IsInjective(mf.samples)
             /\ mf.name \in predefinedHelp => mf.help = "standard"

\* What GetMetricFamiliesMap has returned stays as it is, whatever the store
\* does with its own maps meanwhile.
SnapshotStable ==
  \A r \in Readers : gatherer[r].at = "snapshot" =>
    [k \in DOMAIN gatherer[r].copy |-> maps[gatherer[r].copy[k]]] = gatherer[r].expected

\* "The dms is not modified by the check": neither the trial nor its gathering
\* changes what any group holds.
CheckIsDry ==
  [][loop.at \in {"test", "check"} => Contents(groups)' = Contents(groups)]_vars

=============================================================================
