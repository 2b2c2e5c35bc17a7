-------------------------- MODULE ExpositionProofs --------------------------
(***************************************************************************)
(* Proofs about Exposition, for any keys, names, pushes, readers and       *)
(* bounds: what is stored and what was handed out stays as it is.          *)
(***************************************************************************)
EXTENDS Exposition, FiniteSetTheorems, SequenceTheorems, TLAPS

-----------------------------------------------------------------------------
(* What a sequence of elements of S has at its places is in S.             *)

LEMMA ElementOf ==
  ASSUME NEW S, NEW s \in Seq(S), NEW i \in 1 .. Len(s)
  PROVE  s[i] \in S
OBVIOUS

-----------------------------------------------------------------------------
(* Types, as predicates on the parts of the state.                         *)

Family == [name : Names, help : Helps, samples : Seq(Nat)]

\* A heap fs of families, of which os keeps the originals.
FamiliesOK(fs, os) ==
  /\ fs \in Seq(Family) /\ os \in Seq(Family) /\ Len(os) = Len(fs)
  /\ \A p \in 1 .. Len(fs) : \A i \in DOMAIN fs[p].samples :
       fs[p].samples[i] \in 1 .. Len(fs)

PointsTo(fs, p, name) == p \in 1 .. Len(fs) /\ fs[p].name = name

\* A map from names to families of these names.
MetricsOK(fs, metrics) ==
  /\ DOMAIN metrics \subseteq Names
  /\ \A n \in DOMAIN metrics : PointsTo(fs, metrics[n], n)

MapsOK(fs, ms, gen) ==
  /\ gen \in Nat
  /\ DOMAIN ms \subseteq (1 .. gen) \X Keys
  /\ \A m \in DOMAIN ms : MetricsOK(fs, ms[m])

GroupsOK(ms, gs) ==
  /\ DOMAIN gs \subseteq Keys
  /\ \A k \in DOMAIN gs : gs[k] \in DOMAIN ms

RequestOK(fs, request) ==
  /\ request.key \in Keys
  /\ MetricsOK(fs, request.metrics)
  /\ PointsTo(fs, request.neverFailed, pushFailedMetricName)

LoopOK(fs, ms, lp) ==
  /\ lp.at \in {"select", "test", "check", "apply", "fail"}
  /\ lp.at # "select" => RequestOK(fs, lp.request)
  /\ lp.at = "check" => GroupsOK(ms, lp.trial)

PairsIn(ms, gs) ==
  {pair \in Keys \X Names : pair[1] \in DOMAIN gs /\ pair[2] \in DOMAIN ms[gs[pair[1]]]}

\* A gathering under way.
ProgressOK(fs, ms, g) ==
  /\ DOMAIN g = {"at", "source", "todo", "result", "mfStatByName", "expected"}
  /\ GroupsOK(ms, g.source)
  /\ g.todo \subseteq PairsIn(ms, g.source)
  /\ g.result \in Seq(1 .. Len(fs))
  /\ \A n \in DOMAIN g.mfStatByName :
       /\ g.mfStatByName[n] \in [pos : 1 .. Len(g.result), copied : BOOLEAN]

GathererOK(fs, ms, g) ==
  /\ g.at \in {"idle", "gather", "done", "snapshot"}
  /\ g.at = "gather" => ProgressOK(fs, ms, g)

\* The locks: the check gathers only while the loop waits for it, and it has no
\* snapshots.
LockInv == gatherer[Check].at # "idle" => loop.at = "check"

TypeInv ==
  /\ FamiliesOK(families, original)
  /\ MapsOK(families, maps, generation)
  /\ GroupsOK(maps, groups)
  /\ LoopOK(families, maps, loop)
  /\ gatherer = [g \in Gatherers |-> gatherer[g]]
  /\ \A g \in Gatherers : GathererOK(families, maps, gatherer[g])
  /\ LockInv
  /\ pushes \in 0 .. MaxPushes /\ reads \in 0 .. MaxReads

LEMMA TypeInvSuffices == TypeInv => TypeOK
<1> SUFFICES ASSUME TypeInv PROVE TypeOK
  OBVIOUS
<1>1. ASSUME NEW p \in Pointers
      PROVE  /\ families[p].name \in Names
             /\ families[p].help \in Helps
             /\ ToSet(families[p].samples) \subseteq Pointers
  <2>1. families[p] \in Family
    BY DEF TypeInv, FamiliesOK, Pointers
  <2>2. ToSet(families[p].samples) \subseteq Pointers
    BY DEF TypeInv, FamiliesOK, Pointers, ToSet
  <2> QED
    BY <2>1, <2>2 DEF Family
<1>2. ASSUME NEW m \in DOMAIN maps
      PROVE  /\ m \in (1 .. generation) \X Keys
             /\ DOMAIN maps[m] \subseteq Names
             /\ \A n \in DOMAIN maps[m] :
                  maps[m][n] \in Pointers /\ families[maps[m][n]].name = n
  BY DEF TypeInv, MapsOK, MetricsOK, PointsTo, Pointers
<1>3. DOMAIN groups \subseteq Keys /\ Range(groups) \subseteq DOMAIN maps
  BY DEF TypeInv, GroupsOK, Range
<1>4. ASSUME NEW g \in Gatherers
      PROVE  /\ gatherer[g].at \in {"idle", "gather", "done", "snapshot"}
             /\ gatherer[g].at = "gather" => gatherer[g].todo \subseteq Pairs(gatherer[g].source)
  BY DEF TypeInv, GathererOK, ProgressOK, PairsIn, Pairs
<1>5. Len(original) = Len(families)
  BY DEF TypeInv, FamiliesOK
<1>6. /\ loop.at \in {"select", "test", "check", "apply", "fail"}
      /\ pushes \in 0 .. MaxPushes /\ reads \in 0 .. MaxReads
  BY DEF TypeInv, LoopOK
<1> QED
  BY <1>1, <1>2, <1>3, <1>4, <1>5, <1>6 DEF TypeOK

-----------------------------------------------------------------------------
(* The heap only grows.                                                    *)

\* Every family of fs is still there in gs, under its name.
Grown(fs, gs) ==
  /\ Len(fs) \in Nat /\ Len(gs) \in Nat /\ Len(fs) <= Len(gs)
  /\ \A p \in 1 .. Len(fs) : gs[p].name = fs[p].name

\* Every map of ms is still there in ns, with its contents.
Extended(ms, ns) == DOMAIN ms \subseteq DOMAIN ns /\ \A m \in DOMAIN ms : ns[m] = ms[m]

LEMMA MetricsGrown ==
  ASSUME NEW fs, NEW gs, Grown(fs, gs), NEW metrics, MetricsOK(fs, metrics)
  PROVE  MetricsOK(gs, metrics)
BY DEF Grown, MetricsOK, PointsTo

LEMMA MapsGrown ==
  ASSUME NEW fs, NEW gs, Grown(fs, gs), NEW ms, NEW gen, MapsOK(fs, ms, gen)
  PROVE  MapsOK(gs, ms, gen)
BY MetricsGrown DEF MapsOK

LEMMA LoopGrown ==
  ASSUME NEW fs, NEW gs, Grown(fs, gs), NEW ms, NEW lp, LoopOK(fs, ms, lp)
  PROVE  LoopOK(gs, ms, lp)
BY MetricsGrown DEF LoopOK, RequestOK, Grown, PointsTo

LEMMA GathererGrown ==
  ASSUME NEW fs, NEW gs, Grown(fs, gs), NEW ms, NEW g, GathererOK(fs, ms, g)
  PROVE  GathererOK(gs, ms, g)
<1>1. ASSUME NEW r \in Seq(1 .. Len(fs)) PROVE r \in Seq(1 .. Len(gs))
  BY DEF Grown
<1> QED
  BY <1>1 DEF GathererOK, ProgressOK

LEMMA GroupsExtended ==
  ASSUME NEW ms, NEW ns, Extended(ms, ns), NEW gs, GroupsOK(ms, gs)
  PROVE  GroupsOK(ns, gs)
BY DEF Extended, GroupsOK

LEMMA LoopExtended ==
  ASSUME NEW fs, NEW ms, NEW ns, Extended(ms, ns), NEW lp, LoopOK(fs, ms, lp)
  PROVE  LoopOK(fs, ns, lp)
BY GroupsExtended DEF LoopOK

LEMMA GathererExtended ==
  ASSUME NEW fs, NEW ms, NEW ns, Extended(ms, ns), NEW g, GathererOK(fs, ms, g)
  PROVE  GathererOK(fs, ns, g)
<1>1. ASSUME g.at = "gather" PROVE PairsIn(ns, g.source) = PairsIn(ms, g.source)
  BY <1>1 DEF Extended, GathererOK, ProgressOK, GroupsOK, PairsIn
<1> QED
  BY <1>1, GroupsExtended DEF GathererOK, ProgressOK

\* The samples of the families new are in the heap when new is added to fs.
Fit(fs, new) ==
  \A j \in 1 .. Len(new) : \A i \in DOMAIN new[j].samples :
    new[j].samples[i] \in 1 .. Len(fs) + Len(new)

\* The heap after families have been added.
LEMMA AddedFamilies ==
  ASSUME FamiliesOK(families, original), NEW new \in Seq(Family),
         Fit(families, new), Allocate(new)
  PROVE  /\ FamiliesOK(families', original')
         /\ Grown(families, families')
         /\ Len(families') = Len(families) + Len(new)
         /\ \A p \in 1 .. Len(families) :
              families'[p] = families[p] /\ original'[p] = original[p]
         /\ \A j \in 1 .. Len(new) :
              families'[Len(families) + j] = new[j] /\ original'[Len(families) + j] = new[j]
<1>1. /\ families \in Seq(Family) /\ original \in Seq(Family)
      /\ Len(original) = Len(families) /\ Len(families) \in Nat /\ Len(new) \in Nat
  BY DEF FamiliesOK
<1>2. families' = families \o new /\ original' = original \o new
  BY DEF Allocate
<1>3. /\ families' \in Seq(Family)
      /\ Len(families') = Len(families) + Len(new)
      /\ \A p \in 1 .. Len(families) + Len(new) :
           families'[p] = IF p <= Len(families) THEN families[p] ELSE new[p - Len(families)]
  BY <1>1, <1>2, ConcatProperties
<1>4. /\ original' \in Seq(Family)
      /\ Len(original') = Len(families) + Len(new)
      /\ \A p \in 1 .. Len(families) + Len(new) :
           original'[p] = IF p <= Len(families) THEN original[p] ELSE new[p - Len(families)]
  <2>1. /\ original' \in Seq(Family)
        /\ Len(original') = Len(original) + Len(new)
        /\ \A p \in 1 .. Len(original) + Len(new) :
             original'[p] = IF p <= Len(original) THEN original[p] ELSE new[p - Len(original)]
    BY <1>1, <1>2, ConcatProperties
  <2> QED
    BY <1>1, <2>1
<1>5. \A p \in 1 .. Len(families) :
        families'[p] = families[p] /\ original'[p] = original[p]
  BY <1>1, <1>3, <1>4
<1>6. \A j \in 1 .. Len(new) :
        families'[Len(families) + j] = new[j] /\ original'[Len(families) + j] = new[j]
  <2> TAKE j \in 1 .. Len(new)
  <2> PICK p : p = Len(families) + j
    OBVIOUS
  <2>1. p \in 1 .. Len(families) + Len(new) /\ ~ (p <= Len(families)) /\ p - Len(families) = j
    BY <1>1
  <2> QED
    BY <1>3, <1>4, <2>1
<1>7. ASSUME NEW p \in 1 .. Len(families'), NEW i \in DOMAIN families'[p].samples
      PROVE  families'[p].samples[i] \in 1 .. Len(families')
  <2>1. CASE p <= Len(families)
    <3>1. families'[p] = families[p] /\ p \in 1 .. Len(families)
      BY <1>1, <1>3, <2>1
    <3>2. families'[p].samples[i] \in 1 .. Len(families)
      BY <1>7, <3>1 DEF FamiliesOK
    <3> QED
      BY <1>1, <1>3, <3>2
  <2>2. CASE p > Len(families)
    <3> PICK j : j = p - Len(families)
      OBVIOUS
    <3>1. j \in 1 .. Len(new) /\ families'[p] = new[j]
      BY <1>1, <1>3, <2>2
    <3> QED
      BY <1>1, <1>3, <1>7, <3>1 DEF Fit
  <2> QED
    BY <1>1, <1>3, <2>1, <2>2
<1>8. FamiliesOK(families', original')
  BY <1>1, <1>3, <1>4, <1>7 DEF FamiliesOK
<1>9. Grown(families, families')
  BY <1>1, <1>3, <1>5 DEF Grown
<1> QED
  BY <1>3, <1>5, <1>6, <1>8, <1>9

-----------------------------------------------------------------------------
(* Maps.                                                                   *)

\* A sequence of the elements of a finite set has each of them once.
LEMMA SetToSeqBijective ==
  ASSUME NEW S, IsFiniteSet(S)
  PROVE  /\ SetToSeq(S) \in Seq(S)
         /\ \A x \in S : \E i \in DOMAIN SetToSeq(S) : SetToSeq(S)[i] = x
<1> DEFINE n == Cardinality(S)
<1>1. n \in Nat /\ ExistsBijection(1 .. n, S)
  BY FS_CardinalityType
<1>2. \E f \in [1 .. n -> S] : IsInjective(f)
  BY <1>1 DEF ExistsBijection, Bijection, Injection
<1>3. SetToSeq(S) \in [1 .. n -> S] /\ IsInjective(SetToSeq(S))
  BY <1>2 DEF SetToSeq
<1>4. SetToSeq(S) \in Injection(1 .. n, S)
  BY <1>3 DEF Injection
<1>5. IsFiniteSet(1 .. n) /\ Cardinality(1 .. n) = n
  BY <1>1, FS_Interval
<1>6. SetToSeq(S) \in Surjection(1 .. n, S)
  BY <1>4, <1>5, FS_Injection
<1>7. \A x \in S : \E i \in 1 .. n : SetToSeq(S)[i] = x
  BY <1>6 DEF Surjection
<1> QED
  BY <1>1, <1>3, <1>7

\* Fresh maps are new and lie in the next generation.
LEMMA FreshMaps ==
  ASSUME MapsOK(families, maps, generation), NEW keys \in SUBSET Keys, NEW k \in keys
  PROVE  /\ Fresh(keys)[k] \in (1 .. generation + 1) \X Keys
         /\ Fresh(keys)[k] \notin DOMAIN maps
         /\ Fresh(keys)[k][2] = k
BY DEF MapsOK, Fresh

\* The heap with a copy of the groups has all the maps it had, and those of the
\* copy with the contents of the groups.
LEMMA CopiedMaps ==
  ASSUME MapsOK(families, maps, generation), GroupsOK(maps, groups),
         NEW copy, copy = GetMetricFamiliesMap(DOMAIN groups)
  PROVE  /\ DOMAIN copy = DOMAIN groups
         /\ Extended(maps, MapsWith(copy))
         /\ MapsOK(families, MapsWith(copy), generation + 1)
         /\ GroupsOK(MapsWith(copy), copy)
         /\ \A k \in DOMAIN copy : /\ copy[k] \notin DOMAIN maps
                                   /\ MapsWith(copy)[copy[k]] = maps[groups[k]]
<1>1. DOMAIN copy = DOMAIN groups /\ DOMAIN groups \subseteq Keys
  BY DEF GetMetricFamiliesMap, Fresh, GroupsOK
<1>2. ASSUME NEW k \in DOMAIN copy
      PROVE  /\ copy[k] \in (1 .. generation + 1) \X Keys
             /\ copy[k] \notin DOMAIN maps
             /\ copy[k][2] = k
  BY <1>1, FreshMaps DEF GetMetricFamiliesMap
<1> PICK ms : ms = MapsWith(copy)
  OBVIOUS
<1>3. /\ DOMAIN ms = DOMAIN maps \cup Range(copy)
      /\ \A m \in Range(copy) : ms[m] = maps[groups[m[2]]]
      /\ \A m \in DOMAIN maps \ Range(copy) : ms[m] = maps[m]
  BY DEF MapsWith, Overridden
<1>4. \A m \in Range(copy) : \E k \in DOMAIN copy : m = copy[k]
  BY DEF Range
<1>5. \A k \in DOMAIN copy : copy[k] \in Range(copy)
  BY DEF Range
<1>6. Extended(maps, ms)
  BY <1>2, <1>3, <1>4 DEF Extended
<1>7. \A k \in DOMAIN copy : ms[copy[k]] = maps[groups[k]]
  BY <1>2, <1>3, <1>5
<1>8. MapsOK(families, ms, generation + 1)
  <2>1. generation \in Nat /\ generation + 1 \in Nat
    BY DEF MapsOK
  <2>2. DOMAIN maps \subseteq (1 .. generation + 1) \X Keys
    BY <2>1 DEF MapsOK
  <2>3. DOMAIN ms \subseteq (1 .. generation + 1) \X Keys
    BY <1>2, <1>3, <1>4, <2>2
  <2>4. ASSUME NEW m \in DOMAIN ms PROVE MetricsOK(families, ms[m])
    <3>1. CASE m \in DOMAIN maps
      BY <1>6, <3>1 DEF Extended, MapsOK
    <3>2. CASE m \in Range(copy)
      BY <1>1, <1>4, <1>7, <3>2 DEF MapsOK, GroupsOK
    <3> QED
      BY <1>3, <3>1, <3>2
  <2> QED
    BY <2>1, <2>3, <2>4 DEF MapsOK
<1>9. GroupsOK(ms, copy)
  BY <1>1, <1>3, <1>5 DEF GroupsOK
<1> QED
  BY <1>1, <1>2, <1>6, <1>7, <1>8, <1>9

\* What a push makes of the metrics of its group points to families that the group
\* or the request pointed to.
LEMMA ProcessedMetrics ==
  ASSUME NEW fs, NEW metrics, MetricsOK(fs, metrics), NEW request, RequestOK(fs, request)
  PROVE  /\ MetricsOK(fs, Processed(metrics, request))
         /\ \A n \in DOMAIN Processed(metrics, request) :
              \/ n \in DOMAIN metrics /\ Processed(metrics, request)[n] = metrics[n]
              \/ /\ n \in DOMAIN request.metrics
                 /\ Processed(metrics, request)[n] = request.metrics[n]
              \/ Processed(metrics, request)[n] = request.neverFailed
<1> DEFINE zero   == [n \in {pushFailedMetricName} |-> request.neverFailed]
           kept   == IF request.replace
                       THEN Restrict(metrics, DOMAIN metrics \cap {pushFailedMetricName})
                       ELSE metrics
           pushed == IF pushFailedMetricName \in DOMAIN metrics THEN request.metrics
                     ELSE Overridden(request.metrics, zero)
<1>1. /\ DOMAIN kept \subseteq DOMAIN metrics
      /\ \A n \in DOMAIN kept : kept[n] = metrics[n]
  BY DEF Restrict
<1>2. /\ DOMAIN pushed \subseteq DOMAIN request.metrics \cup {pushFailedMetricName}
      /\ \A n \in DOMAIN pushed :
           \/ n \in DOMAIN request.metrics /\ pushed[n] = request.metrics[n]
           \/ n = pushFailedMetricName /\ pushed[n] = request.neverFailed
  BY DEF Overridden
<1> HIDE DEF kept, pushed
<1> PICK all : all = Overridden(kept, pushed)
  OBVIOUS
<1>3. /\ DOMAIN all \subseteq DOMAIN kept \cup DOMAIN pushed
      /\ \A n \in DOMAIN all : \/ n \in DOMAIN kept /\ all[n] = kept[n]
                               \/ n \in DOMAIN pushed /\ all[n] = pushed[n]
  BY DEF Overridden
<1>4. Processed(metrics, request) = all
  BY DEF Processed, kept, pushed
<1>5. \A n \in DOMAIN all :
         \/ n \in DOMAIN metrics /\ all[n] = metrics[n]
         \/ n \in DOMAIN request.metrics /\ all[n] = request.metrics[n]
         \/ n = pushFailedMetricName /\ all[n] = request.neverFailed
  BY <1>1, <1>2, <1>3
<1>6. MetricsOK(fs, all)
  BY <1>5, NamesAssumption DEF MetricsOK, RequestOK, PointsTo
<1> QED
  BY <1>4, <1>5, <1>6

LEMMA GroupMetrics ==
  ASSUME MapsOK(families, maps, generation), GroupsOK(maps, groups), NEW key
  PROVE  MetricsOK(families, MetricsOf(key))
BY DEF MapsOK, GroupsOK, MetricsOf, MetricsOK

\* When the metrics of a group are set, its map changes, or there is a new one.
LEMMA UpdatedGroup ==
  ASSUME MapsOK(families, maps, generation), GroupsOK(maps, groups),
         NEW fs, Grown(families, fs), NEW key \in Keys,
         NEW metrics, MetricsOK(fs, metrics), UpdateGroup(key, metrics)
  PROVE  /\ MapsOK(fs, maps', generation')
         /\ GroupsOK(maps', groups')
         /\ \A k \in DOMAIN groups' :
              \/ k \in DOMAIN groups /\ groups'[k] = groups[k]
              \/ groups'[k] \notin DOMAIN maps
         /\ DOMAIN maps' = DOMAIN maps \cup {groups'[key]}
         /\ maps'[groups'[key]] = metrics
         /\ \A m \in DOMAIN maps : m # groups'[key] => maps'[m] = maps[m]
         /\ \/ key \in DOMAIN groups /\ groups'[key] = groups[key]
            \/ groups'[key] \notin DOMAIN maps
<1>1. generation \in Nat /\ generation' \in {generation, generation + 1}
  BY DEF MapsOK, UpdateGroup
<1>2. ASSUME key \in DOMAIN groups
      PROVE  groups' = groups /\ generation' = generation /\ groups'[key] \in DOMAIN maps
  BY <1>2 DEF UpdateGroup, WithGroup, GroupsOK
<1>3. ASSUME key \notin DOMAIN groups
      PROVE  /\ generation' = generation + 1
             /\ DOMAIN groups' = DOMAIN groups \cup {key}
             /\ groups'[key] \in (1 .. generation + 1) \X Keys
             /\ groups'[key] \notin DOMAIN maps
             /\ \A k \in DOMAIN groups : groups'[k] = groups[k]
  <2>1. groups' = Overridden(groups, Fresh({key}))
    BY <1>3 DEF UpdateGroup, WithGroup
  <2>2. DOMAIN Fresh({key}) = {key}
    BY DEF Fresh
  <2>3. /\ DOMAIN groups' = DOMAIN groups \cup {key}
        /\ groups'[key] = Fresh({key})[key]
        /\ \A k \in DOMAIN groups : groups'[k] = groups[k]
    BY <1>3, <2>1, <2>2 DEF Overridden
  <2>4. /\ Fresh({key})[key] \in (1 .. generation + 1) \X Keys
        /\ Fresh({key})[key] \notin DOMAIN maps
    BY FreshMaps
  <2>5. generation' = generation + 1
    BY <1>3 DEF UpdateGroup
  <2> QED
    BY <2>3, <2>4, <2>5
<1> PICK target : target = groups'[key]
  OBVIOUS
<1>4. maps' = Overridden(maps, [m \in {target} |-> metrics])
  BY DEF UpdateGroup
<1>5. /\ DOMAIN maps' = DOMAIN maps \cup {target}
      /\ maps'[target] = metrics
      /\ \A m \in DOMAIN maps : m # target => maps'[m] = maps[m]
  BY <1>4 DEF Overridden
<1>6. target \in (1 .. generation') \X Keys
  BY <1>2, <1>3 DEF MapsOK
<1>7. DOMAIN maps \subseteq (1 .. generation') \X Keys
  BY <1>1 DEF MapsOK
<1>8. \A m \in DOMAIN maps' : MetricsOK(fs, maps'[m])
  BY <1>5, MetricsGrown DEF MapsOK
<1>9. MapsOK(fs, maps', generation')
  BY <1>1, <1>5, <1>6, <1>7, <1>8 DEF MapsOK
<1>10. /\ \/ key \in DOMAIN groups /\ target = groups[key]
          \/ target \notin DOMAIN maps
       /\ \A k \in DOMAIN groups' :
            \/ k \in DOMAIN groups /\ groups'[k] = groups[k]
            \/ groups'[k] \notin DOMAIN maps
  BY <1>2, <1>3
<1>11. GroupsOK(maps', groups')
  BY <1>2, <1>3, <1>5 DEF GroupsOK
<1> QED
  BY <1>5, <1>9, <1>10, <1>11

-----------------------------------------------------------------------------
(* Types are kept.                                                         *)

\* Nobody gathers while the loop changes the maps of groups.
LEMMA LockedOut ==
  ASSUME TypeInv, CanLock, loop.at \in {"select", "apply", "fail"}
  PROVE  \A g \in Gatherers : gatherer[g].at # "gather"
BY DEF TypeInv, LockInv, CanLock, Gatherers

LEMMA TypesInitial == Init => TypeInv
<1> SUFFICES ASSUME Init PROVE TypeInv
  OBVIOUS
<1>1. FamiliesOK(families, original)
  BY DEF Init, FamiliesOK
<1>2. MapsOK(families, maps, generation) /\ GroupsOK(maps, groups)
  BY DEF Init, MapsOK, GroupsOK
<1>3. LoopOK(families, maps, loop)
  BY DEF Init, LoopOK, Waiting
<1>4. /\ gatherer = [g \in Gatherers |-> gatherer[g]]
      /\ \A g \in Gatherers : gatherer[g].at = "idle"
  BY DEF Init, Idle
<1>5. LockInv
  BY <1>4 DEF LockInv, Gatherers
<1>6. pushes \in 0 .. MaxPushes /\ reads \in 0 .. MaxReads
  BY BoundsAssumption DEF Init
<1> QED
  BY <1>1, <1>2, <1>3, <1>4, <1>5, <1>6 DEF TypeInv, GathererOK

\* The families of a push, new to the heap, and what the loop holds of them.
LEMMA ReceivedPush ==
  ASSUME TypeInv, NEW push \in Pushes, ReceivePush(push)
  PROVE  /\ FamiliesOK(families', original')
         /\ Grown(families, families')
         /\ LoopOK(families', maps, loop')
         /\ \A p \in 1 .. Len(families) :
              families'[p] = families[p] /\ original'[p] = original[p]
         /\ \A p \in Len(families) + 1 .. Len(families') : families'[p] = original'[p]
         /\ \A p \in Len(families) + 1 .. Len(families') : families'[p].samples = <<p>>
         /\ \A n \in DOMAIN loop'.request.metrics :
              loop'.request.metrics[n] > Len(families)
         /\ loop'.request.neverFailed > Len(families)
         /\ loop'.request.key = push.key
<1> PICK order : order = SetToSeq(push.names)
  OBVIOUS
<1> DEFINE zero    == Len(families) + Len(order) + 1
           pushed  == [i \in DOMAIN order |->
                         NewFamily(order[i], push.help, Len(families) + i)]
           new     == pushed \o <<NewFamily(pushFailedMetricName, "standard", zero)>>
           Index(n) == CHOOSE i \in DOMAIN order : order[i] = n
           request == [key         |-> push.key,
                       metrics     |-> [n \in push.names |-> Len(families) + Index(n)],
                       neverFailed |-> zero,
                       replace     |-> push.replace]
<1>1. /\ push.key \in Keys /\ push.names \subseteq Names /\ push.help \in Helps
  BY PushesAssumption
<1>2. IsFiniteSet(push.names)
  BY <1>1, NamesAssumption, FS_Subset
<1>3. order \in Seq(push.names) /\ \A x \in push.names : \E i \in DOMAIN order : order[i] = x
  BY <1>2, SetToSeqBijective
<1>4. FamiliesOK(families, original) /\ Len(families) \in Nat /\ Len(order) \in Nat
        /\ DOMAIN order = 1 .. Len(order)
  BY <1>3 DEF TypeInv, FamiliesOK
<1>5. /\ families' = families \o new /\ original' = original \o new
      /\ loop'.request = request /\ loop'.at \in {"fail", "test", "apply"}
  BY DEF ReceivePush, Allocate
<1>6. /\ pushed \in Seq(Family) /\ Len(pushed) = Len(order)
      /\ \A i \in 1 .. Len(order) : pushed[i] = NewFamily(order[i], push.help, Len(families) + i)
  <2>1. \A i \in 1 .. Len(order) : order[i] \in Names
    BY <1>1, <1>3
  <2>2. ASSUME NEW i \in 1 .. Len(order)
        PROVE  NewFamily(order[i], push.help, Len(families) + i) \in Family
    <3>1. <<Len(families) + i>> \in Seq(Nat)
      BY <1>4
    <3> QED
      BY <1>1, <2>1, <3>1 DEF NewFamily, Family
  <2>3. pushed \in [1 .. Len(order) -> Family]
    BY <1>4, <2>2
  <2> QED
    BY <1>4, <2>3
<1> HIDE DEF pushed
<1>7. NewFamily(pushFailedMetricName, "standard", zero) \in Family
  <2>1. <<zero>> \in Seq(Nat)
    BY <1>4
  <2> QED
    BY <2>1, NamesAssumption DEF NewFamily, Family, Helps
<1> PICK added : added = new
  OBVIOUS
<1>8. /\ added \in Seq(Family) /\ Len(added) = Len(order) + 1
      /\ \A i \in 1 .. Len(order) : added[i] = pushed[i]
      /\ added[Len(order) + 1] = NewFamily(pushFailedMetricName, "standard", zero)
  BY <1>4, <1>6, <1>7
<1> HIDE DEF new
<1>9. \A j \in 1 .. Len(added) : added[j].samples = <<Len(families) + j>>
  <2> TAKE j \in 1 .. Len(added)
  <2>1. CASE j <= Len(order)
    <3>1. j \in 1 .. Len(order)
      BY <1>4, <1>8, <2>1
    <3>2. added[j] = NewFamily(order[j], push.help, Len(families) + j)
      BY <1>6, <1>8, <3>1
    <3> QED
      BY <3>2 DEF NewFamily
  <2>2. CASE j = Len(order) + 1
    BY <1>4, <1>8, <2>2 DEF NewFamily
  <2> QED
    BY <1>4, <1>8, <2>1, <2>2
<1>10. /\ FamiliesOK(families', original')
       /\ Grown(families, families')
       /\ Len(families') = Len(families) + Len(added)
       /\ \A p \in 1 .. Len(families) :
            families'[p] = families[p] /\ original'[p] = original[p]
       /\ \A j \in 1 .. Len(added) :
            families'[Len(families) + j] = added[j] /\ original'[Len(families) + j] = added[j]
  <2>1. Fit(families, added)
    <3>1. ASSUME NEW j \in 1 .. Len(added), NEW i \in DOMAIN added[j].samples
          PROVE  added[j].samples[i] \in 1 .. Len(families) + Len(added)
      <4>1. added[j].samples = <<Len(families) + j>>
        BY <1>9
      <4> QED
        BY <1>4, <1>8, <3>1, <4>1
    <3> QED
      BY <3>1 DEF Fit
  <2>2. added \in Seq(Family) /\ FamiliesOK(families, original)
    BY <1>4, <1>8
  <2>3. Allocate(added)
    BY <1>5 DEF Allocate
  <2> QED
    BY <2>1, <2>2, <2>3, AddedFamilies
<1>11. ASSUME NEW n \in push.names
       PROVE  Index(n) \in 1 .. Len(order) /\ order[Index(n)] = n
  BY <1>3, <1>4
<1> HIDE DEF Index
<1>12. ASSUME NEW n \in push.names
       PROVE  PointsTo(families', Len(families) + Index(n), n)
  <2> PICK i : i = Index(n)
    OBVIOUS
  <2>1. i \in 1 .. Len(order) /\ order[i] = n
    BY <1>11
  <2>2. added[i] = NewFamily(n, push.help, Len(families) + i)
    BY <1>6, <1>8, <2>1
  <2>3. i \in 1 .. Len(added) /\ Len(families) + i \in 1 .. Len(families')
    BY <1>4, <1>8, <1>10, <2>1
  <2>4. families'[Len(families) + i] = added[i]
    BY <1>10, <2>3
  <2> QED
    BY <2>2, <2>3, <2>4 DEF PointsTo, NewFamily
<1>13. PointsTo(families', zero, pushFailedMetricName)
  BY <1>4, <1>8, <1>10 DEF PointsTo, NewFamily
<1>14. RequestOK(families', request)
  BY <1>1, <1>12, <1>13 DEF RequestOK, MetricsOK
<1>15. LoopOK(families', maps, loop')
  BY <1>5, <1>14 DEF LoopOK
<1>16. ASSUME NEW p \in Len(families) + 1 .. Len(families')
       PROVE  families'[p] = original'[p] /\ families'[p].samples = <<p>>
  <2>0. PICK j : j = p - Len(families)
    OBVIOUS
  <2>1. j \in 1 .. Len(added) /\ p = Len(families) + j
    <3>1. /\ Len(families') = Len(families) + Len(added)
          /\ Len(families) \in Nat /\ Len(added) \in Nat
      BY <1>4, <1>8, <1>10
    <3> QED
      BY <2>0, <3>1
  <2>2. families'[p] = added[j] /\ original'[p] = added[j]
    BY <1>10, <2>1
  <2> QED
    BY <1>9, <2>1, <2>2
<1>17. /\ \A n \in push.names : Len(families) + Index(n) > Len(families)
       /\ zero > Len(families)
  BY <1>4, <1>11
<1>18. /\ \A n \in DOMAIN loop'.request.metrics :
             loop'.request.metrics[n] > Len(families)
       /\ loop'.request.neverFailed > Len(families)
       /\ loop'.request.key = push.key
  BY <1>5, <1>17
<1> HIDE DEF request, zero
<1>19. \A p \in Len(families) + 1 .. Len(families') :
         families'[p] = original'[p] /\ families'[p].samples = <<p>>
  BY <1>16
<1> QED
  BY <1>10, <1>15, <1>18, <1>19

\* The maps after a push has been processed on a copy: all there were, and new ones
\* that point to families of the groups and of the request.
LEMMA TrialMaps ==
  ASSUME TypeInv, CheckWriteRequest
  PROVE  /\ Extended(maps, maps')
         /\ MapsOK(families, maps', generation')
         /\ GroupsOK(maps', loop'.trial)
         /\ \A m \in DOMAIN maps' : \A n \in DOMAIN maps'[m] :
              \/ \E l \in DOMAIN maps : n \in DOMAIN maps[l] /\ maps'[m][n] = maps[l][n]
              \/ /\ n \in DOMAIN loop.request.metrics
                 /\ maps'[m][n] = loop.request.metrics[n]
              \/ maps'[m][n] = loop.request.neverFailed
<1> PICK key, copy : key = loop.request.key /\ copy = GetMetricFamiliesMap(DOMAIN groups)
  OBVIOUS
<1> PICK ms, trial, metrics : /\ ms = MapsWith(copy)
                              /\ trial = WithGroup(copy, key)
                              /\ metrics = Processed(MetricsOf(key), loop.request)
  OBVIOUS
<1>1. /\ MapsOK(families, maps, generation) /\ GroupsOK(maps, groups)
      /\ RequestOK(families, loop.request) /\ key \in Keys
  BY DEF TypeInv, LoopOK, CheckWriteRequest, RequestOK
<1>2. /\ maps' = [m \in DOMAIN ms \cup {trial[key]} |->
                    IF m = trial[key] THEN metrics ELSE ms[m]]
      /\ loop'.trial = trial /\ generation' = generation + 1
  BY DEF CheckWriteRequest
<1>3. /\ DOMAIN copy = DOMAIN groups
      /\ Extended(maps, ms)
      /\ MapsOK(families, ms, generation + 1)
      /\ GroupsOK(ms, copy)
      /\ \A k \in DOMAIN copy : copy[k] \notin DOMAIN maps /\ ms[copy[k]] = maps[groups[k]]
  BY <1>1, CopiedMaps
<1>4. DOMAIN ms = DOMAIN maps \cup Range(copy)
  BY DEF MapsWith, Overridden
<1>5. /\ trial[key] \in (1 .. generation + 1) \X Keys
      /\ trial[key] \notin DOMAIN maps
      /\ DOMAIN trial = DOMAIN copy \cup {key}
      /\ \A k \in DOMAIN trial : k = key \/ (k \in DOMAIN copy /\ trial[k] = copy[k])
  <2>1. CASE key \in DOMAIN copy
    <3>1. trial = copy /\ copy[key] \in DOMAIN ms
      BY <1>3, <2>1 DEF WithGroup, GroupsOK
    <3> QED
      BY <1>3, <2>1, <3>1 DEF MapsOK
  <2>2. CASE key \notin DOMAIN copy
    <3>1. trial = Overridden(copy, Fresh({key}))
      BY <2>2 DEF WithGroup
    <3>2. DOMAIN Fresh({key}) = {key}
      BY DEF Fresh
    <3>3. /\ trial[key] = Fresh({key})[key]
          /\ DOMAIN trial = DOMAIN copy \cup {key}
          /\ \A k \in DOMAIN trial : k = key \/ (k \in DOMAIN copy /\ trial[k] = copy[k])
      BY <3>1, <3>2 DEF Overridden
    <3>4. /\ Fresh({key})[key] \in (1 .. generation + 1) \X Keys
          /\ Fresh({key})[key] \notin DOMAIN maps
      BY <1>1, FreshMaps
    <3> QED
      BY <3>3, <3>4
  <2> QED
    BY <2>1, <2>2
<1>6. /\ DOMAIN maps' = DOMAIN ms \cup {trial[key]}
      /\ maps'[trial[key]] = metrics
      /\ \A m \in DOMAIN ms : m # trial[key] => maps'[m] = ms[m]
  BY <1>2
<1>7. Extended(maps, maps')
  BY <1>3, <1>5, <1>6 DEF Extended
<1>8. MetricsOK(families, MetricsOf(key))
  BY <1>1, GroupMetrics
<1>9. /\ MetricsOK(families, metrics)
      /\ \A n \in DOMAIN metrics :
           \/ n \in DOMAIN MetricsOf(key) /\ metrics[n] = MetricsOf(key)[n]
           \/ n \in DOMAIN loop.request.metrics /\ metrics[n] = loop.request.metrics[n]
           \/ metrics[n] = loop.request.neverFailed
  BY <1>1, <1>8, ProcessedMetrics
<1>10. MapsOK(families, maps', generation')
  BY <1>2, <1>3, <1>5, <1>6, <1>9 DEF MapsOK
<1>11. GroupsOK(maps', trial)
  BY <1>1, <1>3, <1>5, <1>6 DEF GroupsOK
<1>12. \A n \in DOMAIN MetricsOf(key) :
         \E l \in DOMAIN maps : n \in DOMAIN maps[l] /\ MetricsOf(key)[n] = maps[l][n]
  BY <1>1 DEF MetricsOf, GroupsOK
<1>13. ASSUME NEW m \in DOMAIN maps', NEW n \in DOMAIN maps'[m]
       PROVE  \/ \E l \in DOMAIN maps : n \in DOMAIN maps[l] /\ maps'[m][n] = maps[l][n]
              \/ /\ n \in DOMAIN loop.request.metrics
                 /\ maps'[m][n] = loop.request.metrics[n]
              \/ maps'[m][n] = loop.request.neverFailed
  <2>1. CASE m = trial[key]
    BY <1>6, <1>9, <1>12, <2>1
  <2>2. CASE m \in DOMAIN maps
    BY <1>7, <2>2 DEF Extended
  <2>3. CASE m # trial[key] /\ m \in Range(copy)
    <3> PICK k \in DOMAIN copy : m = copy[k]
      BY <2>3 DEF Range
    <3>1. maps'[m] = maps[groups[k]] /\ groups[k] \in DOMAIN maps
      BY <1>1, <1>3, <1>4, <1>6, <2>3 DEF GroupsOK
    <3> QED
      BY <3>1
  <2> QED
    BY <1>4, <1>6, <2>1, <2>2, <2>3
<1> QED
  BY <1>2, <1>7, <1>10, <1>11, <1>13

\* A gathering that begins.
LEMMA BegunGathering ==
  ASSUME NEW gs, GroupsOK(maps, gs), NEW samples
  PROVE  /\ GathererOK(families, maps, Gathering(gs, samples))
         /\ Gathering(gs, samples).at = "gather"
         /\ \A n : n \notin DOMAIN Gathering(gs, samples).mfStatByName
BY DEF Gathering, GathererOK, ProgressOK, PairsIn, Pairs

\* The types are kept when one gatherer turns to something else.
LEMMA OneGatherer ==
  ASSUME TypeInv, NEW g \in Gatherers, NEW work, GathererOK(families, maps, work),
         gatherer' = [gatherer EXCEPT ![g] = work],
         \/ g \in Readers
         \/ work.at = "idle"
         \/ loop'.at = "check",
         UNCHANGED <<heap, groups, pushes>>, reads' \in 0 .. MaxReads,
         LoopOK(families, maps, loop'), loop'.at = loop.at \/ (g = Check /\ work.at = "idle")
  PROVE  TypeInv'
<1>1. /\ gatherer' = [h \in Gatherers |-> gatherer'[h]]
      /\ \A h \in Gatherers : gatherer'[h] = IF h = g THEN work ELSE gatherer[h]
  BY DEF TypeInv
<1>2. \A h \in Gatherers : GathererOK(families, maps, gatherer'[h])
  BY <1>1 DEF TypeInv
<1>3. LockInv'
  BY <1>1, NamesAssumption DEF TypeInv, LockInv, Gatherers
<1>4. /\ families' = families /\ maps' = maps /\ generation' = generation
      /\ original' = original /\ groups' = groups /\ pushes' = pushes
  BY DEF heap
<1> QED
  BY <1>1, <1>2, <1>3, <1>4 DEF TypeInv

LEMMA TypesGathering ==
  ASSUME TypeInv,
         \/ GatherTrial \/ Verdict
         \/ \E r \in Readers : GetMetricFamilies(r) \/ Forget(r)
         \/ \E g \in Gatherers : ReturnFamilies(g)
  PROVE  TypeInv'
<1>1. /\ MapsOK(families, maps, generation) /\ GroupsOK(maps, groups)
      /\ LoopOK(families, maps, loop) /\ reads \in 0 .. MaxReads
      /\ GathererOK(families, maps, Idle)
  BY DEF TypeInv, GathererOK, Idle
<1>2. ASSUME GatherTrial PROVE TypeInv'
  <2> PICK work : work = Gathering(loop.trial, Samples(loop.trial))
    OBVIOUS
  <2>1. GathererOK(families, maps, work)
    BY <1>1, <1>2, BegunGathering DEF GatherTrial, LoopOK
  <2>2. /\ gatherer' = [gatherer EXCEPT ![Check] = work]
        /\ loop' = loop /\ loop.at = "check" /\ reads' = reads
        /\ UNCHANGED <<heap, groups, pushes>>
    BY <1>2 DEF GatherTrial, counts
  <2> QED
    BY <1>1, <2>1, <2>2, OneGatherer DEF Gatherers
<1>3. ASSUME Verdict PROVE TypeInv'
  <2>1. /\ gatherer' = [gatherer EXCEPT ![Check] = Idle] /\ reads' = reads
        /\ UNCHANGED <<heap, groups, pushes>>
    BY <1>3 DEF Verdict, counts
  <2>2. LoopOK(families, maps, loop')
    BY <1>1, <1>3 DEF Verdict, LoopOK
  <2> QED
    BY <1>1, <2>1, <2>2, OneGatherer DEF Gatherers, Idle
<1>4. ASSUME NEW r \in Readers, GetMetricFamilies(r) PROVE TypeInv'
  <2> PICK work : work = Gathering(groups, Samples(groups))
    OBVIOUS
  <2>1. GathererOK(families, maps, work)
    BY <1>1, BegunGathering
  <2>2. /\ gatherer' = [gatherer EXCEPT ![r] = work]
        /\ loop' = loop /\ UNCHANGED <<heap, groups, pushes>>
    BY <1>4 DEF GetMetricFamilies
  <2>3. reads' \in 0 .. MaxReads
    BY <1>1, <1>4, BoundsAssumption DEF GetMetricFamilies
  <2> QED
    BY <1>1, <2>1, <2>2, <2>3, OneGatherer DEF Gatherers
<1>5. ASSUME NEW r \in Readers, Forget(r) PROVE TypeInv'
  <2>1. /\ gatherer' = [gatherer EXCEPT ![r] = Idle] /\ reads' = reads
        /\ loop' = loop /\ UNCHANGED <<heap, groups, pushes>>
    BY <1>5 DEF Forget, counts
  <2> QED
    BY <1>1, <2>1, OneGatherer DEF Gatherers
<1>6. ASSUME NEW g \in Gatherers, ReturnFamilies(g) PROVE TypeInv'
  <2> PICK work : work = [at |-> "done", result |-> gatherer[g].result,
                          expected |-> gatherer[g].expected]
    OBVIOUS
  <2>1. /\ gatherer' = [gatherer EXCEPT ![g] = work] /\ reads' = reads
        /\ loop' = loop /\ UNCHANGED <<heap, groups, pushes>>
    BY <1>6 DEF ReturnFamilies, counts
  <2>2. GathererOK(families, maps, work)
    BY DEF GathererOK
  <2>3. g \in Readers \/ loop'.at = "check"
    BY <1>6, <2>1 DEF ReturnFamilies, TypeInv, LockInv, Gatherers
  <2> QED
    BY <1>1, <2>1, <2>2, <2>3, OneGatherer
<1> QED
  BY <1>2, <1>3, <1>4, <1>5, <1>6

\* What a gathering has noted after a visit.
LEMMA NotedVisit ==
  ASSUME TypeInv, NEW g \in Gatherers, gatherer[g].at = "gather",
         NEW pair, NEW result, NEW stat, Visited(g, pair, result, stat)
  PROVE  /\ gatherer' = [h \in Gatherers |-> gatherer'[h]]
         /\ \A h \in Gatherers : h # g => gatherer'[h] = gatherer[h]
         /\ DOMAIN gatherer'[g] = DOMAIN gatherer[g]
         /\ gatherer'[g].at = "gather" /\ gatherer'[g].source = gatherer[g].source
         /\ gatherer'[g].todo = gatherer[g].todo \ {pair}
         /\ gatherer'[g].result = result
         /\ gatherer'[g].expected = gatherer[g].expected
         /\ DOMAIN gatherer'[g].mfStatByName = DOMAIN gatherer[g].mfStatByName \cup {pair[2]}
         /\ gatherer'[g].mfStatByName[pair[2]] = stat
         /\ \A n \in DOMAIN gatherer[g].mfStatByName :
              n # pair[2] =>
                gatherer'[g].mfStatByName[n] = gatherer[g].mfStatByName[n]
<1> PICK stats : stats = Overridden(gatherer[g].mfStatByName, [n \in {pair[2]} |-> stat])
  OBVIOUS
<1>1. /\ DOMAIN stats = DOMAIN gatherer[g].mfStatByName \cup {pair[2]}
      /\ stats[pair[2]] = stat
      /\ \A n \in DOMAIN gatherer[g].mfStatByName :
           n # pair[2] => stats[n] = gatherer[g].mfStatByName[n]
  BY DEF Overridden
<1>2. gatherer = [h \in Gatherers |-> gatherer[h]]
  BY DEF TypeInv
<1>3. DOMAIN gatherer[g] = {"at", "source", "todo", "result", "mfStatByName", "expected"}
  BY DEF TypeInv, GathererOK, ProgressOK
<1>4. gatherer' = [gatherer EXCEPT ![g].todo = gatherer[g].todo \ {pair},
                                   ![g].result = result, ![g].mfStatByName = stats]
  BY <1>2, <1>3 DEF Visited
<1>5. gatherer'[g] = [gatherer[g] EXCEPT !.todo = gatherer[g].todo \ {pair},
                                         !.result = result, !.mfStatByName = stats]
  BY <1>2, <1>4
<1>6. /\ gatherer' = [h \in Gatherers |-> gatherer'[h]]
      /\ \A h \in Gatherers : h # g => gatherer'[h] = gatherer[h]
  BY <1>2, <1>4
<1>7. /\ DOMAIN gatherer'[g] = DOMAIN gatherer[g]
      /\ gatherer'[g].at = "gather" /\ gatherer'[g].source = gatherer[g].source
      /\ gatherer'[g].todo = gatherer[g].todo \ {pair}
      /\ gatherer'[g].result = result
      /\ gatherer'[g].expected = gatherer[g].expected
      /\ gatherer'[g].mfStatByName = stats
  BY <1>3, <1>5
<1> QED
  BY <1>1, <1>6, <1>7

\* The families that a gathering has noted to be copies.
Copies(g) ==
  {g.result[g.mfStatByName[n].pos] :
     n \in {l \in DOMAIN g.mfStatByName : g.mfStatByName[l].copied}}

\* A visit changes families that are copies, and makes new ones.
VisitOK(g) ==
  /\ FamiliesOK(families', original')
  /\ Grown(families, families')
  /\ gatherer' = [h \in Gatherers |-> gatherer'[h]]
  /\ \A h \in Gatherers : h # g => gatherer'[h] = gatherer[h]
  /\ gatherer'[g].at = "gather"
  /\ ProgressOK(families', maps, gatherer'[g])
  /\ \A q \in 1 .. Len(families) :
       /\ original'[q] = original[q]
       /\ families'[q] = families[q] \/ q \in Copies(gatherer[g])
  /\ \A q \in Len(families) + 1 .. Len(families') : families'[q] = original'[q]
  /\ \A q \in Copies(gatherer'[g]) : q > Len(families) \/ q \in Copies(gatherer[g])

\* A visit that adds a family to the heap, or none.
LEMMA AddingVisit ==
  ASSUME TypeInv, NEW g \in Gatherers, gatherer[g].at = "gather",
         NEW pair \in gatherer[g].todo,
         NEW result, NEW pos, NEW copied \in BOOLEAN,
         Visited(g, pair, result, [pos |-> pos, copied |-> copied]),
         FamiliesOK(families', original'), Grown(families, families'),
         \A q \in 1 .. Len(families) :
            families'[q] = families[q] /\ original'[q] = original[q],
         \A q \in Len(families) + 1 .. Len(families') : families'[q] = original'[q],
         result \in Seq(1 .. Len(families')), Len(result) >= Len(gatherer[g].result),
         pos \in 1 .. Len(result),
         copied => result[pos] > Len(families),
         \A i \in 1 .. Len(gatherer[g].result) :
            result[i] = gatherer[g].result[i] \/ result[i] > Len(families)
  PROVE  VisitOK(g)
<1>1. ProgressOK(families, maps, gatherer[g])
  BY DEF TypeInv, GathererOK
<1> PICK stats, stat : /\ stats = gatherer[g].mfStatByName
                       /\ stat = [pos |-> pos, copied |-> copied]
  OBVIOUS
<1>2. /\ gatherer' = [h \in Gatherers |-> gatherer'[h]]
      /\ \A h \in Gatherers : h # g => gatherer'[h] = gatherer[h]
      /\ DOMAIN gatherer'[g] = DOMAIN gatherer[g]
      /\ gatherer'[g].at = "gather" /\ gatherer'[g].source = gatherer[g].source
      /\ gatherer'[g].todo = gatherer[g].todo \ {pair}
      /\ gatherer'[g].result = result
      /\ DOMAIN gatherer'[g].mfStatByName = DOMAIN stats \cup {pair[2]}
      /\ gatherer'[g].mfStatByName[pair[2]] = stat
      /\ \A n \in DOMAIN stats :
           n # pair[2] => gatherer'[g].mfStatByName[n] = stats[n]
  BY NotedVisit
<1>3. Len(gatherer[g].result) \in Nat /\ Len(result) \in Nat
  BY <1>1 DEF ProgressOK
<1>4. ASSUME NEW n \in DOMAIN gatherer'[g].mfStatByName
      PROVE  gatherer'[g].mfStatByName[n] \in [pos : 1 .. Len(result), copied : BOOLEAN]
  <2>1. CASE n = pair[2]
    BY <1>2, <2>1
  <2>2. CASE n # pair[2]
    BY <1>1, <1>2, <1>3, <2>2 DEF ProgressOK
  <2> QED
    BY <2>1, <2>2
<1>5. ProgressOK(families', maps, gatherer'[g])
  <2>1. GroupsOK(maps, gatherer'[g].source)
    BY <1>1, <1>2 DEF ProgressOK
  <2>2. gatherer'[g].todo \subseteq PairsIn(maps, gatherer'[g].source)
    BY <1>1, <1>2 DEF ProgressOK
  <2> QED
    BY <1>1, <1>2, <1>4, <2>1, <2>2 DEF ProgressOK
<1>6. ASSUME NEW n \in DOMAIN gatherer'[g].mfStatByName, gatherer'[g].mfStatByName[n].copied
      PROVE  LET q == gatherer'[g].result[gatherer'[g].mfStatByName[n].pos]
             IN  q > Len(families) \/ q \in Copies(gatherer[g])
  <2>1. CASE n = pair[2]
    BY <1>2, <1>6, <2>1
  <2>2. CASE n # pair[2]
    <3>1. n \in DOMAIN stats /\ stats[n].copied /\ gatherer'[g].mfStatByName[n] = stats[n]
      BY <1>2, <1>6, <2>2
    <3>2. stats[n].pos \in 1 .. Len(gatherer[g].result)
      BY <1>1, <3>1 DEF ProgressOK
    <3>3. gatherer[g].result[stats[n].pos] \in Copies(gatherer[g])
      BY <3>1 DEF Copies
    <3> QED
      BY <1>2, <3>1, <3>2, <3>3
  <2> QED
    BY <2>1, <2>2
<1>7. \A q \in Copies(gatherer'[g]) : q > Len(families) \/ q \in Copies(gatherer[g])
  BY <1>6 DEF Copies
<1> QED
  BY <1>2, <1>5, <1>7 DEF VisitOK

\* The family that a gathering comes to is one of the heap.
LEMMA ComingFamily ==
  ASSUME TypeInv, NEW g \in Gatherers, gatherer[g].at = "gather",
         NEW pair \in gatherer[g].todo,
         NEW p, p = maps[gatherer[g].source[pair[1]]][pair[2]]
  PROVE  p \in 1 .. Len(families) /\ families[p] \in Family
<1>1. PICK source, m : source = gatherer[g].source /\ m = source[pair[1]]
  OBVIOUS
<1>2. ProgressOK(families, maps, gatherer[g]) /\ MapsOK(families, maps, generation)
  BY DEF TypeInv, GathererOK
<1>3. pair[1] \in DOMAIN source /\ pair[2] \in DOMAIN maps[m]
  BY <1>1, <1>2 DEF ProgressOK, PairsIn
<1>4. m \in DOMAIN maps
  BY <1>1, <1>2, <1>3 DEF ProgressOK, GroupsOK
<1>5. p \in 1 .. Len(families)
  <2>1. MetricsOK(families, maps[m])
    BY <1>2, <1>4 DEF MapsOK
  <2> QED
    BY <1>1, <1>3, <2>1 DEF MetricsOK, PointsTo
<1>6. families \in Seq(Family)
  BY DEF TypeInv, FamiliesOK
<1> QED
  BY <1>5, <1>6, ElementOf

LEMMA AddedFamily ==
  ASSUME TypeInv, NEW g \in Gatherers, gatherer[g].at = "gather",
         NEW pair \in gatherer[g].todo, AddFamily(g, pair)
  PROVE  VisitOK(g)
<1>0. PICK p, result, last : /\ p = maps[gatherer[g].source[pair[1]]][pair[2]]
                          /\ result = gatherer[g].result
                          /\ last = Len(families)
  OBVIOUS
<1>1. p \in 1 .. last /\ families[p] \in Family
  BY <1>0, ComingFamily
<1>2. /\ FamiliesOK(families, original) /\ last \in Nat
      /\ result \in Seq(1 .. last) /\ Len(result) \in Nat
  BY <1>0 DEF TypeInv, FamiliesOK, GathererOK, ProgressOK
<1>3. ASSUME NEW q \in 1 .. last + 1, NEW rs, rs = Append(result, q)
      PROVE  /\ rs \in Seq(1 .. last + 1) /\ Len(rs) = Len(result) + 1
             /\ rs[Len(result) + 1] = q
             /\ \A i \in 1 .. Len(result) : rs[i] = result[i]
  <2>1. result \in Seq(1 .. last + 1)
    BY <1>2
  <2>2. Append(result, q) \in Seq(1 .. last + 1)
    BY <2>1
  <2> QED
    BY <1>2, <1>3, <2>1, <2>2
<1>4. CASE pair[2] \in predefinedHelp /\ families[p].help # "standard"
  <2>0. PICK new : new = <<[families[p] EXCEPT !.help = "standard"]>>
    OBVIOUS
  <2>1. /\ Allocate(new)
        /\ Visited(g, pair, Append(result, last + 1),
                   [pos |-> Len(result) + 1, copied |-> TRUE])
    BY <1>0, <1>4, <2>0 DEF AddFamily
  <2>2. /\ new \in Seq(Family) /\ Len(new) = 1
        /\ new[1].samples = families[p].samples
    BY <1>1, <2>0 DEF Family, Helps
  <2>3. Fit(families, new)
    <3>1. \A i \in DOMAIN new[1].samples : new[1].samples[i] \in 1 .. last
      BY <1>0, <1>1, <1>2, <2>2 DEF FamiliesOK
    <3>2. ASSUME NEW k \in 1 .. Len(new), NEW i \in DOMAIN new[k].samples
          PROVE  new[k].samples[i] \in 1 .. Len(families) + Len(new)
      <4>1. k = 1
        BY <2>2
      <4>2. new[k].samples[i] \in 1 .. last
        BY <3>1, <3>2, <4>1
      <4>3. Len(families) = last /\ Len(new) = 1 /\ last \in Nat
        BY <1>0, <1>2, <2>2
      <4>4. 1 .. last \subseteq 1 .. Len(families) + Len(new)
        BY <4>3
      <4> QED
        BY <4>2, <4>4
    <3> QED
      BY <3>2 DEF Fit
  <2>4. /\ FamiliesOK(families', original') /\ Grown(families, families')
        /\ Len(families') = last + 1
        /\ \A q \in 1 .. last : families'[q] = families[q] /\ original'[q] = original[q]
        /\ families'[last + 1] = original'[last + 1]
    <3>1. /\ FamiliesOK(families', original') /\ Grown(families, families')
          /\ Len(families') = Len(families) + Len(new)
          /\ \A q \in 1 .. Len(families) :
               families'[q] = families[q] /\ original'[q] = original[q]
          /\ \A i \in 1 .. Len(new) :
               /\ families'[Len(families) + i] = new[i]
               /\ original'[Len(families) + i] = new[i]
      <4>1. FamiliesOK(families, original) /\ Allocate(new) /\ new \in Seq(Family)
        BY <1>2, <2>1, <2>2
      <4> QED
        BY <2>3, <4>1, AddedFamilies
    <3>2. Len(families) = last /\ last \in Nat /\ 1 \in 1 .. Len(new)
      <4>1. Len(families) = last /\ last \in Nat
        BY <1>0, <1>2
      <4>2. 1 \in 1 .. Len(new)
        BY <2>2
      <4> QED
        BY <4>1, <4>2
    <3>3. Len(families') = last + 1
      BY <2>2, <3>1, <3>2
    <3>4. \A q \in 1 .. last : families'[q] = families[q] /\ original'[q] = original[q]
      BY <3>1, <3>2
    <3>5. families'[last + 1] = new[1] /\ original'[last + 1] = new[1]
      BY <3>1, <3>2
    <3> QED
      BY <3>1, <3>3, <3>4, <3>5
  <2>8. PICK rs, pos : rs = Append(result, last + 1) /\ pos = Len(result) + 1
    OBVIOUS
  <2>5. /\ rs \in Seq(1 .. last + 1) /\ Len(rs) = Len(result) + 1 /\ rs[pos] = last + 1
        /\ \A i \in 1 .. Len(result) : rs[i] = result[i]
    BY <1>2, <1>3, <2>8
  <2>6. Visited(g, pair, rs, [pos |-> pos, copied |-> TRUE])
    BY <2>1, <2>8
  <2>7. \A q \in last + 1 .. Len(families') : families'[q] = original'[q]
    BY <1>2, <2>4
  <2> QED
    <3>1. /\ rs \in Seq(1 .. Len(families')) /\ Len(rs) >= Len(gatherer[g].result)
          /\ pos \in 1 .. Len(rs)
          /\ TRUE => rs[pos] > Len(families)
          /\ \A i \in 1 .. Len(gatherer[g].result) : rs[i] = gatherer[g].result[i]
      BY <1>0, <1>2, <2>4, <2>5, <2>8
    <3>2. /\ \A q \in 1 .. Len(families) :
               families'[q] = families[q] /\ original'[q] = original[q]
          /\ \A q \in Len(families) + 1 .. Len(families') : families'[q] = original'[q]
      BY <1>0, <2>4, <2>7
    <3> QED
      BY <2>4, <2>6, <3>1, <3>2, AddingVisit
<1>5. CASE ~ (pair[2] \in predefinedHelp /\ families[p].help # "standard")
  <2>1. /\ families' = families /\ original' = original
        /\ Visited(g, pair, Append(result, p), [pos |-> Len(result) + 1, copied |-> FALSE])
    BY <1>0, <1>5 DEF AddFamily
  <2>8. PICK rs, pos : rs = Append(result, p) /\ pos = Len(result) + 1
    OBVIOUS
  <2>2. /\ rs \in Seq(1 .. last) /\ Len(rs) = Len(result) + 1
        /\ \A i \in 1 .. Len(result) : rs[i] = result[i]
    <3>1. result \in Seq(1 .. last) /\ p \in 1 .. last /\ rs = Append(result, p)
      BY <1>1, <1>2, <2>8
    <3> QED
      BY <3>1
  <2>3. Visited(g, pair, rs, [pos |-> pos, copied |-> FALSE])
    BY <2>1, <2>8
  <2>4. FamiliesOK(families', original') /\ Grown(families, families')
    BY <1>0, <1>2, <2>1 DEF Grown
  <2>5. \A q \in last + 1 .. Len(families') : families'[q] = original'[q]
    BY <1>0, <1>2, <2>1
  <2> QED
    <3>1. /\ rs \in Seq(1 .. Len(families')) /\ Len(rs) >= Len(gatherer[g].result)
          /\ pos \in 1 .. Len(rs)
          /\ \A i \in 1 .. Len(gatherer[g].result) : rs[i] = gatherer[g].result[i]
      <4>1. Len(families') = last
        BY <1>0, <2>1
      <4>2. rs \in Seq(1 .. Len(families'))
        BY <2>2, <4>1
      <4>3. result = gatherer[g].result
        BY <1>0
      <4>4. Len(result) \in Nat /\ Len(rs) = Len(result) + 1
        BY <1>2, <2>2
      <4>5. Len(rs) >= Len(gatherer[g].result)
        BY <4>3, <4>4
      <4>6. pos \in 1 .. Len(rs)
        BY <2>8, <4>4
      <4>7. \A i \in 1 .. Len(gatherer[g].result) : rs[i] = gatherer[g].result[i]
        BY <2>2, <4>3
      <4> QED
        BY <4>2, <4>5, <4>6, <4>7
    <3>2. /\ \A q \in 1 .. Len(families) :
               families'[q] = families[q] /\ original'[q] = original[q]
          /\ \A q \in Len(families) + 1 .. Len(families') : families'[q] = original'[q]
      BY <1>0, <2>1, <2>5
    <3>3. PICK copied : copied = FALSE
      OBVIOUS
    <3>4. Visited(g, pair, rs, [pos |-> pos, copied |-> copied])
      BY <2>3, <3>3
    <3>5. copied => rs[pos] > Len(families)
      BY <3>3
    <3>6. copied \in BOOLEAN
      BY <3>3
    <3> QED
      BY <2>4, <3>1, <3>2, <3>4, <3>5, <3>6, AddingVisit
<1> QED
  BY <1>4, <1>5

\* A family with the samples of another after its own.
Merged(f, e) == [f EXCEPT !.samples = @ \o e.samples]

SamplesIn(f, last) == \A i \in DOMAIN f.samples : f.samples[i] \in 1 .. last

LEMMA MergedSamples ==
  ASSUME NEW last \in Nat, NEW f \in Family, NEW e \in Family,
         SamplesIn(f, last), SamplesIn(e, last)
  PROVE  /\ Merged(f, e) \in Family /\ Merged(f, e).name = f.name
         /\ SamplesIn(Merged(f, e), last)
<1> PICK all : all = Merged(f, e)
  OBVIOUS
<1>0. PICK s, t : s = f.samples /\ t = e.samples
  OBVIOUS
<1>1. /\ s \in Seq(Nat) /\ t \in Seq(Nat)
      /\ \A i \in 1 .. Len(s) : s[i] \in 1 .. last
      /\ \A i \in 1 .. Len(t) : t[i] \in 1 .. last
  BY <1>0 DEF Family, SamplesIn
<1>2. /\ s \o t \in Seq(Nat) /\ Len(s \o t) = Len(s) + Len(t)
      /\ \A i \in 1 .. Len(s) + Len(t) :
           (s \o t)[i] = IF i <= Len(s) THEN s[i] ELSE t[i - Len(s)]
  BY <1>1, ConcatProperties
<1>3. ASSUME NEW i \in DOMAIN (s \o t) PROVE (s \o t)[i] \in 1 .. last
  <2>1. i \in 1 .. Len(s) + Len(t)
    BY <1>2
  <2>2. CASE i <= Len(s)
    BY <1>1, <1>2, <2>1, <2>2
  <2>3. CASE ~ (i <= Len(s))
    <3>1. i - Len(s) \in 1 .. Len(t)
      BY <1>1, <2>1, <2>3
    <3> QED
      BY <1>1, <1>2, <2>1, <2>3, <3>1
  <2> QED
    BY <2>2, <2>3
<1>4. all = [f EXCEPT !.samples = s \o t]
  BY <1>0 DEF Merged
<1>5. /\ all.samples = s \o t /\ all.name = f.name /\ all.help = f.help
      /\ all = [name |-> f.name, help |-> f.help, samples |-> s \o t]
  <2>1. f = [name |-> f.name, help |-> f.help, samples |-> f.samples]
    BY DEF Family
  <2> QED
    BY <1>4, <2>1
<1>6. all \in Family
  BY <1>2, <1>5 DEF Family
<1> QED
  BY <1>3, <1>5, <1>6 DEF SamplesIn

LEMMA MergedFamily ==
  ASSUME TypeInv, NEW g \in Gatherers, gatherer[g].at = "gather",
         NEW pair \in gatherer[g].todo, MergeFamily(g, pair)
  PROVE  VisitOK(g)
<1>0. PICK p, result, last, stat :
        /\ p = maps[gatherer[g].source[pair[1]]][pair[2]]
        /\ result = gatherer[g].result
        /\ last = Len(families)
        /\ stat = gatherer[g].mfStatByName[pair[2]]
  OBVIOUS
<1>1. p \in 1 .. last /\ families[p] \in Family
  BY <1>0, ComingFamily
<1>2. /\ FamiliesOK(families, original) /\ last \in Nat /\ families \in Seq(Family)
      /\ result \in Seq(1 .. last) /\ Len(result) \in Nat
      /\ ProgressOK(families, maps, gatherer[g])
  BY <1>0 DEF TypeInv, FamiliesOK, GathererOK, ProgressOK
<1>3. /\ pair[2] \in DOMAIN gatherer[g].mfStatByName
      /\ stat \in [pos : 1 .. Len(result), copied : BOOLEAN]
  BY <1>0, <1>2 DEF MergeFamily, ProgressOK
<1>4. PICK old, pos : old = result[stat.pos] /\ pos = stat.pos
  OBVIOUS
<1>5. old \in 1 .. last /\ families[old] \in Family /\ pos \in 1 .. Len(result)
  <2>1. pos \in 1 .. Len(result)
    <3>1. stat.pos \in 1 .. Len(result)
      BY <1>3
    <3> QED
      BY <1>4, <3>1
  <2>2. old = result[pos] /\ result \in Seq(1 .. last)
    BY <1>2, <1>4
  <2>3. old \in 1 .. last
    <3>1. result[pos] \in 1 .. last
      BY <2>1, <2>2, ElementOf
    <3> QED
      BY <2>2, <3>1
  <2>4. families \in Seq(Family) /\ Len(families) = last
    BY <1>0, <1>2
  <2>5. families[old] \in Family
    BY <2>3, <2>4
  <2> QED
    BY <2>1, <2>3, <2>5
<1>6. PICK all : all = [families[old] EXCEPT !.samples = @ \o families[p].samples]
  OBVIOUS
<1>7. /\ all \in Family /\ all.name = families[old].name
      /\ \A i \in DOMAIN all.samples : all.samples[i] \in 1 .. last
  <2>1. \A q \in 1 .. last : \A i \in DOMAIN families[q].samples :
          families[q].samples[i] \in 1 .. last
    BY <1>0, <1>2 DEF FamiliesOK
  <2>2. /\ families[old] \in Family /\ families[p] \in Family /\ last \in Nat
        /\ SamplesIn(families[old], last) /\ SamplesIn(families[p], last)
    BY <1>1, <1>2, <1>5, <2>1 DEF SamplesIn
  <2>3. all = Merged(families[old], families[p])
    BY <1>6 DEF Merged
  <2> QED
    BY <2>2, <2>3, MergedSamples DEF SamplesIn
<1>8. CASE stat.copied
  <2>1. /\ families' = [families EXCEPT ![old] = all] /\ original' = original
        /\ Visited(g, pair, result, stat)
    BY <1>0, <1>4, <1>6, <1>8 DEF MergeFamily
  <2>2. /\ families' \in Seq(Family) /\ Len(families') = last
        /\ families'[old] = all
        /\ \A q \in 1 .. last : q # old => families'[q] = families[q]
    BY <1>0, <1>2, <1>5, <1>7, <2>1
  <2>3. FamiliesOK(families', original')
    <3>1. ASSUME NEW q \in 1 .. last, NEW i \in DOMAIN families'[q].samples
          PROVE  families'[q].samples[i] \in 1 .. last
      <4>1. CASE q = old
        BY <1>7, <2>2, <3>1, <4>1
      <4>2. CASE q # old
        BY <1>0, <1>2, <2>2, <3>1, <4>2 DEF FamiliesOK
      <4> QED
        BY <4>1, <4>2
    <3>2. original' \in Seq(Family) /\ Len(original') = last
      BY <1>0, <1>2, <2>1 DEF FamiliesOK
    <3> QED
      BY <2>2, <3>1, <3>2 DEF FamiliesOK
  <2>4. Grown(families, families')
    BY <1>0, <1>2, <1>5, <1>7, <2>2 DEF Grown
  <2>5. /\ gatherer' = [h \in Gatherers |-> gatherer'[h]]
        /\ \A h \in Gatherers : h # g => gatherer'[h] = gatherer[h]
        /\ DOMAIN gatherer'[g] = DOMAIN gatherer[g]
        /\ gatherer'[g].at = "gather" /\ gatherer'[g].source = gatherer[g].source
        /\ gatherer'[g].todo = gatherer[g].todo \ {pair}
        /\ gatherer'[g].result = result
        /\ DOMAIN gatherer'[g].mfStatByName = DOMAIN gatherer[g].mfStatByName \cup {pair[2]}
        /\ gatherer'[g].mfStatByName[pair[2]] = stat
        /\ \A n \in DOMAIN gatherer[g].mfStatByName :
             n # pair[2] => gatherer'[g].mfStatByName[n] = gatherer[g].mfStatByName[n]
    BY <2>1, NotedVisit
  <2>6. /\ DOMAIN gatherer'[g].mfStatByName = DOMAIN gatherer[g].mfStatByName
        /\ \A n \in DOMAIN gatherer[g].mfStatByName :
             gatherer'[g].mfStatByName[n] = gatherer[g].mfStatByName[n]
        /\ gatherer'[g].result = gatherer[g].result
    BY <1>0, <1>3, <2>5
  <2>7. ProgressOK(families', maps, gatherer'[g])
    <3>1. /\ DOMAIN gatherer'[g] = {"at", "source", "todo", "result", "mfStatByName", "expected"}
          /\ GroupsOK(maps, gatherer'[g].source)
          /\ gatherer'[g].todo \subseteq PairsIn(maps, gatherer'[g].source)
      BY <1>2, <2>5 DEF ProgressOK
    <3>2. gatherer'[g].result \in Seq(1 .. Len(families'))
      BY <1>0, <1>2, <2>2, <2>6
    <3>3. \A n \in DOMAIN gatherer'[g].mfStatByName :
            gatherer'[g].mfStatByName[n] \in
              [pos : 1 .. Len(gatherer'[g].result), copied : BOOLEAN]
      BY <1>2, <2>6 DEF ProgressOK
    <3> QED
      BY <3>1, <3>2, <3>3 DEF ProgressOK
  <2>8. Copies(gatherer'[g]) = Copies(gatherer[g])
    BY <2>6 DEF Copies
  <2>9. old \in Copies(gatherer[g])
    BY <1>0, <1>3, <1>4, <1>8 DEF Copies
  <2>10. \A q \in last + 1 .. Len(families') : families'[q] = original'[q]
    BY <1>2, <2>2
  <2>11. \A q \in 1 .. Len(families) :
            /\ original'[q] = original[q]
            /\ families'[q] = families[q] \/ q \in Copies(gatherer[g])
    BY <1>0, <2>1, <2>2, <2>9
  <2> QED
    BY <1>0, <2>3, <2>4, <2>5, <2>7, <2>8, <2>10, <2>11 DEF VisitOK
<1>9. CASE ~ stat.copied
  <2>1. PICK new, rs : new = <<all>> /\ rs = [result EXCEPT ![pos] = last + 1]
    OBVIOUS
  <2>2. Allocate(new) /\ Visited(g, pair, rs, [stat EXCEPT !.copied = TRUE])
    BY <1>0, <1>4, <1>6, <1>9, <2>1 DEF MergeFamily
  <2>3. new \in Seq(Family) /\ Len(new) = 1 /\ new[1] = all
    BY <1>7, <2>1
  <2>4. Fit(families, new)
    <3>1. ASSUME NEW k \in 1 .. Len(new), NEW i \in DOMAIN new[k].samples
          PROVE  new[k].samples[i] \in 1 .. Len(families) + Len(new)
      <4>1. k = 1
        BY <2>3
      <4>2. new[k].samples[i] \in 1 .. last
        BY <1>7, <2>3, <3>1, <4>1
      <4> QED
        BY <1>0, <1>2, <2>3, <4>2
    <3> QED
      BY <3>1 DEF Fit
  <2>5. /\ FamiliesOK(families', original') /\ Grown(families, families')
        /\ Len(families') = Len(families) + Len(new)
        /\ \A q \in 1 .. Len(families) :
             families'[q] = families[q] /\ original'[q] = original[q]
        /\ \A i \in 1 .. Len(new) :
             /\ families'[Len(families) + i] = new[i]
             /\ original'[Len(families) + i] = new[i]
    BY <1>2, <2>2, <2>3, <2>4, AddedFamilies
  <2>6. Len(families') = last + 1 /\ families'[last + 1] = original'[last + 1]
    BY <1>0, <1>2, <2>3, <2>5
  <2>7. \A q \in Len(families) + 1 .. Len(families') : families'[q] = original'[q]
    BY <1>0, <1>2, <2>6
  <2>8. /\ rs \in Seq(1 .. last + 1) /\ Len(rs) = Len(result) /\ rs[pos] = last + 1
        /\ \A i \in 1 .. Len(result) : rs[i] = result[i] \/ rs[i] = last + 1
    <3>1. result \in Seq(1 .. last + 1)
      BY <1>2
    <3> QED
      BY <1>2, <1>5, <2>1, <3>1
  <2>9. [stat EXCEPT !.copied = TRUE] = [pos |-> pos, copied |-> TRUE]
    <3>1. ASSUME NEW S, NEW r \in [pos : S, copied : BOOLEAN]
          PROVE  [r EXCEPT !.copied = TRUE] = [pos |-> r.pos, copied |-> TRUE]
      <4>1. r = [pos |-> r.pos, copied |-> r.copied]
        OBVIOUS
      <4>2. PICK x : x = [r EXCEPT !.copied = TRUE]
        OBVIOUS
      <4>3. x = [pos |-> r.pos, copied |-> TRUE]
        BY <4>1, <4>2
      <4> QED
        BY <4>2, <4>3
    <3> QED
      BY <1>3, <1>4, <3>1
  <2>10. Visited(g, pair, rs, [pos |-> pos, copied |-> TRUE])
    BY <2>2, <2>9
  <2>11. /\ rs \in Seq(1 .. Len(families')) /\ Len(rs) >= Len(gatherer[g].result)
         /\ pos \in 1 .. Len(rs)
         /\ TRUE => rs[pos] > Len(families)
         /\ \A i \in 1 .. Len(gatherer[g].result) :
              rs[i] = gatherer[g].result[i] \/ rs[i] > Len(families)
    BY <1>0, <1>2, <1>5, <2>6, <2>8
  <2> QED
    BY <2>5, <2>7, <2>10, <2>11, AddingVisit
<1> QED
  BY <1>8, <1>9

\* The family of a failure, new to the heap, and the metrics of its group.
LEMMA FailureFamily ==
  ASSUME TypeInv, SetPushFailedTimestamp, NEW p, p = Len(families) + 1,
         NEW key, key = loop.request.key,
         NEW metrics,
         metrics = Overridden(MetricsOf(key), [n \in {pushFailedMetricName} |-> p])
  PROVE  /\ key \in Keys /\ UpdateGroup(key, metrics)
         /\ FamiliesOK(families', original') /\ Grown(families, families')
         /\ \A q \in 1 .. Len(families) :
              families'[q] = families[q] /\ original'[q] = original[q]
         /\ \A q \in Len(families) + 1 .. Len(families') : families'[q] = original'[q]
         /\ Len(families') = p /\ families'[p].samples = <<p>>
         /\ MetricsOK(families', metrics)
         /\ \A n \in DOMAIN metrics :
              metrics[n] = p \/ (n \in DOMAIN MetricsOf(key) /\ metrics[n] = MetricsOf(key)[n])
<1>1. PICK new : new = <<NewFamily(pushFailedMetricName, "standard", p)>>
  OBVIOUS
<1>2. /\ Allocate(new) /\ UpdateGroup(key, metrics) /\ loop.at = "fail"
  BY <1>1 DEF SetPushFailedTimestamp
<1>3. FamiliesOK(families, original) /\ Len(families) \in Nat /\ key \in Keys
  BY <1>2 DEF TypeInv, FamiliesOK, LoopOK, RequestOK
<1>4. /\ new \in Seq(Family) /\ Len(new) = 1 /\ new[1].samples = <<p>>
      /\ new[1].name = pushFailedMetricName
  <2>1. <<p>> \in Seq(Nat)
    BY <1>3
  <2>2. NewFamily(pushFailedMetricName, "standard", p) \in Family
    BY <2>1, NamesAssumption DEF NewFamily, Family, Helps
  <2> QED
    BY <1>1, <2>2 DEF NewFamily
<1>5. Fit(families, new)
  <2>1. ASSUME NEW k \in 1 .. Len(new), NEW i \in DOMAIN new[k].samples
        PROVE  new[k].samples[i] \in 1 .. Len(families) + Len(new)
    <3>1. k = 1
      BY <1>4
    <3>2. new[k].samples[i] = p
      BY <1>4, <2>1, <3>1
    <3> QED
      BY <1>3, <1>4, <3>2
  <2> QED
    BY <2>1 DEF Fit
<1>6. /\ FamiliesOK(families', original') /\ Grown(families, families')
      /\ Len(families') = Len(families) + Len(new)
      /\ \A q \in 1 .. Len(families) :
           families'[q] = families[q] /\ original'[q] = original[q]
      /\ \A i \in 1 .. Len(new) :
           families'[Len(families) + i] = new[i] /\ original'[Len(families) + i] = new[i]
  BY <1>2, <1>3, <1>4, <1>5, AddedFamilies
<1>7. /\ Len(families') = p /\ families'[p] = original'[p]
      /\ families'[p].name = pushFailedMetricName /\ families'[p].samples = <<p>>
  BY <1>3, <1>4, <1>6
<1>8. \A q \in Len(families) + 1 .. Len(families') : families'[q] = original'[q]
  BY <1>3, <1>7
<1>9. MetricsOK(families, MetricsOf(key))
  BY GroupMetrics DEF TypeInv
<1>10. MetricsOK(families', MetricsOf(key))
  BY <1>6, <1>9, MetricsGrown
<1>11. /\ DOMAIN metrics = DOMAIN MetricsOf(key) \cup {pushFailedMetricName}
       /\ metrics[pushFailedMetricName] = p
       /\ \A n \in DOMAIN metrics : n # pushFailedMetricName => metrics[n] = MetricsOf(key)[n]
  BY DEF Overridden
<1>12. PointsTo(families', p, pushFailedMetricName)
  BY <1>3, <1>7 DEF PointsTo
<1>13. MetricsOK(families', metrics)
  BY <1>10, <1>11, <1>12, NamesAssumption DEF MetricsOK
<1> QED
  BY <1>2, <1>3, <1>6, <1>7, <1>8, <1>11, <1>13

\* What a push makes of the metrics of its group.
LEMMA AppliedMetrics ==
  ASSUME TypeInv, loop.at = "apply", NEW key, key = loop.request.key,
         NEW metrics, metrics = Processed(MetricsOf(key), loop.request)
  PROVE  /\ key \in Keys
         /\ MetricsOK(families, metrics)
         /\ \A n \in DOMAIN metrics :
              \/ n \in DOMAIN MetricsOf(key) /\ metrics[n] = MetricsOf(key)[n]
              \/ n \in DOMAIN loop.request.metrics /\ metrics[n] = loop.request.metrics[n]
              \/ metrics[n] = loop.request.neverFailed
<1>1. RequestOK(families, loop.request) /\ key \in Keys
  BY DEF TypeInv, LoopOK, RequestOK
<1>2. MetricsOK(families, MetricsOf(key))
  BY GroupMetrics DEF TypeInv
<1> QED
  BY <1>1, <1>2, ProcessedMetrics

\* The types are kept when the loop changes the groups, with the write lock.
LEMMA TypesLocked ==
  ASSUME TypeInv, CanLock, loop.at \in {"select", "apply", "fail"}, loop' = Waiting,
         FamiliesOK(families', original'), MapsOK(families', maps', generation'),
         GroupsOK(maps', groups'), UNCHANGED <<gatherer, counts>>
  PROVE  TypeInv'
<1>1. \A g \in Gatherers : gatherer[g].at # "gather"
  BY LockedOut
<1>2. \A g \in Gatherers : GathererOK(families', maps', gatherer'[g])
  BY <1>1 DEF TypeInv, GathererOK
<1>3. LoopOK(families', maps', loop') /\ LockInv'
  BY DEF TypeInv, LoopOK, LockInv, Waiting
<1>4. gatherer' = [g \in Gatherers |-> gatherer'[g]] /\ pushes' = pushes /\ reads' = reads
  BY DEF TypeInv, counts
<1> QED
  BY <1>2, <1>3, <1>4 DEF TypeInv

LEMMA TypesLoop ==
  ASSUME TypeInv,
         \/ \E push \in Pushes : ReceivePush(push)
         \/ CheckWriteRequest
         \/ ProcessWriteRequest
         \/ SetPushFailedTimestamp
         \/ \E key \in Keys : Delete(key)
  PROVE  TypeInv'
<1>1. ASSUME NEW push \in Pushes, ReceivePush(push) PROVE TypeInv'
  <2>1. /\ FamiliesOK(families', original') /\ Grown(families, families')
        /\ LoopOK(families', maps, loop')
    BY <1>1, ReceivedPush
  <2>2. /\ maps' = maps /\ generation' = generation /\ groups' = groups
        /\ gatherer' = gatherer /\ reads' = reads /\ loop.at = "select"
    BY <1>1 DEF ReceivePush, Waiting
  <2>3. pushes' \in 0 .. MaxPushes
    BY <1>1, BoundsAssumption DEF ReceivePush, TypeInv
  <2>4. MapsOK(families', maps', generation') /\ GroupsOK(maps', groups')
    BY <2>1, <2>2, MapsGrown DEF TypeInv
  <2>5. \A g \in Gatherers : GathererOK(families', maps', gatherer'[g])
    BY <2>1, <2>2, GathererGrown DEF TypeInv
  <2>6. LockInv'
    BY <2>2 DEF TypeInv, LockInv
  <2> QED
    BY <2>1, <2>2, <2>3, <2>4, <2>5, <2>6 DEF TypeInv
<1>2. ASSUME CheckWriteRequest PROVE TypeInv'
  <2>1. /\ Extended(maps, maps') /\ MapsOK(families, maps', generation')
        /\ GroupsOK(maps', loop'.trial)
    BY <1>2, TrialMaps
  <2>2. /\ families' = families /\ original' = original /\ groups' = groups
        /\ gatherer' = gatherer /\ pushes' = pushes /\ reads' = reads
        /\ loop.at = "test" /\ loop'.at = "check" /\ loop'.request = loop.request
    BY <1>2 DEF CheckWriteRequest, counts
  <2>3. LoopOK(families', maps', loop')
    BY <2>1, <2>2 DEF TypeInv, LoopOK
  <2>4. \A g \in Gatherers : GathererOK(families', maps', gatherer'[g])
    BY <2>1, <2>2, GathererExtended DEF TypeInv
  <2>5. GroupsOK(maps', groups')
    BY <2>1, <2>2, GroupsExtended DEF TypeInv
  <2>6. LockInv'
    BY <2>2 DEF LockInv
  <2> QED
    BY <2>1, <2>2, <2>3, <2>4, <2>5, <2>6 DEF TypeInv
<1>3. ASSUME ProcessWriteRequest PROVE TypeInv'
  <2>1. PICK key, metrics : /\ key = loop.request.key
                            /\ metrics = Processed(MetricsOf(key), loop.request)
    OBVIOUS
  <2>2. /\ loop.at = "apply" /\ CanLock /\ loop' = Waiting /\ UpdateGroup(key, metrics)
        /\ UNCHANGED <<families, original, gatherer, counts>>
    BY <1>3, <2>1 DEF ProcessWriteRequest
  <2>3. key \in Keys /\ MetricsOK(families, metrics)
    BY <2>1, <2>2, AppliedMetrics
  <2>4. Grown(families, families)
    BY DEF TypeInv, FamiliesOK, Grown
  <2>5. MapsOK(families, maps', generation') /\ GroupsOK(maps', groups')
    BY <2>2, <2>3, <2>4, UpdatedGroup DEF TypeInv
  <2>6. FamiliesOK(families', original') /\ MapsOK(families', maps', generation')
    BY <2>2, <2>5 DEF TypeInv
  <2> QED
    BY <2>2, <2>5, <2>6, TypesLocked
<1>4. ASSUME SetPushFailedTimestamp PROVE TypeInv'
  <2>1. PICK p, key : p = Len(families) + 1 /\ key = loop.request.key
    OBVIOUS
  <2>2. PICK metrics :
          metrics = Overridden(MetricsOf(key), [n \in {pushFailedMetricName} |-> p])
    OBVIOUS
  <2>3. /\ loop.at = "fail" /\ CanLock /\ loop' = Waiting
        /\ UNCHANGED <<gatherer, counts>>
    BY <1>4 DEF SetPushFailedTimestamp
  <2>4. /\ key \in Keys /\ UpdateGroup(key, metrics)
        /\ FamiliesOK(families', original') /\ Grown(families, families')
        /\ MetricsOK(families', metrics)
    BY <1>4, <2>1, <2>2, FailureFamily
  <2>5. MapsOK(families', maps', generation') /\ GroupsOK(maps', groups')
    BY <2>4, UpdatedGroup DEF TypeInv
  <2> QED
    BY <2>3, <2>4, <2>5, TypesLocked
<1>5. ASSUME NEW key \in Keys, Delete(key) PROVE TypeInv'
  <2>1. /\ loop.at = "select" /\ CanLock /\ loop' = Waiting
        /\ families' = families /\ original' = original /\ maps' = maps
        /\ generation' = generation /\ UNCHANGED <<gatherer, counts>>
        /\ groups' = Restrict(groups, DOMAIN groups \ {key})
    BY <1>5 DEF Delete, Waiting, heap
  <2>2. GroupsOK(maps', groups')
    BY <2>1 DEF TypeInv, GroupsOK, Restrict
  <2>3. FamiliesOK(families', original') /\ MapsOK(families', maps', generation')
    BY <2>1 DEF TypeInv
  <2> QED
    BY <2>1, <2>2, <2>3, TypesLocked
<1> QED
  BY <1>1, <1>2, <1>3, <1>4, <1>5

LEMMA Visit ==
  ASSUME TypeInv, NEW g \in Gatherers, VisitFamily(g)
  PROVE  gatherer[g].at = "gather" /\ VisitOK(g)
<1>1. gatherer[g].at = "gather"
  BY DEF VisitFamily
<1>2. PICK pair \in Upcoming(g) : AddFamily(g, pair) \/ MergeFamily(g, pair)
  BY DEF VisitFamily
<1>3. pair \in gatherer[g].todo
  BY <1>2 DEF Upcoming
<1> QED
  BY <1>1, <1>2, <1>3, AddedFamily, MergedFamily

LEMMA TypesVisit ==
  ASSUME TypeInv, NEW g \in Gatherers, VisitFamily(g)
  PROVE  TypeInv'
<1>1. gatherer[g].at = "gather" /\ VisitOK(g)
  BY Visit
<1>2. /\ maps' = maps /\ generation' = generation /\ groups' = groups /\ loop' = loop
      /\ pushes' = pushes /\ reads' = reads
  BY DEF VisitFamily, counts
<1>3. /\ FamiliesOK(families', original') /\ Grown(families, families')
      /\ gatherer' = [h \in Gatherers |-> gatherer'[h]]
      /\ \A h \in Gatherers : h # g => gatherer'[h] = gatherer[h]
      /\ gatherer'[g].at = "gather" /\ ProgressOK(families', maps, gatherer'[g])
  BY <1>1 DEF VisitOK
<1>4. MapsOK(families', maps, generation) /\ LoopOK(families', maps, loop)
  BY <1>3, MapsGrown, LoopGrown DEF TypeInv
<1>5. ASSUME NEW h \in Gatherers PROVE GathererOK(families', maps, gatherer'[h])
  <2>1. CASE h = g
    BY <1>3, <2>1 DEF GathererOK
  <2>2. CASE h # g
    BY <1>3, <2>2, GathererGrown DEF TypeInv
  <2> QED
    BY <2>1, <2>2
<1>6. LockInv'
  BY <1>1, <1>2, <1>3, NamesAssumption DEF TypeInv, LockInv, Gatherers
<1> QED
  BY <1>2, <1>3, <1>4, <1>5, <1>6 DEF TypeInv

\* A snapshot copies the maps of the groups to new places, and leaves the others.
LEMMA CopiedGroups ==
  ASSUME TypeInv, NEW r \in Readers, TakeSnapshot(r),
         NEW copy, copy = GetMetricFamiliesMap(DOMAIN groups)
  PROVE  /\ DOMAIN copy = DOMAIN groups /\ Extended(maps, maps')
         /\ MapsOK(families, maps', generation') /\ GroupsOK(maps', copy)
         /\ \A k \in DOMAIN copy : copy[k] \notin DOMAIN maps /\ maps'[copy[k]] = maps[groups[k]]
<1>1. MapsOK(families, maps, generation) /\ GroupsOK(maps, groups)
  BY DEF TypeInv
<1>2. maps' = MapsWith(copy) /\ generation' = generation + 1
  BY DEF TakeSnapshot
<1> QED
  BY <1>1, <1>2, CopiedMaps

\* A snapshot is taken: its maps are new.
LEMMA TakenSnapshot ==
  ASSUME TypeInv, NEW r \in Readers, TakeSnapshot(r),
         NEW copy, copy = GetMetricFamiliesMap(DOMAIN groups)
  PROVE  /\ Extended(maps, maps') /\ MapsOK(families, maps', generation')
         /\ DOMAIN copy = DOMAIN groups /\ GroupsOK(maps', copy)
         /\ \A k \in DOMAIN copy : copy[k] \notin DOMAIN maps /\ maps'[copy[k]] = maps[groups[k]]
         /\ \A m \in DOMAIN maps' :
              m \in DOMAIN maps \/ \E l \in DOMAIN maps : maps'[m] = maps[l]
         /\ gatherer' = [h \in Gatherers |-> gatherer'[h]]
         /\ \A h \in Gatherers : h # r => gatherer'[h] = gatherer[h]
         /\ gatherer'[r] = [at |-> "snapshot", copy |-> copy, expected |-> Contents(groups)]
         /\ reads' \in 0 .. MaxReads
<1>1. GroupsOK(maps, groups)
  BY DEF TypeInv
<1>2. maps' = MapsWith(copy)
  BY DEF TakeSnapshot
<1>3. /\ DOMAIN copy = DOMAIN groups /\ Extended(maps, maps')
      /\ MapsOK(families, maps', generation') /\ GroupsOK(maps', copy)
      /\ \A k \in DOMAIN copy : copy[k] \notin DOMAIN maps /\ maps'[copy[k]] = maps[groups[k]]
  BY CopiedGroups
<1>4. DOMAIN maps' = DOMAIN maps \cup Range(copy)
  BY <1>2 DEF MapsWith, Overridden
<1>5. ASSUME NEW m \in DOMAIN maps', m \notin DOMAIN maps
      PROVE  \E l \in DOMAIN maps : maps'[m] = maps[l]
  <2>1. PICK k \in DOMAIN copy : m = copy[k]
    BY <1>4, <1>5 DEF Range
  <2> QED
    BY <1>1, <1>3, <2>1 DEF GroupsOK
<1>6. /\ gatherer' = [h \in Gatherers |-> gatherer'[h]]
      /\ \A h \in Gatherers : h # r => gatherer'[h] = gatherer[h]
      /\ gatherer'[r] = [at |-> "snapshot", copy |-> copy, expected |-> Contents(groups)]
  BY DEF TakeSnapshot, TypeInv, Gatherers
<1>7. reads' \in 0 .. MaxReads
  BY BoundsAssumption DEF TakeSnapshot, TypeInv
<1> QED
  BY <1>3, <1>5, <1>6, <1>7

LEMMA TypesSnapshot ==
  ASSUME TypeInv, NEW r \in Readers, TakeSnapshot(r)
  PROVE  TypeInv'
<1>1. PICK copy : copy = GetMetricFamiliesMap(DOMAIN groups)
  OBVIOUS
<1>2. /\ Extended(maps, maps') /\ MapsOK(families, maps', generation')
      /\ gatherer' = [h \in Gatherers |-> gatherer'[h]]
      /\ \A h \in Gatherers : h # r => gatherer'[h] = gatherer[h]
      /\ gatherer'[r] = [at |-> "snapshot", copy |-> copy, expected |-> Contents(groups)]
      /\ reads' \in 0 .. MaxReads
  BY <1>1, TakenSnapshot
<1>3. /\ families' = families /\ original' = original /\ groups' = groups
      /\ loop' = loop /\ pushes' = pushes
  BY DEF TakeSnapshot
<1>4. GroupsOK(maps', groups) /\ LoopOK(families, maps', loop)
  BY <1>2, GroupsExtended, LoopExtended DEF TypeInv
<1>5. ASSUME NEW h \in Gatherers PROVE GathererOK(families, maps', gatherer'[h])
  <2>1. CASE h = r
    BY <1>2, <2>1 DEF GathererOK
  <2>2. CASE h # r
    BY <1>2, <2>2, GathererExtended DEF TypeInv
  <2> QED
    BY <2>1, <2>2
<1>6. LockInv'
  BY <1>2, <1>3, NamesAssumption DEF TypeInv, LockInv, Gatherers
<1> QED
  BY <1>2, <1>3, <1>4, <1>5, <1>6 DEF TypeInv

LEMMA TypesKept == TypeInv /\ [Next]_vars => TypeInv'
<1> SUFFICES ASSUME TypeInv, [Next]_vars PROVE TypeInv'
  OBVIOUS
<1>1. CASE UNCHANGED vars
  BY <1>1 DEF vars, heap, counts, TypeInv, FamiliesOK, MapsOK, MetricsOK, GroupsOK,
              LoopOK, GathererOK, ProgressOK, LockInv, PointsTo, RequestOK, PairsIn
<1>2. CASE Next
  BY <1>2, TypesLoop, TypesGathering, TypesVisit, TypesSnapshot DEF Next
<1> QED
  BY <1>1, <1>2

\* The types of the heap: names lead to families of these names, samples to
\* families they were pushed with, and what a gathering has still to visit is still
\* there, as the read lock keeps the store's goroutine from changing the maps.
THEOREM HeapTypes == Spec => []TypeOK
<1>1. Init => TypeInv
  BY TypesInitial
<1>2. TypeInv /\ [Next]_vars => TypeInv'
  BY TypesKept
<1>3. TypeInv => TypeOK
  BY TypeInvSuffices
<1> QED
  BY <1>1, <1>2, <1>3, PTL DEF Spec

-----------------------------------------------------------------------------
(* What is stored stays as it was pushed.                                  *)

\* A family that a map, or the request under way, points to.
StoredIn(ms, lp, p) ==
  \/ \E m \in DOMAIN ms : \E n \in DOMAIN ms[m] : ms[m][n] = p
  \/ /\ lp.at # "select"
     /\ p = lp.request.neverFailed \/ \E n \in DOMAIN lp.request.metrics : lp.request.metrics[n] = p

\* It is as it was made, and no copy that a gathering may change.
StoredInv ==
  /\ \A p \in 1 .. Len(families) :
       StoredIn(maps, loop, p) => families[p] = original[p]
  /\ \A g \in Gatherers : gatherer[g].at = "gather" =>
       \A p \in Copies(gatherer[g]) : ~ StoredIn(maps, loop, p)

\* Whatever the heap points to after a step, it pointed to before, or it is new.
NothingElseStored ==
  \A p : StoredIn(maps', loop', p) => StoredIn(maps, loop, p) \/ p > Len(families)

LEMMA CopiesInHeap ==
  ASSUME TypeInv, NEW g \in Gatherers, gatherer[g].at = "gather"
  PROVE  Copies(gatherer[g]) \subseteq 1 .. Len(families)
<1>1. /\ gatherer[g].result \in Seq(1 .. Len(families))
      /\ \A n \in DOMAIN gatherer[g].mfStatByName :
           gatherer[g].mfStatByName[n] \in [pos : 1 .. Len(gatherer[g].result), copied : BOOLEAN]
  BY DEF TypeInv, GathererOK, ProgressOK
<1> QED
  BY <1>1 DEF Copies

\* A step of the loop, or one that begins or ends a reading.
LEMMA StoredKept ==
  ASSUME TypeInv, StoredInv, NothingElseStored,
         Len(families') \in Nat,
         \A q \in 1 .. Len(families) :
            families'[q] = families[q] /\ original'[q] = original[q],
         \A q \in Len(families) + 1 .. Len(families') : families'[q] = original'[q],
         \A g \in Gatherers : gatherer'[g].at = "gather" =>
            \/ gatherer'[g] = gatherer[g]
            \/ Copies(gatherer'[g]) = {}
  PROVE  StoredInv'
<1>1. Len(families) \in Nat
  BY DEF TypeInv, FamiliesOK
<1>2. ASSUME NEW p \in 1 .. Len(families'), StoredIn(maps', loop', p)
      PROVE  families'[p] = original'[p]
  <2>1. CASE p \in 1 .. Len(families)
    BY <1>1, <1>2, <2>1 DEF NothingElseStored, StoredInv
  <2>2. CASE p \notin 1 .. Len(families)
    BY <1>1, <1>2, <2>2
  <2> QED
    BY <2>1, <2>2
<1>3. ASSUME NEW g \in Gatherers, gatherer'[g].at = "gather", NEW p \in Copies(gatherer'[g])
      PROVE  ~ StoredIn(maps', loop', p)
  <2>1. gatherer'[g] = gatherer[g]
    BY <1>3
  <2>2. p \in 1 .. Len(families) /\ ~ StoredIn(maps, loop, p)
    BY <1>3, <2>1, CopiesInHeap DEF StoredInv
  <2> QED
    BY <1>1, <2>2 DEF NothingElseStored
<1> QED
  BY <1>2, <1>3 DEF StoredInv

\* The metrics of a group are stored, and so are those of the request.
LEMMA MetricsStored ==
  ASSUME TypeInv, NEW key, NEW n \in DOMAIN MetricsOf(key)
  PROVE  StoredIn(maps, loop, MetricsOf(key)[n])
BY DEF TypeInv, GroupsOK, MetricsOf, StoredIn

\* When the metrics of a group become others, no more is stored than before.
LEMMA NothingElseUpdated ==
  ASSUME TypeInv, loop' = Waiting, NEW key \in Keys, NEW metrics, UpdateGroup(key, metrics),
         NEW fs, Grown(families, fs), MetricsOK(fs, metrics),
         \A n \in DOMAIN metrics :
            StoredIn(maps, loop, metrics[n]) \/ metrics[n] > Len(families)
  PROVE  NothingElseStored
<1>1. PICK target : target = groups'[key]
  OBVIOUS
<1>2. /\ DOMAIN maps' = DOMAIN maps \cup {target} /\ maps'[target] = metrics
      /\ \A m \in DOMAIN maps : m # target => maps'[m] = maps[m]
  BY <1>1, UpdatedGroup DEF TypeInv
<1>3. ASSUME NEW p, StoredIn(maps', loop', p)
      PROVE  StoredIn(maps, loop, p) \/ p > Len(families)
  <2>1. PICK m \in DOMAIN maps' : \E n \in DOMAIN maps'[m] : maps'[m][n] = p
    BY <1>3 DEF StoredIn, Waiting
  <2>2. CASE m = target
    BY <1>2, <2>1, <2>2
  <2>3. CASE m # target
    BY <1>2, <2>1, <2>3 DEF StoredIn
  <2> QED
    BY <2>2, <2>3
<1> QED
  BY <1>3 DEF NothingElseStored

LEMMA StoredInitial == Init => StoredInv
BY DEF Init, StoredInv, StoredIn, Waiting, Idle, Gatherers

LEMMA StoredLoop ==
  ASSUME TypeInv, StoredInv,
         \/ \E push \in Pushes : ReceivePush(push)
         \/ CheckWriteRequest
         \/ ProcessWriteRequest
         \/ SetPushFailedTimestamp
         \/ \E key \in Keys : Delete(key)
  PROVE  StoredInv'
<1>1. FamiliesOK(families, original) /\ Len(families) \in Nat
  BY DEF TypeInv, FamiliesOK
<1>2. ASSUME NEW push \in Pushes, ReceivePush(push) PROVE StoredInv'
  <2>1. /\ FamiliesOK(families', original')
        /\ \A p \in 1 .. Len(families) :
             families'[p] = families[p] /\ original'[p] = original[p]
        /\ \A p \in Len(families) + 1 .. Len(families') : families'[p] = original'[p]
        /\ \A n \in DOMAIN loop'.request.metrics :
             loop'.request.metrics[n] > Len(families)
        /\ loop'.request.neverFailed > Len(families)
    BY <1>2, ReceivedPush
  <2>2. maps' = maps /\ gatherer' = gatherer
    BY <1>2 DEF ReceivePush
  <2>3. NothingElseStored
    BY <2>1, <2>2 DEF NothingElseStored, StoredIn
  <2>4. Len(families') \in Nat
    BY <2>1 DEF FamiliesOK
  <2> QED
    BY <2>1, <2>2, <2>3, <2>4, StoredKept
<1>3. ASSUME CheckWriteRequest PROVE StoredInv'
  <2>1. \A m \in DOMAIN maps' : \A n \in DOMAIN maps'[m] :
          \/ \E l \in DOMAIN maps : n \in DOMAIN maps[l] /\ maps'[m][n] = maps[l][n]
          \/ n \in DOMAIN loop.request.metrics /\ maps'[m][n] = loop.request.metrics[n]
          \/ maps'[m][n] = loop.request.neverFailed
    BY <1>3, TrialMaps
  <2>2. /\ families' = families /\ original' = original /\ gatherer' = gatherer
        /\ loop.at = "test" /\ loop'.request = loop.request
    BY <1>3 DEF CheckWriteRequest
  <2>3. NothingElseStored
    BY <2>1, <2>2 DEF NothingElseStored, StoredIn
  <2> QED
    BY <1>1, <2>2, <2>3, StoredKept
<1>4. ASSUME ProcessWriteRequest PROVE StoredInv'
  <2>1. PICK key, metrics : /\ key = loop.request.key
                            /\ metrics = Processed(MetricsOf(key), loop.request)
    OBVIOUS
  <2>2. /\ loop.at = "apply" /\ loop' = Waiting /\ UpdateGroup(key, metrics)
        /\ families' = families /\ original' = original /\ gatherer' = gatherer
    BY <1>4, <2>1 DEF ProcessWriteRequest
  <2>3. /\ key \in Keys /\ MetricsOK(families, metrics)
        /\ \A n \in DOMAIN metrics :
             \/ n \in DOMAIN MetricsOf(key) /\ metrics[n] = MetricsOf(key)[n]
             \/ n \in DOMAIN loop.request.metrics /\ metrics[n] = loop.request.metrics[n]
             \/ metrics[n] = loop.request.neverFailed
    BY <2>1, <2>2, AppliedMetrics
  <2>4. \A n \in DOMAIN metrics : StoredIn(maps, loop, metrics[n])
    <3>1. ASSUME NEW n \in DOMAIN metrics PROVE StoredIn(maps, loop, metrics[n])
      <4>1. CASE n \in DOMAIN MetricsOf(key) /\ metrics[n] = MetricsOf(key)[n]
        BY <4>1, MetricsStored
      <4>2. CASE \/ n \in DOMAIN loop.request.metrics /\ metrics[n] = loop.request.metrics[n]
                 \/ metrics[n] = loop.request.neverFailed
        BY <2>2, <4>2 DEF StoredIn
      <4> QED
        BY <2>3, <4>1, <4>2
    <3> QED
      BY <3>1
  <2>5. Grown(families, families)
    BY <1>1 DEF Grown
  <2>6. NothingElseStored
    BY <2>2, <2>3, <2>4, <2>5, NothingElseUpdated
  <2> QED
    BY <1>1, <2>2, <2>6, StoredKept
<1>5. ASSUME SetPushFailedTimestamp PROVE StoredInv'
  <2>1. PICK p, key : p = Len(families) + 1 /\ key = loop.request.key
    OBVIOUS
  <2>2. PICK metrics :
          metrics = Overridden(MetricsOf(key), [n \in {pushFailedMetricName} |-> p])
    OBVIOUS
  <2>3. loop' = Waiting /\ gatherer' = gatherer
    BY <1>5 DEF SetPushFailedTimestamp
  <2>4. /\ key \in Keys /\ UpdateGroup(key, metrics)
        /\ FamiliesOK(families', original') /\ Grown(families, families')
        /\ \A q \in 1 .. Len(families) :
             families'[q] = families[q] /\ original'[q] = original[q]
        /\ \A q \in Len(families) + 1 .. Len(families') : families'[q] = original'[q]
        /\ MetricsOK(families', metrics)
        /\ \A n \in DOMAIN metrics :
             metrics[n] = p \/ (n \in DOMAIN MetricsOf(key) /\ metrics[n] = MetricsOf(key)[n])
    <3>1. /\ key \in Keys /\ UpdateGroup(key, metrics)
          /\ FamiliesOK(families', original') /\ Grown(families, families')
          /\ MetricsOK(families', metrics)
      BY <1>5, <2>1, <2>2, FailureFamily
    <3>2. /\ \A q \in 1 .. Len(families) :
               families'[q] = families[q] /\ original'[q] = original[q]
          /\ \A q \in Len(families) + 1 .. Len(families') : families'[q] = original'[q]
      BY <1>5, <2>1, <2>2, FailureFamily
    <3>3. \A n \in DOMAIN metrics :
            metrics[n] = p \/ (n \in DOMAIN MetricsOf(key) /\ metrics[n] = MetricsOf(key)[n])
      BY <2>2 DEF Overridden
    <3> QED
      BY <3>1, <3>2, <3>3
  <2>5. ASSUME NEW n \in DOMAIN metrics
        PROVE  StoredIn(maps, loop, metrics[n]) \/ metrics[n] > Len(families)
    <3>0. p > Len(families)
      BY <1>1, <2>1
    <3>1. CASE metrics[n] = p
      BY <3>0, <3>1
    <3>2. CASE n \in DOMAIN MetricsOf(key) /\ metrics[n] = MetricsOf(key)[n]
      BY <3>2, MetricsStored
    <3> QED
      BY <2>4, <3>1, <3>2
  <2>6. NothingElseStored
    <3>1. PICK fs : fs = families'
      OBVIOUS
    <3> QED
      BY <2>3, <2>4, <2>5, <3>1, NothingElseUpdated
  <2>7. Len(families') \in Nat
    BY <2>4 DEF FamiliesOK
  <2> QED
    BY <2>3, <2>4, <2>6, <2>7, StoredKept
<1>6. ASSUME NEW key \in Keys, Delete(key) PROVE StoredInv'
  <2>1. /\ families' = families /\ original' = original /\ maps' = maps
        /\ loop' = loop /\ gatherer' = gatherer
    BY <1>6 DEF Delete, heap
  <2>2. NothingElseStored
    BY <2>1 DEF NothingElseStored
  <2> QED
    BY <1>1, <2>1, <2>2, StoredKept
<1> QED
  BY <1>2, <1>3, <1>4, <1>5, <1>6

LEMMA StoredGathering ==
  ASSUME TypeInv, StoredInv,
         \/ GatherTrial \/ Verdict
         \/ \E r \in Readers : TakeSnapshot(r) \/ GetMetricFamilies(r) \/ Forget(r)
         \/ \E g \in Gatherers : ReturnFamilies(g)
  PROVE  StoredInv'
<1>1. FamiliesOK(families, original) /\ Len(families) \in Nat
  BY DEF TypeInv, FamiliesOK
<1>2. gatherer = [g \in Gatherers |-> gatherer[g]]
  BY DEF TypeInv
<1>3. \A gs, samples : Copies(Gathering(gs, samples)) = {}
  BY DEF Copies, Gathering
<1>4. families' = families /\ original' = original
  BY DEF GatherTrial, Verdict, TakeSnapshot, GetMetricFamilies, Forget, ReturnFamilies, heap
<1>5. NothingElseStored
  <2>1. CASE GatherTrial
    BY <2>1 DEF GatherTrial, heap, NothingElseStored
  <2>2. CASE Verdict
    BY <2>2 DEF Verdict, heap, NothingElseStored, StoredIn
  <2>3. ASSUME NEW r \in Readers, GetMetricFamilies(r) \/ Forget(r) PROVE NothingElseStored
    BY <2>3 DEF GetMetricFamilies, Forget, heap, NothingElseStored
  <2>4. ASSUME NEW g \in Gatherers, ReturnFamilies(g) PROVE NothingElseStored
    BY <2>4 DEF ReturnFamilies, heap, NothingElseStored
  <2>5. ASSUME NEW r \in Readers, TakeSnapshot(r) PROVE NothingElseStored
    <3>1. PICK copy : copy = GetMetricFamiliesMap(DOMAIN groups)
      OBVIOUS
    <3>2. /\ Extended(maps, maps')
          /\ \A m \in DOMAIN maps' :
               m \in DOMAIN maps \/ \E l \in DOMAIN maps : maps'[m] = maps[l]
      BY <2>5, <3>1, TakenSnapshot
    <3>3. loop' = loop
      BY <2>5 DEF TakeSnapshot
    <3> QED
      BY <3>2, <3>3 DEF NothingElseStored, StoredIn, Extended
  <2> QED
    BY <2>1, <2>2, <2>3, <2>4, <2>5
<1>6. ASSUME NEW g \in Gatherers, gatherer'[g].at = "gather"
      PROVE  gatherer'[g] = gatherer[g] \/ Copies(gatherer'[g]) = {}
  <2>1. CASE GatherTrial
    BY <1>2, <1>3, <2>1 DEF GatherTrial
  <2>2. CASE Verdict
    BY <1>2, <1>6, <2>2 DEF Verdict, Idle
  <2>3. ASSUME NEW r \in Readers, GetMetricFamilies(r) \/ Forget(r) \/ TakeSnapshot(r)
        PROVE  gatherer'[g] = gatherer[g] \/ Copies(gatherer'[g]) = {}
    BY <1>2, <1>3, <1>6, <2>3 DEF GetMetricFamilies, Forget, TakeSnapshot, Idle
  <2>4. ASSUME NEW h \in Gatherers, ReturnFamilies(h)
        PROVE  gatherer'[g] = gatherer[g] \/ Copies(gatherer'[g]) = {}
    BY <1>2, <1>6, <2>4 DEF ReturnFamilies
  <2> QED
    BY <2>1, <2>2, <2>3, <2>4
<1> QED
  BY <1>1, <1>4, <1>5, <1>6, StoredKept

LEMMA StoredVisit ==
  ASSUME TypeInv, StoredInv, NEW g \in Gatherers, VisitFamily(g)
  PROVE  StoredInv'
<1>1. /\ gatherer[g].at = "gather"
      /\ \A h \in Gatherers : h # g => gatherer'[h] = gatherer[h]
      /\ \A q \in 1 .. Len(families) :
           /\ original'[q] = original[q]
           /\ families'[q] = families[q] \/ q \in Copies(gatherer[g])
      /\ \A q \in Len(families) + 1 .. Len(families') : families'[q] = original'[q]
      /\ \A q \in Copies(gatherer'[g]) : q > Len(families) \/ q \in Copies(gatherer[g])
      /\ FamiliesOK(families', original')
  BY Visit DEF VisitOK
<1>2. maps' = maps /\ loop' = loop
  BY DEF VisitFamily
<1>3. Len(families) \in Nat /\ Len(families') \in Nat
  BY <1>1 DEF TypeInv, FamiliesOK
<1>4. ASSUME NEW p, StoredIn(maps, loop, p) PROVE p \in 1 .. Len(families)
  BY <1>4 DEF TypeInv, MapsOK, MetricsOK, LoopOK, RequestOK, PointsTo, StoredIn
<1>5. ASSUME NEW p, StoredIn(maps, loop, p) PROVE families'[p] = original'[p]
  <2>1. p \in 1 .. Len(families) /\ p \notin Copies(gatherer[g]) /\ families[p] = original[p]
    BY <1>1, <1>4, <1>5 DEF StoredInv
  <2> QED
    BY <1>1, <2>1
<1>6. ASSUME NEW h \in Gatherers, gatherer'[h].at = "gather", NEW p \in Copies(gatherer'[h])
      PROVE  ~ StoredIn(maps, loop, p)
  <2>1. CASE h = g /\ p > Len(families)
    BY <1>3, <1>4, <2>1
  <2>2. CASE h = g /\ p \in Copies(gatherer[g])
    BY <1>1, <2>2 DEF StoredInv
  <2>3. CASE h # g
    BY <1>1, <1>6, <2>3 DEF StoredInv
  <2> QED
    BY <1>1, <1>6, <2>1, <2>2, <2>3
<1> QED
  BY <1>2, <1>5, <1>6 DEF StoredInv

LEMMA StoredSteps == TypeInv /\ StoredInv /\ [Next]_vars => StoredInv'
<1> SUFFICES ASSUME TypeInv, StoredInv, [Next]_vars PROVE StoredInv'
  OBVIOUS
<1>1. CASE UNCHANGED vars
  BY <1>1 DEF vars, heap, StoredInv, StoredIn, Copies
<1>2. CASE Next
  BY <1>2, StoredLoop, StoredGathering, StoredVisit DEF Next
<1> QED
  BY <1>1, <1>2

\* Whatever is pushed, gathered and checked, and however the gatherings interleave:
\* a stored family is as it was when it was pushed.  It takes more than the groups:
\* nothing that the heap of maps or the request under way points to changes, since
\* what a gathering may change it has made itself.
THEOREM StoredStaysUnchanged == Spec => []StoredUnchanged
<1>1. Init => TypeInv /\ StoredInv
  BY TypesInitial, StoredInitial
<1>2. TypeInv /\ StoredInv /\ [Next]_vars => TypeInv' /\ StoredInv'
  BY TypesKept, StoredSteps
<1>3. TypeInv /\ StoredInv => StoredUnchanged
  <2> SUFFICES ASSUME TypeInv, StoredInv, NEW k \in DOMAIN groups, NEW n \in Names,
                      n \in DOMAIN maps[groups[k]]
               PROVE  families[maps[groups[k]][n]] = original[maps[groups[k]][n]]
    BY DEF StoredUnchanged
  <2>1. PICK p : p = maps[groups[k]][n]
    OBVIOUS
  <2>2. groups[k] \in DOMAIN maps /\ p \in 1 .. Len(families)
    BY <2>1 DEF TypeInv, GroupsOK, MapsOK, MetricsOK, PointsTo
  <2>3. StoredIn(maps, loop, p)
    BY <2>1, <2>2 DEF StoredIn
  <2>4. families[p] = original[p]
    BY <2>2, <2>3 DEF StoredInv
  <2> QED
    BY <2>1, <2>4
<1> QED
  BY <1>1, <1>2, <1>3, PTL DEF Spec

-----------------------------------------------------------------------------
(* What was handed out stays as it was.                                    *)

\* The maps of a snapshot are no groups of the store.
SnapshotOK(g) ==
  /\ \A k \in DOMAIN g.copy : /\ g.copy[k] \in DOMAIN maps
                              /\ \A l \in DOMAIN groups : g.copy[k] # groups[l]
  /\ [k \in DOMAIN g.copy |-> maps[g.copy[k]]] = g.expected

SnapshotInv == \A r \in Readers : gatherer[r].at = "snapshot" => SnapshotOK(gatherer[r])

\* A step changes no map but those of groups, and makes groups of new maps only.
OnlyGroupsChange ==
  /\ \A m \in DOMAIN maps :
       /\ m \in DOMAIN maps'
       /\ (\A l \in DOMAIN groups : m # groups[l]) => maps'[m] = maps[m]
  /\ \A k \in DOMAIN groups' :
       \/ k \in DOMAIN groups /\ groups'[k] = groups[k]
       \/ groups'[k] \notin DOMAIN maps

LEMMA SnapshotKept ==
  ASSUME NEW g, SnapshotOK(g), OnlyGroupsChange
  PROVE  SnapshotOK(g)'
<1>1. ASSUME NEW k \in DOMAIN g.copy
      PROVE  /\ g.copy[k] \in DOMAIN maps'
             /\ \A l \in DOMAIN groups' : g.copy[k] # groups'[l]
             /\ maps'[g.copy[k]] = maps[g.copy[k]]
  BY DEF SnapshotOK, OnlyGroupsChange
<1> QED
  BY <1>1 DEF SnapshotOK

LEMMA UpdateChangesGroups ==
  ASSUME TypeInv, NEW key \in Keys, NEW metrics, UpdateGroup(key, metrics),
         NEW fs, Grown(families, fs), MetricsOK(fs, metrics)
  PROVE  OnlyGroupsChange
<1>1. /\ \A k \in DOMAIN groups' :
           \/ k \in DOMAIN groups /\ groups'[k] = groups[k]
           \/ groups'[k] \notin DOMAIN maps
      /\ DOMAIN maps' = DOMAIN maps \cup {groups'[key]}
      /\ \A m \in DOMAIN maps : m # groups'[key] => maps'[m] = maps[m]
      /\ \/ key \in DOMAIN groups /\ groups'[key] = groups[key]
         \/ groups'[key] \notin DOMAIN maps
  BY UpdatedGroup DEF TypeInv
<1> QED
  BY <1>1 DEF OnlyGroupsChange

LEMMA LoopChangesGroups ==
  ASSUME TypeInv,
         \/ \E push \in Pushes : ReceivePush(push)
         \/ CheckWriteRequest
         \/ ProcessWriteRequest
         \/ SetPushFailedTimestamp
         \/ \E key \in Keys : Delete(key)
  PROVE  OnlyGroupsChange
<1>1. ASSUME NEW push \in Pushes, ReceivePush(push) PROVE OnlyGroupsChange
  BY <1>1 DEF ReceivePush, OnlyGroupsChange
<1>2. ASSUME CheckWriteRequest PROVE OnlyGroupsChange
  <2>1. Extended(maps, maps')
    BY <1>2, TrialMaps
  <2>2. groups' = groups
    BY <1>2 DEF CheckWriteRequest
  <2> QED
    BY <2>1, <2>2 DEF OnlyGroupsChange, Extended
<1>3. ASSUME ProcessWriteRequest PROVE OnlyGroupsChange
  <2>1. PICK key, metrics : /\ key = loop.request.key
                            /\ metrics = Processed(MetricsOf(key), loop.request)
    OBVIOUS
  <2>2. loop.at = "apply" /\ UpdateGroup(key, metrics)
    BY <1>3, <2>1 DEF ProcessWriteRequest
  <2>3. key \in Keys /\ MetricsOK(families, metrics)
    BY <2>1, <2>2, AppliedMetrics
  <2>4. Grown(families, families)
    BY DEF TypeInv, FamiliesOK, Grown
  <2> QED
    BY <2>2, <2>3, <2>4, UpdateChangesGroups
<1>4. ASSUME SetPushFailedTimestamp PROVE OnlyGroupsChange
  <2>1. PICK p, key : p = Len(families) + 1 /\ key = loop.request.key
    OBVIOUS
  <2>2. PICK metrics :
          metrics = Overridden(MetricsOf(key), [n \in {pushFailedMetricName} |-> p])
    OBVIOUS
  <2>3. /\ key \in Keys /\ UpdateGroup(key, metrics)
        /\ Grown(families, families') /\ MetricsOK(families', metrics)
    BY <1>4, <2>1, <2>2, FailureFamily
  <2>4. PICK fs : fs = families'
    OBVIOUS
  <2> QED
    BY <2>3, <2>4, UpdateChangesGroups
<1>5. ASSUME NEW key \in Keys, Delete(key) PROVE OnlyGroupsChange
  <2>1. maps' = maps /\ groups' = Restrict(groups, DOMAIN groups \ {key})
    BY <1>5 DEF Delete, heap
  <2> QED
    BY <2>1 DEF OnlyGroupsChange, Restrict
<1> QED
  BY <1>1, <1>2, <1>3, <1>4, <1>5

LEMMA SnapshotSteps == TypeInv /\ SnapshotInv /\ [Next]_vars => SnapshotInv'
<1> SUFFICES ASSUME TypeInv, SnapshotInv, [Next]_vars,
                    NEW r \in Readers, gatherer'[r].at = "snapshot"
             PROVE  SnapshotOK(gatherer[r])'
  BY DEF SnapshotInv
<1>1. /\ gatherer = [g \in Gatherers |-> gatherer[g]] /\ r \in Gatherers /\ r # Check
      /\ gatherer[r].at = "snapshot" => SnapshotOK(gatherer[r])
  BY NamesAssumption DEF TypeInv, SnapshotInv, Gatherers
<1>2. ASSUME gatherer'[r] = gatherer[r], OnlyGroupsChange PROVE SnapshotOK(gatherer[r])'
  <2>1. PICK g : g = gatherer[r]
    OBVIOUS
  <2>2. SnapshotOK(g)'
    BY <1>1, <1>2, <2>1, SnapshotKept
  <2> QED
    BY <1>2, <2>1, <2>2 DEF SnapshotOK
<1>3. ASSUME maps' = maps, groups' = groups PROVE OnlyGroupsChange
  BY <1>3 DEF OnlyGroupsChange
<1>4. CASE UNCHANGED vars
  BY <1>2, <1>3, <1>4 DEF vars, heap
<1>5. CASE \/ \E push \in Pushes : ReceivePush(push)
           \/ CheckWriteRequest
           \/ ProcessWriteRequest
           \/ SetPushFailedTimestamp
           \/ \E key \in Keys : Delete(key)
  <2>1. gatherer' = gatherer
    BY <1>5 DEF ReceivePush, CheckWriteRequest, ProcessWriteRequest,
                SetPushFailedTimestamp, Delete
  <2> QED
    BY <1>2, <1>5, <2>1, LoopChangesGroups
<1>6. CASE GatherTrial \/ Verdict
  <2>1. gatherer'[r] = gatherer[r] /\ maps' = maps /\ groups' = groups
    BY <1>1, <1>6 DEF GatherTrial, Verdict, heap
  <2> QED
    BY <1>2, <1>3, <2>1
<1>7. ASSUME NEW s \in Readers, GetMetricFamilies(s) \/ Forget(s)
      PROVE  SnapshotOK(gatherer[r])'
  <2>1. gatherer'[r] = gatherer[r] /\ maps' = maps /\ groups' = groups
    BY <1>1, <1>7 DEF GetMetricFamilies, Forget, heap, Gathering, Idle
  <2> QED
    BY <1>2, <1>3, <2>1
<1>8. ASSUME NEW g \in Gatherers, ReturnFamilies(g) PROVE SnapshotOK(gatherer[r])'
  <2>1. gatherer'[r] = gatherer[r] /\ maps' = maps /\ groups' = groups
    BY <1>1, <1>8 DEF ReturnFamilies, heap
  <2> QED
    BY <1>2, <1>3, <2>1
<1>9. ASSUME NEW g \in Gatherers, VisitFamily(g) PROVE SnapshotOK(gatherer[r])'
  <2>1. gatherer'[r] = gatherer[r]
    BY <1>1, <1>9, Visit DEF VisitOK
  <2>2. maps' = maps /\ groups' = groups
    BY <1>9 DEF VisitFamily
  <2> QED
    BY <1>2, <1>3, <2>1, <2>2
<1>10. ASSUME NEW s \in Readers, TakeSnapshot(s) PROVE SnapshotOK(gatherer[r])'
  <2>1. PICK copy : copy = GetMetricFamiliesMap(DOMAIN groups)
    OBVIOUS
  <2>2. /\ Extended(maps, maps') /\ DOMAIN copy = DOMAIN groups /\ GroupsOK(maps', copy)
        /\ \A k \in DOMAIN copy : copy[k] \notin DOMAIN maps /\ maps'[copy[k]] = maps[groups[k]]
        /\ \A h \in Gatherers : h # s => gatherer'[h] = gatherer[h]
        /\ gatherer'[s] = [at |-> "snapshot", copy |-> copy, expected |-> Contents(groups)]
    BY <1>10, <2>1, TakenSnapshot
  <2>3. groups' = groups /\ GroupsOK(maps, groups)
    BY <1>10 DEF TakeSnapshot, TypeInv
  <2>4. CASE r = s
    <3>1. gatherer'[r].copy = copy /\ gatherer'[r].expected = Contents(groups)
      BY <2>2, <2>4
    <3>2. \A k \in DOMAIN copy : /\ copy[k] \in DOMAIN maps'
                                 /\ \A l \in DOMAIN groups' : copy[k] # groups'[l]
      BY <2>2, <2>3 DEF GroupsOK
    <3>3. [k \in DOMAIN copy |-> maps'[copy[k]]] = Contents(groups)
      BY <2>2 DEF Contents
    <3> QED
      BY <3>1, <3>2, <3>3 DEF SnapshotOK
  <2>5. CASE r # s
    <3>1. OnlyGroupsChange
      BY <2>2, <2>3 DEF OnlyGroupsChange, Extended
    <3> QED
      BY <1>1, <1>2, <2>2, <2>5, <3>1
  <2> QED
    BY <2>4, <2>5
<1> QED
  BY <1>4, <1>5, <1>6, <1>7, <1>8, <1>9, <1>10 DEF Next

\* A snapshot stays what it was when it was taken: its maps are its own, and the
\* store changes in place only maps that are groups.
THEOREM SnapshotsStayStable == Spec => []SnapshotStable
<1>1. Init => TypeInv /\ SnapshotInv
  BY TypesInitial DEF Init, SnapshotInv, Idle, Gatherers
<1>2. TypeInv /\ SnapshotInv /\ [Next]_vars => TypeInv' /\ SnapshotInv'
  BY TypesKept, SnapshotSteps
<1>3. SnapshotInv => SnapshotStable
  BY DEF SnapshotInv, SnapshotOK, SnapshotStable
<1> QED
  BY <1>1, <1>2, <1>3, PTL DEF Spec

-----------------------------------------------------------------------------
(* Checking changes nothing.                                               *)

LEMMA SameContents ==
  ASSUME TypeInv, Extended(maps, maps'), groups' = groups
  PROVE  Contents(groups)' = Contents(groups)
BY DEF TypeInv, GroupsOK, Extended, Contents

\* From the moment a push is tested until its verdict, no step changes the contents
\* of the groups, whoever takes it.
THEOREM ChecksAreDry == Spec => CheckIsDry
<1>1. ASSUME TypeInv, [Next]_vars, loop.at \in {"test", "check"}
      PROVE  Contents(groups)' = Contents(groups)
  <2>1. ASSUME maps' = maps, groups' = groups PROVE Contents(groups)' = Contents(groups)
    BY <2>1 DEF Contents
  <2>2. CASE UNCHANGED vars
    BY <2>1, <2>2 DEF vars, heap
  <2>3. CASE CheckWriteRequest
    <3>1. Extended(maps, maps') /\ groups' = groups
      BY <1>1, <2>3, TrialMaps DEF CheckWriteRequest
    <3> QED
      BY <1>1, <3>1, SameContents
  <2>4. ASSUME NEW r \in Readers, TakeSnapshot(r)
        PROVE  Contents(groups)' = Contents(groups)
    <3>1. Extended(maps, maps')
      BY <1>1, <2>4, TakenSnapshot
    <3>2. groups' = groups
      BY <2>4 DEF TakeSnapshot
    <3> QED
      BY <1>1, <3>1, <3>2, SameContents
  <2>5. CASE \/ GatherTrial \/ Verdict
             \/ \E r \in Readers : GetMetricFamilies(r) \/ Forget(r)
             \/ \E g \in Gatherers : VisitFamily(g) \/ ReturnFamilies(g)
    BY <2>1, <2>5 DEF GatherTrial, Verdict, GetMetricFamilies, Forget, VisitFamily,
                      ReturnFamilies, heap
  <2>6. /\ ~ \E push \in Pushes : ReceivePush(push)
        /\ ~ ProcessWriteRequest /\ ~ SetPushFailedTimestamp
        /\ ~ \E key \in Keys : Delete(key)
    <3>1. loop # Waiting /\ loop.at \notin {"apply", "fail"}
      BY <1>1 DEF Waiting
    <3> QED
      BY <3>1 DEF ReceivePush, ProcessWriteRequest, SetPushFailedTimestamp, Delete
  <2> QED
    BY <1>1, <2>2, <2>3, <2>4, <2>5, <2>6 DEF Next
<1>2. TypeInv /\ [Next]_vars =>
        [loop.at \in {"test", "check"} => Contents(groups)' = Contents(groups)]_vars
  BY <1>1
<1> QED
  BY <1>2, TypesInitial, TypesKept, PTL DEF Spec, CheckIsDry

-----------------------------------------------------------------------------
(* Every pushed family belongs to one group.                               *)

\* A map of the key, or the request for it, points to the family p.
HeldFor(ms, lp, key, p) ==
  \/ \E m \in DOMAIN ms : m[2] = key /\ \E n \in DOMAIN ms[m] : ms[m][n] = p
  \/ /\ lp.at # "select" /\ lp.request.key = key
     /\ \/ p = lp.request.neverFailed
        \/ \E n \in DOMAIN lp.request.metrics : lp.request.metrics[n] = p

\* Each key has a map that was made for it.
Keyed(gs) == \A k \in DOMAIN gs : gs[k][2] = k

\* No two keys share a family, and each family has its own sample only.
OwnersInv ==
  /\ \A k, p : HeldFor(maps, loop, k, p) => families[p].samples = <<p>>
  /\ \A k, l, p : HeldFor(maps, loop, k, p) /\ HeldFor(maps, loop, l, p) => k = l
  /\ Keyed(groups)
  /\ loop.at = "check" => Keyed(loop.trial)
  /\ \A g \in Gatherers : gatherer[g].at = "gather" => Keyed(gatherer[g].source)

\* What is held for a key after a step was held for it before, or is new and held
\* for this key.
NothingElseHeld(key) ==
  \A k, p : HeldFor(maps', loop', k, p) =>
    HeldFor(maps, loop, k, p) \/ (k = key /\ p \in Len(families) + 1 .. Len(families'))

LEMMA HeldInHeap ==
  ASSUME TypeInv, NEW k, NEW p, HeldFor(maps, loop, k, p)
  PROVE  p \in 1 .. Len(families) /\ StoredIn(maps, loop, p)
BY DEF TypeInv, MapsOK, MetricsOK, LoopOK, RequestOK, PointsTo, StoredIn, HeldFor

LEMMA OwnersKept ==
  ASSUME TypeInv, OwnersInv, NEW key, NothingElseHeld(key),
         \A q \in 1 .. Len(families) :
            StoredIn(maps, loop, q) => families'[q] = families[q],
         \A q \in Len(families) + 1 .. Len(families') :
            StoredIn(maps', loop', q) => families'[q].samples = <<q>>,
         Keyed(groups'), loop'.at = "check" => Keyed(loop'.trial),
         \A g \in Gatherers : gatherer'[g].at = "gather" => Keyed(gatherer'[g].source)
  PROVE  OwnersInv'
<1>1. Len(families) \in Nat
  BY DEF TypeInv, FamiliesOK
<1>2. ASSUME NEW k, NEW p, HeldFor(maps', loop', k, p)
      PROVE  families'[p].samples = <<p>>
  <2>1. CASE HeldFor(maps, loop, k, p)
    <3>1. p \in 1 .. Len(families) /\ StoredIn(maps, loop, p)
      BY <2>1, HeldInHeap
    <3>2. families[p].samples = <<p>> /\ families'[p] = families[p]
      BY <2>1, <3>1 DEF OwnersInv
    <3> QED
      BY <3>2
  <2>2. CASE p \in Len(families) + 1 .. Len(families')
    <3>1. StoredIn(maps', loop', p)
      BY <1>2 DEF HeldFor, StoredIn
    <3> QED
      BY <2>2, <3>1
  <2> QED
    BY <1>2, <2>1, <2>2 DEF NothingElseHeld
<1>3. ASSUME NEW k, NEW l, NEW p, HeldFor(maps', loop', k, p), HeldFor(maps', loop', l, p)
      PROVE  k = l
  <2>1. CASE HeldFor(maps, loop, k, p) /\ HeldFor(maps, loop, l, p)
    BY <2>1 DEF OwnersInv
  <2>2. CASE HeldFor(maps, loop, k, p) /\ ~ HeldFor(maps, loop, l, p)
    BY <1>1, <1>3, <2>2, HeldInHeap DEF NothingElseHeld
  <2>3. CASE HeldFor(maps, loop, l, p) /\ ~ HeldFor(maps, loop, k, p)
    BY <1>1, <1>3, <2>3, HeldInHeap DEF NothingElseHeld
  <2>4. CASE ~ HeldFor(maps, loop, l, p) /\ ~ HeldFor(maps, loop, k, p)
    BY <1>3, <2>4 DEF NothingElseHeld
  <2> QED
    BY <2>1, <2>2, <2>3, <2>4
<1> QED
  BY <1>2, <1>3 DEF OwnersInv

LEMMA GroupHolds ==
  ASSUME TypeInv, Keyed(groups), NEW key, NEW n \in DOMAIN MetricsOf(key)
  PROVE  HeldFor(maps, loop, key, MetricsOf(key)[n])
BY DEF TypeInv, GroupsOK, MetricsOf, HeldFor, Keyed

LEMMA UpdatedHolds ==
  ASSUME TypeInv, Keyed(groups), loop' = Waiting, NEW key \in Keys, NEW metrics,
         UpdateGroup(key, metrics),
         NEW fs, Grown(families, fs), MetricsOK(fs, metrics),
         \A n \in DOMAIN metrics :
            \/ HeldFor(maps, loop, key, metrics[n])
            \/ metrics[n] \in Len(families) + 1 .. Len(families')
  PROVE  NothingElseHeld(key) /\ Keyed(groups')
<1>1. PICK target : target = groups'[key]
  OBVIOUS
<1>2. /\ DOMAIN maps' = DOMAIN maps \cup {target} /\ maps'[target] = metrics
      /\ \A m \in DOMAIN maps : m # target => maps'[m] = maps[m]
  BY <1>1, UpdatedGroup DEF TypeInv
<1>3. Keyed(groups') /\ target[2] = key
  <2>1. groups' = WithGroup(groups, key)
    BY DEF UpdateGroup
  <2>2. CASE key \in DOMAIN groups
    BY <1>1, <2>1, <2>2 DEF WithGroup, Keyed
  <2>3. CASE key \notin DOMAIN groups
    <3>1. groups' = Overridden(groups, Fresh({key})) /\ DOMAIN Fresh({key}) = {key}
      BY <2>1, <2>3 DEF WithGroup, Fresh
    <3>2. Fresh({key})[key][2] = key
      BY FreshMaps DEF TypeInv
    <3> QED
      BY <1>1, <3>1, <3>2 DEF Overridden, Keyed
  <2> QED
    BY <2>2, <2>3
<1>4. ASSUME NEW k, NEW p, HeldFor(maps', loop', k, p)
      PROVE  \/ HeldFor(maps, loop, k, p)
             \/ k = key /\ p \in Len(families) + 1 .. Len(families')
  <2>1. PICK m \in DOMAIN maps' : m[2] = k /\ \E n \in DOMAIN maps'[m] : maps'[m][n] = p
    BY <1>4 DEF HeldFor, Waiting
  <2>2. CASE m = target
    BY <1>2, <1>3, <2>1, <2>2
  <2>3. CASE m # target
    BY <1>2, <2>1, <2>3 DEF HeldFor
  <2> QED
    BY <2>2, <2>3
<1> QED
  BY <1>3, <1>4 DEF NothingElseHeld

\* The trial gives no key more than it had: what it adds to the maps of the key of
\* the request is the request's.
LEMMA TrialHolds ==
  ASSUME TypeInv, Keyed(groups), CheckWriteRequest
  PROVE  /\ Keyed(loop'.trial)
         /\ \A k, p : HeldFor(maps', loop', k, p) => HeldFor(maps, loop, k, p)
<1>1. PICK key, copy : key = loop.request.key /\ copy = GetMetricFamiliesMap(DOMAIN groups)
  OBVIOUS
<1>2. PICK ms, trial, metrics : /\ ms = MapsWith(copy)
                                /\ trial = WithGroup(copy, key)
                                /\ metrics = Processed(MetricsOf(key), loop.request)
  OBVIOUS
<1>3. /\ MapsOK(families, maps, generation) /\ GroupsOK(maps, groups)
      /\ RequestOK(families, loop.request) /\ key \in Keys /\ loop.at = "test"
  BY <1>1 DEF TypeInv, LoopOK, CheckWriteRequest, RequestOK
<1>4. /\ maps' = [m \in DOMAIN ms \cup {trial[key]} |->
                    IF m = trial[key] THEN metrics ELSE ms[m]]
      /\ loop'.trial = trial /\ loop'.request = loop.request
  BY <1>1, <1>2 DEF CheckWriteRequest
<1>5. /\ DOMAIN copy = DOMAIN groups
      /\ Extended(maps, ms)
      /\ \A k \in DOMAIN copy : copy[k] \notin DOMAIN maps /\ ms[copy[k]] = maps[groups[k]]
  BY <1>1, <1>2, <1>3, CopiedMaps
<1>6. DOMAIN ms = DOMAIN maps \cup Range(copy)
  BY <1>2 DEF MapsWith, Overridden
<1>7. Keyed(copy)
  BY <1>1, <1>3, <1>5, FreshMaps DEF GetMetricFamiliesMap, Keyed, GroupsOK
<1>8. Keyed(trial) /\ trial[key][2] = key
  <2>1. CASE key \in DOMAIN copy
    BY <1>2, <1>7, <2>1 DEF WithGroup, Keyed
  <2>2. CASE key \notin DOMAIN copy
    <3>1. trial = Overridden(copy, Fresh({key})) /\ DOMAIN Fresh({key}) = {key}
      BY <1>2, <2>2 DEF WithGroup, Fresh
    <3>2. Fresh({key})[key][2] = key
      BY <1>3, FreshMaps
    <3> QED
      BY <1>7, <3>1, <3>2 DEF Overridden, Keyed
  <2> QED
    BY <2>1, <2>2
<1>9. \A n \in DOMAIN metrics :
        \/ n \in DOMAIN MetricsOf(key) /\ metrics[n] = MetricsOf(key)[n]
        \/ n \in DOMAIN loop.request.metrics /\ metrics[n] = loop.request.metrics[n]
        \/ metrics[n] = loop.request.neverFailed
  <2>1. MetricsOK(families, MetricsOf(key))
    BY <1>3, GroupMetrics
  <2> QED
    BY <1>2, <1>3, <2>1, ProcessedMetrics
<1>10. \A n \in DOMAIN metrics : HeldFor(maps, loop, key, metrics[n])
  <2> TAKE n \in DOMAIN metrics
  <2>1. CASE n \in DOMAIN MetricsOf(key) /\ metrics[n] = MetricsOf(key)[n]
    BY <2>1, GroupHolds
  <2>2. CASE \/ n \in DOMAIN loop.request.metrics /\ metrics[n] = loop.request.metrics[n]
             \/ metrics[n] = loop.request.neverFailed
    BY <1>1, <1>3, <2>2 DEF HeldFor
  <2> QED
    BY <1>9, <2>1, <2>2
<1>11. ASSUME NEW m \in DOMAIN maps', NEW n \in DOMAIN maps'[m]
       PROVE  HeldFor(maps, loop, m[2], maps'[m][n])
  <2>1. CASE m = trial[key]
    BY <1>4, <1>8, <1>10, <2>1
  <2>2. CASE m # trial[key] /\ m \in DOMAIN maps
    <3>1. maps'[m] = maps[m]
      BY <1>4, <1>5, <2>2 DEF Extended
    <3> QED
      BY <2>2, <3>1 DEF HeldFor
  <2>3. CASE m # trial[key] /\ m \notin DOMAIN maps
    <3>1. m \in Range(copy)
      BY <1>4, <1>6, <2>3
    <3>2. PICK k \in DOMAIN copy : m = copy[k]
      BY <3>1 DEF Range
    <3>3. /\ maps'[m] = maps[groups[k]] /\ groups[k] \in DOMAIN maps
          /\ groups[k][2] = k /\ m[2] = k
      BY <1>3, <1>4, <1>5, <1>6, <1>7, <2>3, <3>2 DEF GroupsOK, Keyed
    <3> QED
      BY <3>3 DEF HeldFor
  <2> QED
    BY <2>1, <2>2, <2>3
<1>12. ASSUME NEW k, NEW p, HeldFor(maps', loop', k, p) PROVE HeldFor(maps, loop, k, p)
  <2>1. CASE \E m \in DOMAIN maps' : m[2] = k /\ \E n \in DOMAIN maps'[m] : maps'[m][n] = p
    BY <1>11, <2>1
  <2>2. CASE /\ loop'.request.key = k
             /\ \/ p = loop'.request.neverFailed
                \/ \E n \in DOMAIN loop'.request.metrics : loop'.request.metrics[n] = p
    BY <1>3, <1>4, <2>2 DEF HeldFor
  <2> QED
    BY <1>12, <2>1, <2>2 DEF HeldFor
<1> QED
  BY <1>4, <1>8, <1>12

LEMMA OwnersInitial == Init => OwnersInv
BY DEF Init, OwnersInv, HeldFor, Keyed, Waiting, Idle, Gatherers

LEMMA OwnersLoop ==
  ASSUME TypeInv, OwnersInv,
         \/ \E push \in Pushes : ReceivePush(push)
         \/ CheckWriteRequest
         \/ ProcessWriteRequest
         \/ SetPushFailedTimestamp
         \/ \E key \in Keys : Delete(key)
  PROVE  OwnersInv'
<1>1. FamiliesOK(families, original) /\ Len(families) \in Nat /\ Keyed(groups)
  BY DEF TypeInv, FamiliesOK, OwnersInv
<1>2. ASSUME NEW push \in Pushes, ReceivePush(push) PROVE OwnersInv'
  <2>1. /\ LoopOK(families', maps, loop')
        /\ \A p \in 1 .. Len(families) : families'[p] = families[p]
        /\ \A n \in DOMAIN loop'.request.metrics :
             loop'.request.metrics[n] > Len(families)
        /\ loop'.request.neverFailed > Len(families)
        /\ loop'.request.key = push.key
        /\ \A p \in Len(families) + 1 .. Len(families') : families'[p].samples = <<p>>
    BY <1>2, ReceivedPush
  <2>2. /\ maps' = maps /\ gatherer' = gatherer /\ groups' = groups
        /\ loop'.at \in {"fail", "test", "apply"}
    BY <1>2 DEF ReceivePush
  <2>3. /\ loop'.request.neverFailed \in 1 .. Len(families')
        /\ \A n \in DOMAIN loop'.request.metrics :
             loop'.request.metrics[n] \in 1 .. Len(families')
    BY <2>1, <2>2 DEF LoopOK, RequestOK, MetricsOK, PointsTo
  <2>4. /\ loop'.request.neverFailed \in Len(families) + 1 .. Len(families')
        /\ \A n \in DOMAIN loop'.request.metrics :
             loop'.request.metrics[n] \in Len(families) + 1 .. Len(families')
    BY <1>1, <2>1, <2>3
  <2>5. PICK key : key = push.key
    OBVIOUS
  <2>6. NothingElseHeld(key)
    BY <2>1, <2>2, <2>4, <2>5 DEF NothingElseHeld, HeldFor
  <2>7. \A g \in Gatherers : gatherer'[g].at = "gather" => Keyed(gatherer'[g].source)
    BY <2>2 DEF OwnersInv
  <2> QED
    BY <1>1, <2>1, <2>2, <2>6, <2>7, OwnersKept
<1>3. ASSUME CheckWriteRequest PROVE OwnersInv'
  <2>1. /\ Keyed(loop'.trial)
        /\ \A k, p : HeldFor(maps', loop', k, p) => HeldFor(maps, loop, k, p)
    BY <1>1, <1>3, TrialHolds
  <2>2. families' = families /\ gatherer' = gatherer /\ groups' = groups
    BY <1>3 DEF CheckWriteRequest
  <2>3. PICK key : key = loop.request.key
    OBVIOUS
  <2>4. NothingElseHeld(key)
    BY <2>1 DEF NothingElseHeld
  <2>5. \A g \in Gatherers : gatherer'[g].at = "gather" => Keyed(gatherer'[g].source)
    BY <2>2 DEF OwnersInv
  <2> QED
    BY <1>1, <2>1, <2>2, <2>4, <2>5, OwnersKept
<1>4. ASSUME ProcessWriteRequest PROVE OwnersInv'
  <2>1. PICK key, metrics : /\ key = loop.request.key
                            /\ metrics = Processed(MetricsOf(key), loop.request)
    OBVIOUS
  <2>2. /\ loop.at = "apply" /\ loop' = Waiting /\ UpdateGroup(key, metrics)
        /\ families' = families /\ gatherer' = gatherer
    BY <1>4, <2>1 DEF ProcessWriteRequest
  <2>3. /\ key \in Keys /\ MetricsOK(families, metrics)
        /\ \A n \in DOMAIN metrics :
             \/ n \in DOMAIN MetricsOf(key) /\ metrics[n] = MetricsOf(key)[n]
             \/ n \in DOMAIN loop.request.metrics /\ metrics[n] = loop.request.metrics[n]
             \/ metrics[n] = loop.request.neverFailed
    BY <2>1, <2>2, AppliedMetrics
  <2>4. \A n \in DOMAIN metrics : HeldFor(maps, loop, key, metrics[n])
    <3> TAKE n \in DOMAIN metrics
    <3>1. CASE n \in DOMAIN MetricsOf(key) /\ metrics[n] = MetricsOf(key)[n]
      BY <1>1, <3>1, GroupHolds
    <3>2. CASE \/ n \in DOMAIN loop.request.metrics /\ metrics[n] = loop.request.metrics[n]
               \/ metrics[n] = loop.request.neverFailed
      BY <2>1, <2>2, <3>2 DEF HeldFor
    <3> QED
      BY <2>3, <3>1, <3>2
  <2>5. Grown(families, families)
    BY <1>1 DEF Grown
  <2>6. NothingElseHeld(key) /\ Keyed(groups')
    BY <1>1, <2>2, <2>3, <2>4, <2>5, UpdatedHolds
  <2>7. \A g \in Gatherers : gatherer'[g].at = "gather" => Keyed(gatherer'[g].source)
    BY <2>2 DEF OwnersInv
  <2>8. loop'.at # "check"
    BY <2>2 DEF Waiting
  <2> QED
    BY <1>1, <2>2, <2>6, <2>7, <2>8, OwnersKept
<1>5. ASSUME SetPushFailedTimestamp PROVE OwnersInv'
  <2>1. PICK p, key : p = Len(families) + 1 /\ key = loop.request.key
    OBVIOUS
  <2>2. PICK metrics :
          metrics = Overridden(MetricsOf(key), [n \in {pushFailedMetricName} |-> p])
    OBVIOUS
  <2>3. loop' = Waiting /\ gatherer' = gatherer
    BY <1>5 DEF SetPushFailedTimestamp
  <2>4. /\ key \in Keys /\ UpdateGroup(key, metrics)
        /\ Grown(families, families') /\ MetricsOK(families', metrics)
        /\ Len(families') = p /\ families'[p].samples = <<p>>
    BY <1>5, <2>1, <2>2, FailureFamily
  <2>5. \A q \in 1 .. Len(families) : families'[q] = families[q]
    BY <1>5, <2>1, <2>2, FailureFamily
  <2>6. ASSUME NEW n \in DOMAIN metrics
        PROVE  \/ HeldFor(maps, loop, key, metrics[n])
               \/ metrics[n] \in Len(families) + 1 .. Len(families')
    <3>1. p \in Len(families) + 1 .. Len(families')
      BY <1>1, <2>1, <2>4
    <3>2. metrics[n] = p \/ (n \in DOMAIN MetricsOf(key) /\ metrics[n] = MetricsOf(key)[n])
      BY <2>2 DEF Overridden
    <3>3. CASE metrics[n] = p
      BY <3>1, <3>3
    <3>4. CASE n \in DOMAIN MetricsOf(key) /\ metrics[n] = MetricsOf(key)[n]
      BY <1>1, <3>4, GroupHolds
    <3> QED
      BY <3>2, <3>3, <3>4
  <2>7. NothingElseHeld(key) /\ Keyed(groups')
    <3>1. PICK fs : fs = families'
      OBVIOUS
    <3>2. Grown(families, fs) /\ MetricsOK(fs, metrics)
      BY <2>4, <3>1
    <3> QED
      BY <1>1, <2>3, <2>4, <2>6, <3>2, UpdatedHolds
  <2>8. \A g \in Gatherers : gatherer'[g].at = "gather" => Keyed(gatherer'[g].source)
    BY <2>3 DEF OwnersInv
  <2>9. loop'.at # "check"
    BY <2>3 DEF Waiting
  <2>10. \A q \in Len(families) + 1 .. Len(families') : families'[q].samples = <<q>>
    <3>1. \A q \in Len(families) + 1 .. Len(families') : q = p
      BY <1>1, <2>1, <2>4
    <3> QED
      BY <2>4, <3>1
  <2> QED
    BY <2>5, <2>7, <2>8, <2>9, <2>10, OwnersKept
<1>6. ASSUME NEW key \in Keys, Delete(key) PROVE OwnersInv'
  <2>1. /\ families' = families /\ maps' = maps /\ loop' = loop /\ gatherer' = gatherer
        /\ groups' = Restrict(groups, DOMAIN groups \ {key})
    BY <1>6 DEF Delete, heap
  <2>2. Keyed(groups')
    BY <1>1, <2>1 DEF Keyed, Restrict
  <2> QED
    BY <2>1, <2>2 DEF OwnersInv
<1> QED
  BY <1>2, <1>3, <1>4, <1>5, <1>6

LEMMA OwnersReading ==
  ASSUME TypeInv, OwnersInv,
         \/ GatherTrial \/ Verdict
         \/ \E r \in Readers : TakeSnapshot(r) \/ GetMetricFamilies(r) \/ Forget(r)
         \/ \E g \in Gatherers : ReturnFamilies(g)
  PROVE  OwnersInv'
<1>1. gatherer = [g \in Gatherers |-> gatherer[g]] /\ Keyed(groups) /\ Len(families) \in Nat
  BY DEF TypeInv, FamiliesOK, OwnersInv
<1>2. families' = families /\ groups' = groups
  BY DEF GatherTrial, Verdict, TakeSnapshot, GetMetricFamilies, Forget, ReturnFamilies, heap
<1>3. \A gs, samples : Gathering(gs, samples).source = gs
  BY DEF Gathering
<1>4. ASSUME NEW g \in Gatherers, gatherer'[g].at = "gather"
      PROVE  Keyed(gatherer'[g].source)
  <2>1. gatherer[g].at = "gather" => Keyed(gatherer[g].source)
    BY DEF OwnersInv
  <2>2. CASE GatherTrial
    BY <1>1, <1>3, <1>4, <2>1, <2>2 DEF GatherTrial, OwnersInv
  <2>3. CASE Verdict
    BY <1>1, <1>4, <2>1, <2>3 DEF Verdict, Idle
  <2>4. ASSUME NEW r \in Readers, GetMetricFamilies(r) \/ Forget(r) \/ TakeSnapshot(r)
        PROVE  Keyed(gatherer'[g].source)
    BY <1>1, <1>3, <1>4, <2>1, <2>4 DEF GetMetricFamilies, Forget, TakeSnapshot, Idle
  <2>5. ASSUME NEW h \in Gatherers, ReturnFamilies(h) PROVE Keyed(gatherer'[g].source)
    BY <1>1, <1>4, <2>1, <2>5 DEF ReturnFamilies
  <2> QED
    BY <2>2, <2>3, <2>4, <2>5
<1>5. \A k, p : HeldFor(maps', loop', k, p) => HeldFor(maps, loop, k, p)
  <2>1. CASE GatherTrial
    BY <2>1 DEF GatherTrial, heap
  <2>2. CASE Verdict
    BY <2>2 DEF Verdict, heap, HeldFor
  <2>3. ASSUME NEW r \in Readers, GetMetricFamilies(r) \/ Forget(r)
        PROVE  \A k, p : HeldFor(maps', loop', k, p) => HeldFor(maps, loop, k, p)
    BY <2>3 DEF GetMetricFamilies, Forget, heap
  <2>4. ASSUME NEW g \in Gatherers, ReturnFamilies(g)
        PROVE  \A k, p : HeldFor(maps', loop', k, p) => HeldFor(maps, loop, k, p)
    BY <2>4 DEF ReturnFamilies, heap
  <2>5. ASSUME NEW r \in Readers, TakeSnapshot(r)
        PROVE  \A k, p : HeldFor(maps', loop', k, p) => HeldFor(maps, loop, k, p)
    <3>1. PICK copy : copy = GetMetricFamiliesMap(DOMAIN groups)
      OBVIOUS
    <3>2. /\ Extended(maps, maps') /\ DOMAIN copy = DOMAIN groups
          /\ \A k \in DOMAIN copy : maps'[copy[k]] = maps[groups[k]]
      <4>1. TakeSnapshot(r)
        BY <2>5
      <4>2. /\ Extended(maps, maps') /\ DOMAIN copy = DOMAIN groups
            /\ \A k \in DOMAIN copy :
                 copy[k] \notin DOMAIN maps /\ maps'[copy[k]] = maps[groups[k]]
        BY <3>1, <4>1, CopiedGroups
      <4> QED
        BY <4>2
    <3>3. loop' = loop /\ DOMAIN maps' = DOMAIN maps \cup Range(copy)
      BY <2>5, <3>1 DEF TakeSnapshot, MapsWith, Overridden
    <3>4. \A k \in DOMAIN copy : copy[k][2] = k
      BY <3>1, <3>2, FreshMaps DEF TypeInv, GroupsOK, GetMetricFamiliesMap
    <3>5. ASSUME NEW m \in DOMAIN maps', NEW n \in DOMAIN maps'[m]
          PROVE  HeldFor(maps, loop, m[2], maps'[m][n])
      <4>1. CASE m \in DOMAIN maps
        BY <3>2, <4>1 DEF Extended, HeldFor
      <4>2. CASE m \notin DOMAIN maps
        <5>1. PICK k \in DOMAIN copy : m = copy[k]
          BY <3>3, <4>2 DEF Range
        <5>2. groups[k] \in DOMAIN maps /\ groups[k][2] = k
          BY <1>1, <3>2 DEF TypeInv, GroupsOK, Keyed
        <5> QED
          BY <3>2, <3>4, <5>1, <5>2 DEF HeldFor
      <4> QED
        BY <4>1, <4>2
    <3> QED
      BY <3>3, <3>5 DEF HeldFor
  <2> QED
    BY <2>1, <2>2, <2>3, <2>4, <2>5
<1>6. loop'.at = "check" => Keyed(loop'.trial)
  <2>1. CASE Verdict
    BY <2>1 DEF Verdict
  <2>2. CASE loop' = loop
    BY <2>2 DEF OwnersInv
  <2> QED
    BY <2>1, <2>2 DEF GatherTrial, TakeSnapshot, GetMetricFamilies, Forget, ReturnFamilies
<1>7. PICK key : NothingElseHeld(key)
  BY <1>5 DEF NothingElseHeld
<1> QED
  BY <1>1, <1>2, <1>4, <1>6, <1>7, OwnersKept

LEMMA OwnersVisit ==
  ASSUME TypeInv, StoredInv, OwnersInv, NEW g \in Gatherers, VisitFamily(g)
  PROVE  OwnersInv'
<1>1. VisitOK(g) /\ gatherer[g].at = "gather"
  BY Visit
<1>2. maps' = maps /\ loop' = loop /\ groups' = groups
  BY DEF VisitFamily
<1>3. ASSUME NEW q \in 1 .. Len(families), StoredIn(maps, loop, q)
      PROVE  families'[q] = families[q]
  BY <1>1, <1>3 DEF VisitOK, StoredInv
<1>4. PICK key : NothingElseHeld(key)
  BY <1>2 DEF NothingElseHeld
<1>5. ASSUME NEW q \in Len(families) + 1 .. Len(families') PROVE ~ StoredIn(maps', loop', q)
  <2>1. Len(families) \in Nat
    BY DEF TypeInv, FamiliesOK
  <2>2. q \notin 1 .. Len(families)
    BY <2>1
  <2>3. \A p : StoredIn(maps, loop, p) => p \in 1 .. Len(families)
    BY DEF TypeInv, MapsOK, MetricsOK, LoopOK, RequestOK, PointsTo, StoredIn
  <2> QED
    BY <1>2, <2>2, <2>3
<1>6. ASSUME NEW h \in Gatherers, gatherer'[h].at = "gather" PROVE Keyed(gatherer'[h].source)
  <2>1. CASE h = g
    <3>1. gatherer'[g].source = gatherer[g].source
      <4>1. PICK pair \in Upcoming(g) : AddFamily(g, pair) \/ MergeFamily(g, pair)
        BY DEF VisitFamily
      <4>2. PICK result, stat : Visited(g, pair, result, stat)
        BY <4>1 DEF AddFamily, MergeFamily
      <4> QED
        BY <1>1, <4>2, NotedVisit
    <3> QED
      BY <1>1, <2>1, <3>1 DEF OwnersInv
  <2>2. CASE h # g
    BY <1>1, <1>6, <2>2 DEF VisitOK, OwnersInv
  <2> QED
    BY <2>1, <2>2
<1> QED
  BY <1>2, <1>3, <1>4, <1>5, <1>6, OwnersKept DEF OwnersInv

LEMMA OwnersSteps == TypeInv /\ StoredInv /\ OwnersInv /\ [Next]_vars => OwnersInv'
<1> SUFFICES ASSUME TypeInv, StoredInv, OwnersInv, [Next]_vars PROVE OwnersInv'
  OBVIOUS
<1>1. CASE UNCHANGED vars
  BY <1>1 DEF vars, heap, OwnersInv
<1>2. CASE Next
  BY <1>2, OwnersLoop, OwnersReading, OwnersVisit DEF Next
<1> QED
  BY <1>1, <1>2

-----------------------------------------------------------------------------
(* What a gathering has got is what it has visited.                        *)

\* The families that these pairs of gs lead to, under their names.
PointedTo(ms, gs, pairs) ==
  [n \in {pair[2] : pair \in pairs} |->
     {ms[gs[pair[1]]][n] : pair \in {q \in pairs : q[2] = n}}]

\* A result has each name once, with the samples wanted of it, and the help string.
Faithful(fs, result, wanted) ==
  /\ result \in Seq(1 .. Len(fs))
  /\ \A i, j \in DOMAIN result : fs[result[i]].name = fs[result[j]].name => i = j
  /\ \A n \in DOMAIN wanted : \E i \in DOMAIN result : fs[result[i]].name = n
  /\ \A i \in DOMAIN result :
       LET mf == fs[result[i]]
       IN  /\ mf.name \in DOMAIN wanted
           /\ ToSet(mf.samples) = wanted[mf.name]
           /\ IsInjective(mf.samples)
           /\ mf.name \in predefinedHelp => mf.help = "standard"

\* What the result points to in fs is unchanged in gs.
SameResult(fs, gs, result) ==
  /\ Len(fs) \in Nat /\ Len(gs) \in Nat /\ Len(fs) <= Len(gs)
  /\ \A i \in DOMAIN result : gs[result[i]] = fs[result[i]]

LEMMA FaithfulKept ==
  ASSUME NEW fs, NEW gs, NEW result, NEW wanted, Faithful(fs, result, wanted),
         SameResult(fs, gs, result)
  PROVE  Faithful(gs, result, wanted)
<1>1. result \in Seq(1 .. Len(gs))
  BY DEF Faithful, SameResult
<1>2. ASSUME NEW i \in DOMAIN result, NEW j \in DOMAIN result,
             gs[result[i]].name = gs[result[j]].name
      PROVE  i = j
  <2>1. gs[result[i]] = fs[result[i]] /\ gs[result[j]] = fs[result[j]]
    BY DEF SameResult
  <2>2. fs[result[i]].name = fs[result[j]].name
    BY <1>2, <2>1
  <2>3. \A k, l \in DOMAIN result : fs[result[k]].name = fs[result[l]].name => k = l
    BY DEF Faithful
  <2> QED
    BY <2>2, <2>3
<1>3. \A n \in DOMAIN wanted : \E i \in DOMAIN result : gs[result[i]].name = n
  BY DEF Faithful, SameResult
<1>4. \A i \in DOMAIN result :
        /\ gs[result[i]].name \in DOMAIN wanted
        /\ ToSet(gs[result[i]].samples) = wanted[gs[result[i]].name]
        /\ IsInjective(gs[result[i]].samples)
        /\ gs[result[i]].name \in predefinedHelp => gs[result[i]].help = "standard"
  BY DEF Faithful, SameResult
<1> QED
  BY <1>1, <1>2, <1>3, <1>4 DEF Faithful

\* With one more pair, of this name and leading to p.
OneMore(wanted, more, n, p) ==
  /\ DOMAIN more = DOMAIN wanted \cup {n}
  /\ n \notin DOMAIN wanted => more[n] = {p}
  /\ n \in DOMAIN wanted => more[n] = wanted[n] \cup {p}
  /\ \A l \in DOMAIN wanted : l # n => more[l] = wanted[l]

\* A family as it may come into a result first.
ExposedAs(fs, r, n, p) ==
  /\ r \in 1 .. Len(fs) /\ fs[r].name = n /\ fs[r].samples = <<p>>
  /\ n \in predefinedHelp => fs[r].help = "standard"

\* A family of a new name is added to the result.
LEMMA NameAdded ==
  ASSUME NEW fs, NEW gs, NEW result, NEW wanted, Faithful(fs, result, wanted),
         SameResult(fs, gs, result),
         NEW n, n \notin DOMAIN wanted, NEW p, NEW r, ExposedAs(gs, r, n, p),
         NEW more, OneMore(wanted, more, n, p),
         NEW rs, rs = Append(result, r)
  PROVE  Faithful(gs, rs, more)
<1>0. /\ Len(gs) \in Nat /\ r \in 1 .. Len(gs)
      /\ gs[r].name = n /\ gs[r].samples = <<p>>
      /\ n \in predefinedHelp => gs[r].help = "standard"
      /\ DOMAIN more = DOMAIN wanted \cup {n} /\ more[n] = {p}
      /\ \A l \in DOMAIN wanted : more[l] = wanted[l]
  BY DEF SameResult, ExposedAs, OneMore
<1>1. Faithful(gs, result, wanted)
  BY FaithfulKept
<1>2. result \in Seq(1 .. Len(gs)) /\ Len(result) \in Nat /\ DOMAIN result = 1 .. Len(result)
  BY <1>1 DEF Faithful
<1>3. /\ rs \in Seq(1 .. Len(gs)) /\ Len(rs) = Len(result) + 1
      /\ DOMAIN rs = 1 .. Len(result) + 1
      /\ rs[Len(result) + 1] = r
      /\ \A i \in 1 .. Len(result) : rs[i] = result[i]
  <2>1. Append(result, r) \in Seq(1 .. Len(gs))
    BY <1>0, <1>2
  <2> QED
    BY <1>0, <1>2, <2>1
<1>4. PICK last : last = Len(result) + 1
  OBVIOUS
<1>5. \A i \in DOMAIN rs : i \in DOMAIN result \/ i = last
  BY <1>2, <1>3, <1>4
<1>6. last \in DOMAIN rs /\ last \notin DOMAIN result /\ rs[last] = r
      /\ \A i \in DOMAIN result : i \in DOMAIN rs /\ rs[i] = result[i]
  BY <1>2, <1>3, <1>4
<1>7. \A i \in DOMAIN result : gs[result[i]].name \in DOMAIN wanted
  BY <1>1 DEF Faithful
<1>8. \A i, j \in DOMAIN rs : gs[rs[i]].name = gs[rs[j]].name => i = j
  <2>1. \A i, j \in DOMAIN result : gs[result[i]].name = gs[result[j]].name => i = j
    BY <1>1 DEF Faithful
  <2>2. \A i \in DOMAIN result : gs[rs[i]].name # gs[rs[last]].name
    BY <1>0, <1>6, <1>7
  <2> QED
    BY <1>5, <1>6, <2>1, <2>2
<1>9. ASSUME NEW l \in DOMAIN more PROVE \E i \in DOMAIN rs : gs[rs[i]].name = l
  <2>1. CASE l = n
    BY <1>0, <1>6, <2>1
  <2>2. CASE l \in DOMAIN wanted
    BY <1>1, <1>6, <2>2 DEF Faithful
  <2> QED
    BY <1>0, <2>1, <2>2
<1>10. ToSet(<<p>>) = {p} /\ IsInjective(<<p>>)
  BY DEF ToSet, IsInjective
<1>11. ASSUME NEW i \in DOMAIN rs
       PROVE  /\ gs[rs[i]].name \in DOMAIN more
              /\ ToSet(gs[rs[i]].samples) = more[gs[rs[i]].name]
              /\ IsInjective(gs[rs[i]].samples)
              /\ gs[rs[i]].name \in predefinedHelp => gs[rs[i]].help = "standard"
  <2>1. CASE i = last
    BY <1>0, <1>6, <1>10, <2>1
  <2>2. CASE i \in DOMAIN result
    <3>1. /\ ToSet(gs[result[i]].samples) = wanted[gs[result[i]].name]
          /\ IsInjective(gs[result[i]].samples)
          /\ gs[result[i]].name \in predefinedHelp => gs[result[i]].help = "standard"
      BY <1>1, <2>2 DEF Faithful
    <3> QED
      BY <1>0, <1>6, <1>7, <2>2, <3>1
  <2> QED
    BY <1>5, <2>1, <2>2
<1> QED
  BY <1>3, <1>8, <1>9, <1>11 DEF Faithful

\* A sequence without repetitions, with one more element.
LEMMA OneMoreSample ==
  ASSUME NEW s \in Seq(Nat), IsInjective(s), NEW p \in Nat, p \notin ToSet(s)
  PROVE  IsInjective(s \o <<p>>) /\ ToSet(s \o <<p>>) = ToSet(s) \cup {p}
<1>1. PICK t : t = s \o <<p>>
  OBVIOUS
<1>2. PICK last : last = Len(s) + 1
  OBVIOUS
<1>3. /\ DOMAIN t = 1 .. Len(s) + 1 /\ DOMAIN s = 1 .. Len(s) /\ Len(s) \in Nat
      /\ t[Len(s) + 1] = p /\ \A i \in 1 .. Len(s) : t[i] = s[i]
  BY <1>1
<1>4. /\ \A i \in DOMAIN t : i \in DOMAIN s \/ i = last
      /\ last \in DOMAIN t /\ t[last] = p
      /\ \A i \in DOMAIN s : i \in DOMAIN t /\ t[i] = s[i] /\ s[i] # p
  BY <1>2, <1>3 DEF ToSet
<1>5. IsInjective(t)
  BY <1>4 DEF IsInjective
<1>6. ToSet(t) = ToSet(s) \cup {p}
  BY <1>4 DEF ToSet
<1> QED
  BY <1>1, <1>5, <1>6

\* A result with the sample p after those of the family at pos.
MergedAt(fs, gs, result, rs, pos, n, p) ==
  /\ pos \in DOMAIN result /\ fs[result[pos]].name = n
  /\ fs[result[pos]].samples \in Seq(Nat) /\ p \in Nat
  /\ rs \in Seq(1 .. Len(gs)) /\ DOMAIN rs = DOMAIN result
  /\ gs[rs[pos]].name = n /\ gs[rs[pos]].help = fs[result[pos]].help
  /\ gs[rs[pos]].samples = fs[result[pos]].samples \o <<p>>
  /\ \A i \in DOMAIN result : i # pos => gs[rs[i]] = fs[result[i]]

\* One more sample is merged into a family of the result.
LEMMA NameMerged ==
  ASSUME NEW fs, NEW gs, NEW result, NEW wanted, Faithful(fs, result, wanted),
         NEW rs, NEW pos, NEW n, NEW p, MergedAt(fs, gs, result, rs, pos, n, p),
         NEW more, OneMore(wanted, more, n, p), p \notin wanted[n]
  PROVE  Faithful(gs, rs, more)
<1>1. /\ pos \in DOMAIN result /\ fs[result[pos]].name = n
      /\ fs[result[pos]].samples \in Seq(Nat) /\ p \in Nat
      /\ rs \in Seq(1 .. Len(gs)) /\ DOMAIN rs = DOMAIN result
      /\ gs[rs[pos]].name = n /\ gs[rs[pos]].help = fs[result[pos]].help
      /\ gs[rs[pos]].samples = fs[result[pos]].samples \o <<p>>
      /\ \A i \in DOMAIN result : i # pos => gs[rs[i]] = fs[result[i]]
  BY DEF MergedAt
<1>2. /\ n \in DOMAIN wanted /\ DOMAIN more = DOMAIN wanted
      /\ more[n] = wanted[n] \cup {p}
      /\ \A l \in DOMAIN wanted : l # n => more[l] = wanted[l]
  <2>1. n \in DOMAIN wanted
    <3>1. \A i \in DOMAIN result : fs[result[i]].name \in DOMAIN wanted
      BY DEF Faithful
    <3>2. pos \in DOMAIN result /\ fs[result[pos]].name = n
      BY <1>1
    <3> QED
      BY <3>1, <3>2
  <2>2. DOMAIN more = DOMAIN wanted
    BY <2>1 DEF OneMore
  <2> QED
    BY <2>1, <2>2 DEF OneMore
<1>3. \A i \in DOMAIN result : gs[rs[i]].name = fs[result[i]].name
  BY <1>1
<1>4. \A i, j \in DOMAIN rs : gs[rs[i]].name = gs[rs[j]].name => i = j
  BY <1>1, <1>3 DEF Faithful
<1>5. ASSUME NEW l \in DOMAIN more PROVE \E i \in DOMAIN rs : gs[rs[i]].name = l
  <2>1. \E i \in DOMAIN result : fs[result[i]].name = l
    BY <1>2 DEF Faithful
  <2> QED
    BY <1>1, <1>3, <2>1
<1>6. ASSUME NEW i \in DOMAIN rs
      PROVE  /\ gs[rs[i]].name \in DOMAIN more
             /\ ToSet(gs[rs[i]].samples) = more[gs[rs[i]].name]
             /\ IsInjective(gs[rs[i]].samples)
             /\ gs[rs[i]].name \in predefinedHelp => gs[rs[i]].help = "standard"
  <2>1. /\ fs[result[i]].name \in DOMAIN wanted
        /\ ToSet(fs[result[i]].samples) = wanted[fs[result[i]].name]
        /\ IsInjective(fs[result[i]].samples)
        /\ fs[result[i]].name \in predefinedHelp => fs[result[i]].help = "standard"
    BY <1>1 DEF Faithful
  <2>2. CASE i = pos
    <3>1. PICK s : s = fs[result[pos]].samples
      OBVIOUS
    <3>2. s \in Seq(Nat) /\ IsInjective(s) /\ ToSet(s) = wanted[n]
      BY <1>1, <2>1, <2>2, <3>1
    <3>3. p \notin ToSet(s)
      BY <3>2
    <3>4. IsInjective(s \o <<p>>) /\ ToSet(s \o <<p>>) = wanted[n] \cup {p}
      BY <1>1, <3>2, <3>3, OneMoreSample
    <3>5. gs[rs[i]].samples = s \o <<p>> /\ gs[rs[i]].name = n /\ more[n] = wanted[n] \cup {p}
      BY <1>1, <1>2, <2>2, <3>1
    <3>6. n \in DOMAIN more /\ (n \in predefinedHelp => gs[rs[i]].help = "standard")
      BY <1>1, <1>2, <2>1, <2>2
    <3> QED
      BY <3>4, <3>5, <3>6
  <2>3. CASE i # pos
    <3>1. gs[rs[i]] = fs[result[i]] /\ fs[result[i]].name # n
      <4>1. /\ i \in DOMAIN result /\ gs[rs[i]] = fs[result[i]]
            /\ pos \in DOMAIN result /\ fs[result[pos]].name = n
        BY <1>1, <2>3
      <4>2. fs[result[i]].name = fs[result[pos]].name => i = pos
        BY <4>1 DEF Faithful
      <4> QED
        BY <2>3, <4>1, <4>2
    <3>2. fs[result[i]].name \in DOMAIN wanted
      BY <2>1
    <3>3. more[fs[result[i]].name] = wanted[fs[result[i]].name]
      BY <1>2, <3>1, <3>2
    <3> QED
      BY <1>2, <2>1, <3>1, <3>3
  <2> QED
    BY <2>2, <2>3
<1> QED
  BY <1>1, <1>4, <1>5, <1>6 DEF Faithful

LEMMA PointersOfName ==
  ASSUME NEW ms, NEW gs, NEW pairs, NEW n \in DOMAIN PointedTo(ms, gs, pairs), NEW p
  PROVE  p \in PointedTo(ms, gs, pairs)[n] <=>
           \E pair \in pairs : pair[2] = n /\ p = ms[gs[pair[1]]][n]
<1>1. PointedTo(ms, gs, pairs)[n] =
        {ms[gs[pair[1]]][n] : pair \in {q \in pairs : q[2] = n}}
  BY DEF PointedTo
<1> QED
  BY <1>1

\* What one more pair leads to.
LEMMA OneMorePair ==
  ASSUME NEW ms, NEW gs, NEW pairs, NEW pair,
         NEW wanted, wanted = PointedTo(ms, gs, pairs),
         NEW more, more = PointedTo(ms, gs, pairs \cup {pair}),
         NEW n, n = pair[2], NEW p, p = ms[gs[pair[1]]][n]
  PROVE  OneMore(wanted, more, n, p)
<1>1. DOMAIN wanted = {q[2] : q \in pairs} /\ DOMAIN more = {q[2] : q \in pairs \cup {pair}}
  BY DEF PointedTo
<1>2. DOMAIN more = DOMAIN wanted \cup {n}
  BY <1>1
<1>3. \A l \in DOMAIN wanted : \A x :
        x \in wanted[l] <=> \E q \in pairs : q[2] = l /\ x = ms[gs[q[1]]][l]
  BY PointersOfName
<1>4. \A l \in DOMAIN more : \A x :
        x \in more[l] <=> \E q \in pairs \cup {pair} : q[2] = l /\ x = ms[gs[q[1]]][l]
  BY PointersOfName
<1>5. ASSUME n \notin DOMAIN wanted PROVE more[n] = {p}
  <2>1. \A q \in pairs : q[2] # n
    BY <1>1, <1>5
  <2>2. \A x : x \in more[n] <=> x \in {p}
    BY <1>2, <1>4, <2>1
  <2> QED
    BY <1>2, <2>2 DEF PointedTo
<1>6. ASSUME n \in DOMAIN wanted PROVE more[n] = wanted[n] \cup {p}
  <2>1. \A x : x \in more[n] <=> x \in wanted[n] \cup {p}
    BY <1>2, <1>3, <1>4, <1>6
  <2> QED
    BY <2>1
<1>7. ASSUME NEW l \in DOMAIN wanted, l # n PROVE more[l] = wanted[l]
  <2>1. ASSUME NEW x PROVE x \in more[l] <=> x \in wanted[l]
    <3>1. x \in more[l] <=> \E q \in pairs \cup {pair} : q[2] = l /\ x = ms[gs[q[1]]][l]
      BY <1>2, <1>4
    <3>2. x \in wanted[l] <=> \E q \in pairs : q[2] = l /\ x = ms[gs[q[1]]][l]
      BY <1>3
    <3> QED
      BY <1>7, <3>1, <3>2
  <2> QED
    BY <2>1
<1> QED
  BY <1>2, <1>5, <1>6, <1>7 DEF OneMore

\* What a gathering has visited so far.
Visits(ms, g) == PointedTo(ms, g.source, PairsIn(ms, g.source) \ g.todo)

\* It has that in its result, and knows the place of each name.
CollectedOK(fs, ms, g) ==
  /\ Faithful(fs, g.result, Visits(ms, g))
  /\ DOMAIN g.mfStatByName = DOMAIN Visits(ms, g)
  /\ \A n \in DOMAIN g.mfStatByName : fs[g.result[g.mfStatByName[n].pos]].name = n
  /\ g.expected = PointedTo(ms, g.source, PairsIn(ms, g.source))

ReadingOK(fs, ms, g) ==
  /\ g.at = "gather" => CollectedOK(fs, ms, g)
  /\ g.at = "done" => Faithful(fs, g.result, g.expected)

\* What h may still change is not in the result of g.
Apart(g, h) ==
  g.at \in {"gather", "done"} /\ h.at = "gather" =>
    \A i \in DOMAIN g.result : g.result[i] \notin Copies(h)

\* A gathering has what it has visited, and no other gathering changes that.
ReadingInv ==
  /\ \A g \in Gatherers : ReadingOK(families, maps, gatherer[g])
  /\ \A g, h \in Gatherers : g # h => Apart(gatherer[g], gatherer[h])

LEMMA PointedKept ==
  ASSUME NEW ms, NEW ns, Extended(ms, ns), NEW gs, GroupsOK(ms, gs),
         NEW pairs \in SUBSET PairsIn(ms, gs)
  PROVE  PointedTo(ns, gs, pairs) = PointedTo(ms, gs, pairs)
<1>1. \A pair \in pairs : ns[gs[pair[1]]] = ms[gs[pair[1]]]
  BY DEF Extended, GroupsOK, PairsIn
<1>2. ASSUME NEW n
      PROVE  {ns[gs[pair[1]]][n] : pair \in {q \in pairs : q[2] = n}} =
             {ms[gs[pair[1]]][n] : pair \in {q \in pairs : q[2] = n}}
  BY <1>1
<1> QED
  BY <1>2 DEF PointedTo

LEMMA ReadingKept ==
  ASSUME NEW fs, NEW gs, Len(fs) \in Nat, Len(gs) \in Nat, Len(fs) <= Len(gs),
         NEW ms, NEW ns, NEW g, ReadingOK(fs, ms, g), GathererOK(fs, ms, g),
         g.at = "gather" => Extended(ms, ns),
         g.at \in {"gather", "done"} =>
           \A i \in DOMAIN g.result : gs[g.result[i]] = fs[g.result[i]]
  PROVE  ReadingOK(gs, ns, g)
<1>1. ASSUME g.at = "gather" PROVE CollectedOK(gs, ns, g)
  <2>1. /\ CollectedOK(fs, ms, g) /\ GroupsOK(ms, g.source) /\ Extended(ms, ns)
        /\ \A i \in DOMAIN g.result : gs[g.result[i]] = fs[g.result[i]]
    BY <1>1 DEF ReadingOK, GathererOK, ProgressOK
  <2>2. PairsIn(ns, g.source) = PairsIn(ms, g.source)
    BY <2>1 DEF Extended, GroupsOK, PairsIn
  <2>3. PICK visited, all, source : /\ source = g.source /\ all = PairsIn(ms, g.source)
                                    /\ visited = PairsIn(ms, g.source) \ g.todo
    OBVIOUS
  <2>4. /\ PointedTo(ns, source, visited) = PointedTo(ms, source, visited)
        /\ PointedTo(ns, source, all) = PointedTo(ms, source, all)
    BY <2>1, <2>3, PointedKept
  <2>5. /\ Visits(ns, g) = Visits(ms, g)
        /\ PointedTo(ns, g.source, PairsIn(ns, g.source)) =
             PointedTo(ms, g.source, PairsIn(ms, g.source))
    BY <2>2, <2>3, <2>4 DEF Visits
  <2>6. Faithful(gs, g.result, Visits(ns, g))
    <3>1. Faithful(fs, g.result, Visits(ms, g))
      BY <2>1 DEF CollectedOK
    <3> QED
      BY <2>1, <2>5, <3>1, FaithfulKept DEF SameResult
  <2>7. ASSUME NEW n \in DOMAIN g.mfStatByName
        PROVE  gs[g.result[g.mfStatByName[n].pos]].name = n
    <3>1. /\ g.result \in Seq(1 .. Len(fs))
          /\ g.mfStatByName[n].pos \in 1 .. Len(g.result)
      BY <1>1 DEF GathererOK, ProgressOK
    <3>2. g.mfStatByName[n].pos \in DOMAIN g.result
      BY <3>1
    <3> QED
      BY <2>1, <3>2 DEF CollectedOK
  <2> QED
    BY <2>1, <2>5, <2>6, <2>7 DEF CollectedOK
<1>2. ASSUME g.at = "done" PROVE Faithful(gs, g.result, g.expected)
  <2>1. Faithful(fs, g.result, g.expected)
    BY <1>2 DEF ReadingOK
  <2> QED
    BY <1>2, <2>1, FaithfulKept DEF SameResult
<1> QED
  BY <1>1, <1>2 DEF ReadingOK

\* The results of gatherings are in the heap.
LEMMA ResultInHeap ==
  ASSUME TypeInv, ReadingInv, NEW g \in Gatherers, gatherer[g].at \in {"gather", "done"}
  PROVE  /\ gatherer[g].result \in Seq(1 .. Len(families))
         /\ \A i \in DOMAIN gatherer[g].result : gatherer[g].result[i] \in 1 .. Len(families)
<1>1. gatherer[g].result \in Seq(1 .. Len(families))
  BY DEF TypeInv, GathererOK, ProgressOK, ReadingInv, ReadingOK, Faithful
<1> QED
  BY <1>1

\* A step that changes no family, and after which each gatherer is as it was,
\* begins with nothing, ends, or does not gather.
LEMMA ReadingStep ==
  ASSUME TypeInv, ReadingInv,
         Len(families') \in Nat, Len(families) <= Len(families'),
         \A q \in 1 .. Len(families) : families'[q] = families[q],
         \/ Extended(maps, maps')
         \/ \A g \in Gatherers : gatherer[g].at # "gather",
         \A g \in Gatherers :
           \/ gatherer'[g] = gatherer[g]
           \/ /\ ReadingOK(families', maps', gatherer'[g])
              /\ gatherer'[g].at = "gather" =>
                   gatherer'[g].result = <<>> /\ Copies(gatherer'[g]) = {}
              /\ gatherer'[g].at = "done" =>
                   gatherer[g].at = "gather" /\ gatherer'[g].result = gatherer[g].result
  PROVE  ReadingInv'
<1>1. Len(families) \in Nat
  BY DEF TypeInv, FamiliesOK
<1>2. ASSUME NEW g \in Gatherers PROVE ReadingOK(families', maps', gatherer'[g])
  <2>1. CASE gatherer'[g] = gatherer[g]
    <3>1. PICK fs, gs, ns, work : /\ fs = families /\ gs = families' /\ ns = maps'
                                  /\ work = gatherer[g]
      OBVIOUS
    <3>2. ReadingOK(fs, maps, work) /\ GathererOK(fs, maps, work)
      BY <3>1 DEF TypeInv, ReadingInv
    <3>3. work.at = "gather" => Extended(maps, ns)
      BY <3>1
    <3>4. work.at \in {"gather", "done"} =>
            \A i \in DOMAIN work.result : gs[work.result[i]] = fs[work.result[i]]
      BY <3>1, ResultInHeap
    <3>5. ReadingOK(gs, ns, work)
      BY <1>1, <3>1, <3>2, <3>3, <3>4, ReadingKept
    <3> QED
      BY <2>1, <3>1, <3>5
  <2> QED
    BY <2>1
<1>3. ASSUME NEW g \in Gatherers, NEW h \in Gatherers, g # h
      PROVE  Apart(gatherer'[g], gatherer'[h])
  <2>1. Apart(gatherer[g], gatherer[h])
    BY <1>3 DEF ReadingInv
  <2>2. CASE gatherer'[h] = gatherer[h]
    BY <2>1, <2>2 DEF Apart
  <2>3. CASE gatherer'[h] # gatherer[h]
    BY <2>3 DEF Apart
  <2> QED
    BY <2>2, <2>3
<1> QED
  BY <1>2, <1>3 DEF ReadingInv

LEMMA ReadingInitial == Init => ReadingInv
BY DEF Init, ReadingInv, ReadingOK, Apart, Idle, Gatherers

LEMMA ReadingLoop ==
  ASSUME TypeInv, ReadingInv,
         \/ \E push \in Pushes : ReceivePush(push)
         \/ CheckWriteRequest
         \/ ProcessWriteRequest
         \/ SetPushFailedTimestamp
         \/ \E key \in Keys : Delete(key)
  PROVE  ReadingInv'
<1>1. Len(families) \in Nat
  BY DEF TypeInv, FamiliesOK
<1>2. \A g \in Gatherers : gatherer'[g] = gatherer[g]
  BY DEF ReceivePush, CheckWriteRequest, ProcessWriteRequest, SetPushFailedTimestamp, Delete
<1>3. /\ Len(families') \in Nat /\ Len(families) <= Len(families')
      /\ \A q \in 1 .. Len(families) : families'[q] = families[q]
  <2>1. ASSUME NEW push \in Pushes, ReceivePush(push)
        PROVE  /\ Len(families') \in Nat /\ Len(families) <= Len(families')
               /\ \A q \in 1 .. Len(families) : families'[q] = families[q]
    <3>1. Grown(families, families') /\ \A q \in 1 .. Len(families) : families'[q] = families[q]
      BY <2>1, ReceivedPush
    <3> QED
      BY <3>1 DEF Grown
  <2>2. CASE SetPushFailedTimestamp
    <3>1. PICK p, key : p = Len(families) + 1 /\ key = loop.request.key
      OBVIOUS
    <3>2. PICK metrics :
            metrics = Overridden(MetricsOf(key), [n \in {pushFailedMetricName} |-> p])
      OBVIOUS
    <3>3. Grown(families, families') /\ \A q \in 1 .. Len(families) : families'[q] = families[q]
      BY <2>2, <3>1, <3>2, FailureFamily
    <3> QED
      BY <3>3 DEF Grown
  <2>3. CASE CheckWriteRequest \/ ProcessWriteRequest \/ \E key \in Keys : Delete(key)
    <3>1. families' = families
      BY <2>3 DEF CheckWriteRequest, ProcessWriteRequest, Delete, heap
    <3> QED
      BY <1>1, <3>1
  <2> QED
    BY <2>1, <2>2, <2>3
<1>4. \/ Extended(maps, maps')
      \/ \A g \in Gatherers : gatherer[g].at # "gather"
  <2>1. CASE CheckWriteRequest
    BY <2>1, TrialMaps
  <2>2. CASE ProcessWriteRequest \/ SetPushFailedTimestamp
    BY <2>2, LockedOut DEF ProcessWriteRequest, SetPushFailedTimestamp
  <2>3. CASE (\E push \in Pushes : ReceivePush(push)) \/ (\E key \in Keys : Delete(key))
    BY <2>3 DEF ReceivePush, Delete, heap, Extended
  <2> QED
    BY <2>1, <2>2, <2>3
<1> QED
  BY <1>2, <1>3, <1>4, ReadingStep

\* The samples of the groups gs are the families that they lead to.
LEMMA SamplesArePointers ==
  ASSUME TypeInv, OwnersInv, NEW gs, GroupsOK(maps, gs)
  PROVE  Samples(gs) = PointedTo(maps, gs, PairsIn(maps, gs))
<1>1. PICK pairs : pairs = PairsIn(maps, gs)
  OBVIOUS
<1>2. Pairs(gs) = pairs
  BY <1>1 DEF Pairs, PairsIn
<1>3. PICK samples, pointed : samples = Samples(gs) /\ pointed = PointedTo(maps, gs, pairs)
  OBVIOUS
<1>4. /\ samples = [n \in {pair[2] : pair \in pairs} |-> samples[n]]
      /\ pointed = [n \in {pair[2] : pair \in pairs} |-> pointed[n]]
  BY <1>2, <1>3 DEF Samples, PointedTo
<1>5. ASSUME NEW k \in DOMAIN gs, NEW n \in DOMAIN maps[gs[k]]
      PROVE  ToSet(families[maps[gs[k]][n]].samples) = {maps[gs[k]][n]}
  <2>1. PICK p : p = maps[gs[k]][n]
    OBVIOUS
  <2>2. gs[k] \in DOMAIN maps
    BY DEF GroupsOK
  <2>3. PICK l : l = gs[k][2]
    OBVIOUS
  <2>4. HeldFor(maps, loop, l, p)
    BY <2>1, <2>2, <2>3 DEF HeldFor
  <2>5. families[p].samples = <<p>>
    BY <2>4 DEF OwnersInv
  <2> QED
    BY <2>1, <2>5 DEF ToSet
<1>6. ASSUME NEW n \in {pair[2] : pair \in pairs} PROVE samples[n] = pointed[n]
  <2>1. samples[n] = UNION {ToSet(families[maps[gs[k]][n]].samples) :
                              k \in {l \in DOMAIN gs : n \in DOMAIN maps[gs[l]]}}
    BY <1>2, <1>3 DEF Samples
  <2>2. ASSUME NEW x
        PROVE  x \in samples[n] <=>
                 \E k \in DOMAIN gs : n \in DOMAIN maps[gs[k]] /\ x = maps[gs[k]][n]
    <3>1. x \in samples[n] <=>
            \E k \in DOMAIN gs : /\ n \in DOMAIN maps[gs[k]]
                                 /\ x \in ToSet(families[maps[gs[k]][n]].samples)
      BY <2>1
    <3>2. \A k \in DOMAIN gs : n \in DOMAIN maps[gs[k]] =>
            (x \in ToSet(families[maps[gs[k]][n]].samples) <=> x = maps[gs[k]][n])
      BY <1>5
    <3> QED
      BY <3>1, <3>2
  <2>3. \A x : x \in pointed[n] <=>
                 \E pair \in pairs : pair[2] = n /\ x = maps[gs[pair[1]]][n]
    BY <1>3, PointersOfName DEF PointedTo
  <2>4. ASSUME NEW x, NEW k \in DOMAIN gs, n \in DOMAIN maps[gs[k]], x = maps[gs[k]][n]
        PROVE  x \in pointed[n]
    <3>1. k \in Keys /\ n \in Names
      BY <2>4 DEF TypeInv, MapsOK, MetricsOK, GroupsOK
    <3>2. PICK pair : pair = <<k, n>>
      OBVIOUS
    <3>3. pair \in pairs /\ pair[1] = k /\ pair[2] = n
      BY <1>1, <2>4, <3>1, <3>2 DEF PairsIn
    <3> QED
      BY <2>3, <2>4, <3>3
  <2>5. ASSUME NEW x \in pointed[n] PROVE x \in samples[n]
    <3>1. PICK pair \in pairs : pair[2] = n /\ x = maps[gs[pair[1]]][n]
      BY <2>3
    <3>2. pair[1] \in DOMAIN gs /\ n \in DOMAIN maps[gs[pair[1]]]
      BY <1>1, <3>1 DEF PairsIn
    <3> QED
      BY <2>2, <3>1, <3>2
  <2> QED
    BY <2>2, <2>4, <2>5
<1> QED
  BY <1>1, <1>3, <1>4, <1>6

\* A gathering that begins has visited nothing, and has nothing.
LEMMA BegunReading ==
  ASSUME TypeInv, OwnersInv, NEW gs, GroupsOK(maps, gs),
         NEW work, work = Gathering(gs, Samples(gs))
  PROVE  /\ ReadingOK(families, maps, work)
         /\ work.at = "gather" /\ work.result = <<>> /\ Copies(work) = {}
<1>1. /\ work.at = "gather" /\ work.result = <<>> /\ Copies(work) = {}
      /\ work.source = gs /\ work.todo = Pairs(gs) /\ DOMAIN work.mfStatByName = {}
      /\ work.expected = Samples(gs)
  BY DEF Gathering, Copies
<1>2. Pairs(gs) = PairsIn(maps, gs)
  BY DEF Pairs, PairsIn
<1>3. DOMAIN Visits(maps, work) = {}
  BY <1>1, <1>2 DEF Visits, PointedTo
<1>4. Faithful(families, work.result, Visits(maps, work))
  BY <1>1, <1>3 DEF Faithful
<1>5. work.expected = PointedTo(maps, work.source, PairsIn(maps, work.source))
  BY <1>1, SamplesArePointers
<1> QED
  BY <1>1, <1>3, <1>4, <1>5 DEF ReadingOK, CollectedOK

\* A gathering that ends has visited everything.
LEMMA EndedReading ==
  ASSUME TypeInv, ReadingInv, NEW g \in Gatherers, gatherer[g].at = "gather",
         gatherer[g].todo = {}
  PROVE  Faithful(families, gatherer[g].result, gatherer[g].expected)
<1>1. CollectedOK(families, maps, gatherer[g])
  BY DEF ReadingInv, ReadingOK
<1>2. Visits(maps, gatherer[g]) = gatherer[g].expected
  BY <1>1 DEF CollectedOK, Visits
<1> QED
  BY <1>1, <1>2 DEF CollectedOK

LEMMA ReadingBegunOrEnded ==
  ASSUME TypeInv, OwnersInv, ReadingInv,
         \/ GatherTrial \/ Verdict
         \/ \E r \in Readers : TakeSnapshot(r) \/ GetMetricFamilies(r) \/ Forget(r)
         \/ \E g \in Gatherers : ReturnFamilies(g)
  PROVE  ReadingInv'
<1>1. gatherer = [g \in Gatherers |-> gatherer[g]] /\ Len(families) \in Nat
  BY DEF TypeInv, FamiliesOK
<1>2. families' = families
  BY DEF GatherTrial, Verdict, TakeSnapshot, GetMetricFamilies, Forget, ReturnFamilies, heap
<1>3. Extended(maps, maps')
  <2>1. CASE maps' = maps
    BY <2>1 DEF Extended
  <2>2. ASSUME NEW r \in Readers, TakeSnapshot(r) PROVE Extended(maps, maps')
    BY <2>2, TakenSnapshot
  <2> QED
    BY <2>1, <2>2 DEF GatherTrial, Verdict, GetMetricFamilies, Forget, ReturnFamilies, heap
<1>4. ASSUME NEW g \in Gatherers
      PROVE  \/ gatherer'[g] = gatherer[g]
             \/ /\ ReadingOK(families', maps', gatherer'[g])
                /\ gatherer'[g].at = "gather" =>
                     gatherer'[g].result = <<>> /\ Copies(gatherer'[g]) = {}
                /\ gatherer'[g].at = "done" =>
                     gatherer[g].at = "gather" /\ gatherer'[g].result = gatherer[g].result
  <2>1. CASE gatherer'[g].at \in {"idle", "snapshot"}
    BY <2>1 DEF ReadingOK
  <2>2. CASE GatherTrial
    <3>1. PICK work : work = Gathering(loop.trial, Samples(loop.trial))
      OBVIOUS
    <3>2. /\ ReadingOK(families, maps, work)
          /\ work.at = "gather" /\ work.result = <<>> /\ Copies(work) = {}
      BY <2>2, <3>1, BegunReading DEF GatherTrial, TypeInv, LoopOK
    <3>3. maps' = maps /\ (gatherer'[g] = gatherer[g] \/ gatherer'[g] = work)
      BY <1>1, <2>2, <3>1 DEF GatherTrial, heap
    <3> QED
      BY <1>2, <3>2, <3>3
  <2>3. ASSUME NEW r \in Readers, GetMetricFamilies(r)
        PROVE  \/ gatherer'[g] = gatherer[g]
               \/ /\ ReadingOK(families', maps', gatherer'[g])
                  /\ gatherer'[g].at = "gather"
                  /\ gatherer'[g].result = <<>> /\ Copies(gatherer'[g]) = {}
    <3>1. PICK work : work = Gathering(groups, Samples(groups))
      OBVIOUS
    <3>2. /\ ReadingOK(families, maps, work)
          /\ work.at = "gather" /\ work.result = <<>> /\ Copies(work) = {}
      BY <3>1, BegunReading DEF TypeInv
    <3>3. maps' = maps /\ (gatherer'[g] = gatherer[g] \/ gatherer'[g] = work)
      BY <1>1, <2>3, <3>1 DEF GetMetricFamilies, heap
    <3> QED
      BY <1>2, <3>2, <3>3
  <2>4. ASSUME NEW h \in Gatherers, ReturnFamilies(h)
        PROVE  \/ gatherer'[g] = gatherer[g]
               \/ /\ ReadingOK(families', maps', gatherer'[g])
                  /\ gatherer'[g].at = "done" /\ gatherer[g].at = "gather"
                  /\ gatherer'[g].result = gatherer[g].result
    <3>1. CASE g # h
      BY <1>1, <2>4, <3>1 DEF ReturnFamilies
    <3>2. CASE g = h
      <4>1. /\ gatherer[g].at = "gather" /\ gatherer[g].todo = {}
            /\ gatherer'[g] = [at |-> "done", result |-> gatherer[g].result,
                               expected |-> gatherer[g].expected]
        BY <1>1, <2>4, <3>2 DEF ReturnFamilies
      <4>2. Faithful(families, gatherer[g].result, gatherer[g].expected)
        BY <4>1, EndedReading
      <4> QED
        BY <1>2, <4>1, <4>2 DEF ReadingOK
    <3> QED
      BY <3>1, <3>2
  <2>5. CASE Verdict \/ \E r \in Readers : TakeSnapshot(r) \/ Forget(r)
    <3>1. gatherer'[g] = gatherer[g] \/ gatherer'[g].at \in {"idle", "snapshot"}
      BY <1>1, <2>5 DEF Verdict, TakeSnapshot, Forget, Idle
    <3> QED
      BY <2>1, <3>1
  <2> QED
    BY <2>2, <2>3, <2>4, <2>5
<1>5. Len(families') \in Nat /\ Len(families) <= Len(families')
  BY <1>1, <1>2
<1> QED
  BY <1>2, <1>3, <1>4, <1>5, ReadingStep

LEMMA OneAllocated ==
  ASSUME families \in Seq(Family), NEW f \in Family, Allocate(<<f>>)
  PROVE  /\ Len(families') = Len(families) + 1 /\ Len(families) \in Nat
         /\ families'[Len(families) + 1] = f
         /\ \A q \in 1 .. Len(families) : families'[q] = families[q]
BY DEF Allocate

\* A stored family, with its own sample.
PushedAs(p, n) ==
  /\ p \in 1 .. Len(families) /\ families[p] \in Family
  /\ families[p].name = n /\ families[p].samples = <<p>>
  /\ StoredIn(maps, loop, p)

\* The pair that a gathering visits leads to a family of its own.
LEMMA NewPointer ==
  ASSUME TypeInv, OwnersInv, NEW g \in Gatherers, gatherer[g].at = "gather",
         NEW pair \in gatherer[g].todo, NEW result, NEW stat, Visited(g, pair, result, stat),
         NEW wanted, wanted = Visits(maps, gatherer[g]),
         NEW more, more = Visits(maps, gatherer'[g]),
         NEW n, n = pair[2], NEW p, p = maps[gatherer[g].source[pair[1]]][n]
  PROVE  /\ OneMore(wanted, more, n, p)
         /\ n \in DOMAIN wanted => p \notin wanted[n]
         /\ PushedAs(p, n)
<1>1. PICK source, visited : /\ source = gatherer[g].source
                             /\ visited = PairsIn(maps, source) \ gatherer[g].todo
  OBVIOUS
<1>2. /\ GroupsOK(maps, source) /\ gatherer[g].todo \subseteq PairsIn(maps, source)
      /\ Keyed(source)
  BY <1>1 DEF TypeInv, GathererOK, ProgressOK, OwnersInv
<1>3. pair \in Keys \X Names /\ pair[1] \in DOMAIN source /\ n \in DOMAIN maps[source[pair[1]]]
  BY <1>2 DEF PairsIn
<1>4. p \in 1 .. Len(families) /\ families[p] \in Family
  BY <1>1, ComingFamily
<1>5. ASSUME NEW k \in DOMAIN source, n \in DOMAIN maps[source[k]]
      PROVE  HeldFor(maps, loop, k, maps[source[k]][n])
  <2>1. source[k] \in DOMAIN maps /\ source[k][2] = k
    BY <1>2 DEF GroupsOK, Keyed
  <2> QED
    BY <1>5, <2>1 DEF HeldFor
<1>6. PICK key : key = pair[1]
  OBVIOUS
<1>7. HeldFor(maps, loop, key, p) /\ key \in DOMAIN source
  BY <1>1, <1>3, <1>5, <1>6
<1>8. families[p].samples = <<p>> /\ StoredIn(maps, loop, p)
  BY <1>7, HeldInHeap DEF OwnersInv
<1>9. families[p].name = n
  BY <1>1, <1>2, <1>3 DEF TypeInv, MapsOK, MetricsOK, PointsTo, GroupsOK
<1>10. wanted = PointedTo(maps, source, visited)
  BY <1>1 DEF Visits
<1>11. more = PointedTo(maps, source, visited \cup {pair})
  <2>1. gatherer'[g].source = source /\ gatherer'[g].todo = gatherer[g].todo \ {pair}
    BY <1>1, NotedVisit
  <2>2. PairsIn(maps, source) \ gatherer'[g].todo = visited \cup {pair}
    BY <1>1, <1>2, <2>1
  <2> QED
    BY <2>1, <2>2 DEF Visits
<1>12. OneMore(wanted, more, n, p)
  <2>1. p = maps[source[pair[1]]][n]
    BY <1>1
  <2>2. PICK ms : ms = maps
    OBVIOUS
  <2>3. /\ wanted = PointedTo(ms, source, visited)
        /\ more = PointedTo(ms, source, visited \cup {pair})
        /\ p = ms[source[pair[1]]][n]
    BY <1>10, <1>11, <2>1, <2>2
  <2> QED
    BY <2>3, OneMorePair
<1>13. ASSUME n \in DOMAIN wanted, p \in wanted[n] PROVE FALSE
  <2>1. PICK q \in visited : q[2] = n /\ p = maps[source[q[1]]][n]
    BY <1>10, <1>13, PointersOfName
  <2>2. q \in Keys \X Names /\ q[1] \in DOMAIN source /\ n \in DOMAIN maps[source[q[1]]]
    BY <1>1, <2>1 DEF PairsIn
  <2>3. PICK other : other = q[1]
    OBVIOUS
  <2>4. HeldFor(maps, loop, other, p)
    BY <1>5, <2>1, <2>2, <2>3
  <2>5. other = key
    BY <1>7, <2>4 DEF OwnersInv
  <2>6. q = pair
    <3>1. q[1] = pair[1] /\ q[2] = pair[2]
      BY <1>6, <2>1, <2>3, <2>5
    <3> QED
      BY <1>3, <2>2, <3>1
  <2> QED
    BY <1>1, <2>1, <2>6
<1> QED
  BY <1>4, <1>8, <1>9, <1>12, <1>13 DEF PushedAs

\* What a visit leaves in the result.
VisitFaithful(g) ==
  /\ CollectedOK(families', maps, gatherer'[g])
  /\ \A i \in DOMAIN gatherer'[g].result :
       \/ i \in DOMAIN gatherer[g].result /\ gatherer'[g].result[i] = gatherer[g].result[i]
       \/ gatherer'[g].result[i] > Len(families)
       \/ StoredIn(maps, loop, gatherer'[g].result[i])

LEMMA CollectedVisit ==
  ASSUME TypeInv, ReadingInv, NEW g \in Gatherers, gatherer[g].at = "gather",
         NEW pair \in gatherer[g].todo, NEW rs, NEW stat, Visited(g, pair, rs, stat),
         Faithful(families', rs, Visits(maps, gatherer'[g])),
         DOMAIN Visits(maps, gatherer'[g]) = DOMAIN Visits(maps, gatherer[g]) \cup {pair[2]},
         families'[rs[stat.pos]].name = pair[2],
         \A i \in DOMAIN gatherer[g].result :
            families'[rs[i]].name = families[gatherer[g].result[i]].name
  PROVE  CollectedOK(families', maps, gatherer'[g])
<1>1. CollectedOK(families, maps, gatherer[g])
  BY DEF ReadingInv, ReadingOK
<1>2. PICK stats, new, n : /\ stats = gatherer[g].mfStatByName /\ n = pair[2]
                           /\ new = gatherer'[g].mfStatByName
  OBVIOUS
<1>3. /\ gatherer'[g].source = gatherer[g].source
      /\ gatherer'[g].result = rs /\ gatherer'[g].expected = gatherer[g].expected
      /\ DOMAIN new = DOMAIN stats \cup {n} /\ new[n] = stat
      /\ \A l \in DOMAIN stats : l # n => new[l] = stats[l]
  BY <1>2, NotedVisit
<1>4. DOMAIN new = DOMAIN Visits(maps, gatherer'[g])
  BY <1>1, <1>2, <1>3 DEF CollectedOK
<1>5. ASSUME NEW l \in DOMAIN new PROVE families'[rs[new[l].pos]].name = l
  <2>1. CASE l = n
    BY <1>2, <1>3, <2>1
  <2>2. CASE l # n
    <3>1. l \in DOMAIN stats /\ new[l] = stats[l]
      BY <1>3, <2>2
    <3>2. stats[l].pos \in DOMAIN gatherer[g].result
      <4>1. /\ gatherer[g].result \in Seq(1 .. Len(families))
            /\ stats[l].pos \in 1 .. Len(gatherer[g].result)
        BY <1>2, <3>1 DEF TypeInv, GathererOK, ProgressOK
      <4> QED
        BY <4>1
    <3>3. families[gatherer[g].result[stats[l].pos]].name = l
      BY <1>1, <1>2, <3>1 DEF CollectedOK
    <3> QED
      BY <3>1, <3>2, <3>3
  <2> QED
    BY <2>1, <2>2
<1>6. gatherer'[g].expected =
        PointedTo(maps, gatherer'[g].source, PairsIn(maps, gatherer'[g].source))
  BY <1>1, <1>3 DEF CollectedOK
<1> QED
  BY <1>2, <1>3, <1>4, <1>5, <1>6 DEF CollectedOK

LEMMA AddedFaithful ==
  ASSUME TypeInv, OwnersInv, ReadingInv, NEW g \in Gatherers, gatherer[g].at = "gather",
         NEW pair \in gatherer[g].todo, AddFamily(g, pair)
  PROVE  VisitFaithful(g)
<1>0. PICK n, p, result, last, wanted, more, fs :
        /\ n = pair[2] /\ p = maps[gatherer[g].source[pair[1]]][n]
        /\ result = gatherer[g].result /\ last = Len(families)
        /\ wanted = Visits(maps, gatherer[g]) /\ more = Visits(maps, gatherer'[g])
        /\ fs = families'
  OBVIOUS
<1>1. /\ families \in Seq(Family) /\ last \in Nat
      /\ result \in Seq(1 .. last) /\ Len(result) \in Nat /\ DOMAIN result = 1 .. Len(result)
      /\ \A i \in DOMAIN result : result[i] \in 1 .. last
  BY <1>0 DEF TypeInv, FamiliesOK, GathererOK, ProgressOK
<1>2. CollectedOK(families, maps, gatherer[g])
  BY DEF ReadingInv, ReadingOK
<1>3. Faithful(families, result, wanted) /\ n \notin DOMAIN wanted
  BY <1>0, <1>2 DEF CollectedOK, AddFamily
<1>4. PICK r, rs, stat :
        /\ rs = Append(result, r) /\ stat.pos = Len(result) + 1
        /\ Visited(g, pair, rs, stat)
        /\ \/ /\ r = last + 1
              /\ Allocate(<<[families[p] EXCEPT !.help = "standard"]>>)
           \/ /\ r = p /\ families' = families
              /\ ~ (n \in predefinedHelp /\ families[p].help # "standard")
  <2>1. CASE n \in predefinedHelp /\ families[p].help # "standard"
    <3>1. PICK r, stat : r = last + 1 /\ stat = [pos |-> Len(result) + 1, copied |-> TRUE]
      OBVIOUS
    <3>2. PICK rs : rs = Append(result, r)
      OBVIOUS
    <3>3. Visited(g, pair, rs, stat) /\ Allocate(<<[families[p] EXCEPT !.help = "standard"]>>)
      BY <1>0, <2>1, <3>1, <3>2 DEF AddFamily
    <3> QED
      BY <3>1, <3>2, <3>3
  <2>2. CASE ~ (n \in predefinedHelp /\ families[p].help # "standard")
    <3>1. PICK r, stat : r = p /\ stat = [pos |-> Len(result) + 1, copied |-> FALSE]
      OBVIOUS
    <3>2. PICK rs : rs = Append(result, r)
      OBVIOUS
    <3>3. Visited(g, pair, rs, stat) /\ families' = families
      BY <1>0, <2>2, <3>1, <3>2 DEF AddFamily
    <3> QED
      BY <2>2, <3>1, <3>2, <3>3
  <2> QED
    BY <2>1, <2>2
<1>5. /\ DOMAIN more = DOMAIN wanted \cup {n} /\ more[n] = {p}
      /\ \A l \in DOMAIN wanted : more[l] = wanted[l]
      /\ p \in 1 .. last /\ families[p] \in Family
      /\ families[p].name = n /\ families[p].samples = <<p>>
      /\ StoredIn(maps, loop, p)
  <2>1. Visited(g, pair, rs, stat)
    BY <1>4
  <2>2. OneMore(wanted, more, n, p) /\ PushedAs(p, n)
    BY <1>0, <2>1, NewPointer
  <2> QED
    BY <1>0, <1>3, <2>2 DEF OneMore, PushedAs
<1>6. /\ Len(fs) \in Nat /\ last <= Len(fs) /\ r \in 1 .. Len(fs)
      /\ \A q \in 1 .. last : fs[q] = families[q]
      /\ fs[r].name = n /\ fs[r].samples = <<p>>
      /\ n \in predefinedHelp => fs[r].help = "standard"
      /\ r > last \/ r = p
  <2>1. CASE r = last + 1 /\ Allocate(<<[families[p] EXCEPT !.help = "standard"]>>)
    <3>1. PICK f : f = [families[p] EXCEPT !.help = "standard"]
      OBVIOUS
    <3>2. f \in Family /\ f.name = n /\ f.samples = <<p>> /\ f.help = "standard"
      BY <1>5, <3>1 DEF Family, Helps
    <3>3. /\ Len(fs) = last + 1 /\ fs[last + 1] = f
          /\ \A q \in 1 .. last : fs[q] = families[q]
      BY <1>0, <1>1, <2>1, <3>1, <3>2, OneAllocated
    <3> QED
      BY <1>1, <2>1, <3>2, <3>3
  <2>2. CASE /\ r = p /\ families' = families
             /\ ~ (n \in predefinedHelp /\ families[p].help # "standard")
    <3>1. fs = families /\ Len(fs) = last /\ r = p
      BY <1>0, <2>2
    <3>2. n \in predefinedHelp => families[p].help = "standard"
      BY <2>2
    <3> QED
      BY <1>1, <1>5, <3>1, <3>2
  <2> QED
    BY <1>4, <2>1, <2>2
<1>7. \A i \in DOMAIN result : fs[result[i]] = families[result[i]]
  BY <1>1, <1>6
<1>8. Faithful(fs, rs, more)
  <2>1. PICK os : os = families
    OBVIOUS
  <2>2. Faithful(os, result, wanted) /\ SameResult(os, fs, result)
    BY <1>0, <1>1, <1>3, <1>6, <1>7, <2>1 DEF SameResult
  <2>3. ExposedAs(fs, r, n, p)
    BY <1>6 DEF ExposedAs
  <2>4. OneMore(wanted, more, n, p) /\ n \notin DOMAIN wanted
    BY <1>3, <1>5 DEF OneMore
  <2> QED
    BY <1>4, <2>2, <2>3, <2>4, NameAdded
<1>9. /\ rs[stat.pos] = r /\ DOMAIN rs = 1 .. Len(result) + 1
      /\ \A i \in DOMAIN result : rs[i] = result[i]
  <2>1. result \in Seq(1 .. Len(fs))
    BY <1>1, <1>6
  <2> QED
    BY <1>1, <1>4, <1>6, <2>1
<1>10. CollectedOK(families', maps, gatherer'[g])
  <2>1. /\ Visited(g, pair, rs, stat)
        /\ Faithful(families', rs, Visits(maps, gatherer'[g]))
    BY <1>0, <1>4, <1>8
  <2>2. /\ DOMAIN Visits(maps, gatherer'[g]) = DOMAIN Visits(maps, gatherer[g]) \cup {pair[2]}
        /\ families'[rs[stat.pos]].name = pair[2]
    BY <1>0, <1>5, <1>6, <1>9
  <2>3. \A i \in DOMAIN gatherer[g].result :
          families'[rs[i]].name = families[gatherer[g].result[i]].name
    BY <1>0, <1>7, <1>9
  <2> QED
    BY <2>1, <2>2, <2>3, CollectedVisit
<1>11. gatherer'[g].result = rs
  BY <1>4, NotedVisit
<1>12. ASSUME NEW i \in DOMAIN rs
       PROVE  \/ i \in DOMAIN result /\ rs[i] = result[i]
              \/ rs[i] > last
              \/ StoredIn(maps, loop, rs[i])
  <2>1. CASE i \in DOMAIN result
    BY <1>9, <2>1
  <2>2. CASE i \notin DOMAIN result
    <3>1. i = stat.pos
      <4>1. /\ i \in 1 .. Len(result) + 1 /\ ~ (i \in 1 .. Len(result))
            /\ Len(result) \in Nat
        BY <1>1, <1>9, <2>2
      <4>2. i = Len(result) + 1
        BY <4>1
      <4> QED
        BY <1>4, <4>2
    <3> QED
      BY <1>5, <1>6, <1>9, <3>1
  <2> QED
    BY <2>1, <2>2
<1> QED
  BY <1>0, <1>10, <1>11, <1>12 DEF VisitFaithful

LEMMA MergedFaithful ==
  ASSUME TypeInv, OwnersInv, ReadingInv, NEW g \in Gatherers, gatherer[g].at = "gather",
         NEW pair \in gatherer[g].todo, MergeFamily(g, pair)
  PROVE  VisitFaithful(g)
<1>0. PICK n, p, result, last, wanted, more, fs :
        /\ n = pair[2] /\ p = maps[gatherer[g].source[pair[1]]][n]
        /\ result = gatherer[g].result /\ last = Len(families)
        /\ wanted = Visits(maps, gatherer[g]) /\ more = Visits(maps, gatherer'[g])
        /\ fs = families'
  OBVIOUS
<1>1. /\ families \in Seq(Family) /\ last \in Nat
      /\ result \in Seq(1 .. last) /\ Len(result) \in Nat /\ DOMAIN result = 1 .. Len(result)
      /\ \A i \in DOMAIN result : result[i] \in 1 .. last
  BY <1>0 DEF TypeInv, FamiliesOK, GathererOK, ProgressOK
<1>2. CollectedOK(families, maps, gatherer[g])
  BY DEF ReadingInv, ReadingOK
<1>3. Faithful(families, result, wanted) /\ n \in DOMAIN wanted
  BY <1>0, <1>2 DEF CollectedOK, MergeFamily
<1>4. PICK stat, pos, old : /\ stat = gatherer[g].mfStatByName[n] /\ pos = stat.pos
                            /\ old = result[pos]
  OBVIOUS
<1>5. /\ stat \in [pos : 1 .. Len(result), copied : BOOLEAN]
      /\ families[old].name = n
  BY <1>0, <1>2, <1>3, <1>4 DEF CollectedOK, TypeInv, GathererOK, ProgressOK
<1>6. pos \in DOMAIN result /\ old \in 1 .. last /\ families[old] \in Family
  <2>1. pos \in DOMAIN result
    BY <1>1, <1>4, <1>5
  <2>2. old \in 1 .. last
    BY <1>1, <1>4, <2>1
  <2>3. families \in Seq(Family) /\ Len(families) = last
    BY <1>0, <1>1
  <2>4. families[old] \in Family
    BY <2>2, <2>3
  <2> QED
    BY <2>1, <2>2, <2>4
<1>7. PICK all : all = [families[old] EXCEPT !.samples = @ \o families[p].samples]
  OBVIOUS
<1>8. PICK rs, note :
        /\ Visited(g, pair, rs, note) /\ note.pos = pos
        /\ \/ rs = result /\ families' = [families EXCEPT ![old] = all]
           \/ rs = [result EXCEPT ![pos] = last + 1] /\ Allocate(<<all>>)
  <2>1. CASE stat.copied
    <3>1. Visited(g, pair, result, stat) /\ families' = [families EXCEPT ![old] = all]
      BY <1>0, <1>4, <1>7, <2>1 DEF MergeFamily
    <3> QED
      BY <1>4, <3>1
  <2>2. CASE ~ stat.copied
    <3>1. PICK rs, note : /\ rs = [result EXCEPT ![pos] = last + 1]
                          /\ note = [stat EXCEPT !.copied = TRUE]
      OBVIOUS
    <3>2. Visited(g, pair, rs, note) /\ Allocate(<<all>>)
      BY <1>0, <1>4, <1>7, <2>2, <3>1 DEF MergeFamily
    <3>3. note.pos = pos
      BY <1>4, <1>5, <3>1
    <3> QED
      BY <3>1, <3>2, <3>3
  <2> QED
    BY <2>1, <2>2
<1>9. OneMore(wanted, more, n, p) /\ p \notin wanted[n] /\ PushedAs(p, n)
  <2>1. Visited(g, pair, rs, note)
    BY <1>8
  <2>2. /\ OneMore(wanted, more, n, p)
        /\ n \in DOMAIN wanted => p \notin wanted[n]
        /\ PushedAs(p, n)
    BY <1>0, <2>1, NewPointer
  <2> QED
    BY <1>3, <2>2
<1>10. p \in 1 .. last /\ families[p].samples = <<p>>
  BY <1>0, <1>9 DEF PushedAs
<1>11. PICK s : s = families[old].samples
  OBVIOUS
<1>12. /\ s \in Seq(Nat) /\ all \in Family /\ all.name = n
       /\ all.help = families[old].help /\ all.samples = s \o <<p>>
  <2>1. PICK mf, longer, help : mf = families[old] /\ longer = s \o <<p>> /\ help = mf.help
    OBVIOUS
  <2>2. /\ s \in Seq(Nat) /\ longer \in Seq(Nat) /\ help \in Helps /\ n \in Names
        /\ mf = [name |-> n, help |-> help, samples |-> s]
    BY <1>1, <1>5, <1>6, <1>10, <1>11, <2>1 DEF Family
  <2>3. all = [mf EXCEPT !.samples = longer]
    BY <1>7, <1>10, <1>11, <2>1
  <2>4. all = [name |-> n, help |-> help, samples |-> longer]
    BY <2>2, <2>3
  <2>5. all \in Family /\ all.name = n /\ all.help = help /\ all.samples = longer
    BY <2>2, <2>4 DEF Family
  <2> QED
    BY <2>1, <2>2, <2>5
<1>13. \A i \in DOMAIN result : i # pos => result[i] # old
  BY <1>3, <1>4, <1>5, <1>6 DEF Faithful
<1>14. /\ Len(fs) \in Nat /\ last <= Len(fs)
       /\ rs \in Seq(1 .. Len(fs)) /\ DOMAIN rs = DOMAIN result
       /\ fs[rs[pos]] = all
       /\ \A i \in DOMAIN result :
            i # pos => fs[rs[i]] = families[result[i]] /\ rs[i] = result[i]
       /\ rs[pos] = old \/ rs[pos] > last
  <2>1. CASE rs = result /\ families' = [families EXCEPT ![old] = all]
    <3>1. /\ Len(fs) = last /\ fs[old] = all
          /\ \A q \in 1 .. last : q # old => fs[q] = families[q]
      <4>1. Len(families) = last /\ families \in Seq(Family) /\ old \in 1 .. last
        BY <1>0, <1>1, <1>6
      <4>2. fs = [families EXCEPT ![old] = all]
        BY <1>0, <2>1
      <4> QED
        BY <4>1, <4>2
    <3>2. rs \in Seq(1 .. Len(fs)) /\ Len(fs) \in Nat /\ last <= Len(fs)
      BY <1>1, <2>1, <3>1
    <3>3. DOMAIN rs = DOMAIN result /\ rs[pos] = old
      BY <1>4, <2>1
    <3>4. fs[rs[pos]] = all
      BY <3>1, <3>3
    <3>5. ASSUME NEW i \in DOMAIN result, i # pos
          PROVE  fs[rs[i]] = families[result[i]] /\ rs[i] = result[i]
      <4>1. result[i] \in 1 .. last /\ result[i] # old
        BY <1>1, <1>13, <3>5
      <4> QED
        BY <2>1, <3>1, <4>1
    <3> QED
      BY <3>2, <3>3, <3>4, <3>5
  <2>2. CASE rs = [result EXCEPT ![pos] = last + 1] /\ Allocate(<<all>>)
    <3>1. /\ Len(fs) = last + 1 /\ fs[last + 1] = all
          /\ \A q \in 1 .. last : fs[q] = families[q]
      BY <1>0, <1>1, <1>12, <2>2, OneAllocated
    <3>2. /\ rs \in Seq(1 .. last + 1) /\ DOMAIN rs = DOMAIN result /\ rs[pos] = last + 1
          /\ \A i \in DOMAIN result : i # pos => rs[i] = result[i]
      <4>1. result \in Seq(1 .. last + 1)
        BY <1>1
      <4> QED
        BY <1>1, <1>6, <2>2, <4>1
    <3> QED
      BY <1>1, <3>1, <3>2
  <2> QED
    BY <1>8, <2>1, <2>2
<1>15. Faithful(fs, rs, more)
  <2>1. PICK os : os = families
    OBVIOUS
  <2>2. MergedAt(os, fs, result, rs, pos, n, p)
    <3>1. p \in Nat
      BY <1>1, <1>10
    <3> QED
      BY <1>4, <1>5, <1>6, <1>11, <1>12, <1>14, <2>1, <3>1 DEF MergedAt
  <2>3. Faithful(os, result, wanted)
    BY <1>3, <2>1
  <2> QED
    BY <1>9, <2>2, <2>3, NameMerged
<1>16. CollectedOK(families', maps, gatherer'[g])
  <2>1. /\ Visited(g, pair, rs, note)
        /\ Faithful(families', rs, Visits(maps, gatherer'[g]))
    BY <1>0, <1>8, <1>15
  <2>2. /\ DOMAIN Visits(maps, gatherer'[g]) = DOMAIN Visits(maps, gatherer[g]) \cup {pair[2]}
        /\ families'[rs[note.pos]].name = pair[2]
    BY <1>0, <1>8, <1>9, <1>12, <1>14 DEF OneMore
  <2>3. \A i \in DOMAIN gatherer[g].result :
          families'[rs[i]].name = families[gatherer[g].result[i]].name
    BY <1>0, <1>4, <1>5, <1>12, <1>14
  <2> QED
    BY <2>1, <2>2, <2>3, CollectedVisit
<1>17. gatherer'[g].result = rs
  BY <1>8, NotedVisit
<1>18. ASSUME NEW i \in DOMAIN rs
       PROVE  (i \in DOMAIN result /\ rs[i] = result[i]) \/ rs[i] > last
  BY <1>4, <1>14
<1> QED
  BY <1>0, <1>16, <1>17, <1>18 DEF VisitFaithful

\* A visit leaves the other results as they are, and its own is what it visited.
LEMMA ReadingVisit ==
  ASSUME TypeInv, StoredInv, OwnersInv, ReadingInv, NEW g \in Gatherers, VisitFamily(g)
  PROVE  ReadingInv'
<1>1. VisitOK(g) /\ gatherer[g].at = "gather"
  BY Visit
<1>2. VisitFaithful(g)
  <2>1. PICK pair \in Upcoming(g) : AddFamily(g, pair) \/ MergeFamily(g, pair)
    BY DEF VisitFamily
  <2>2. pair \in gatherer[g].todo
    BY <2>1 DEF Upcoming
  <2> QED
    BY <1>1, <2>1, <2>2, AddedFaithful, MergedFaithful
<1>3. /\ maps' = maps /\ loop' = loop /\ Len(families) \in Nat
      /\ Len(families') \in Nat /\ Len(families) <= Len(families')
  BY <1>1 DEF VisitFamily, VisitOK, Grown, TypeInv, FamiliesOK
<1>4. /\ \A h \in Gatherers : h # g => gatherer'[h] = gatherer[h]
      /\ gatherer'[g].at = "gather"
      /\ \A q \in 1 .. Len(families) : families'[q] = families[q] \/ q \in Copies(gatherer[g])
      /\ \A q \in Copies(gatherer'[g]) : q > Len(families) \/ q \in Copies(gatherer[g])
  BY <1>1 DEF VisitOK
<1>5. ASSUME NEW h \in Gatherers PROVE ReadingOK(families', maps', gatherer'[h])
  <2>1. CASE h = g
    BY <1>2, <1>3, <1>4, <2>1 DEF VisitFaithful, ReadingOK
  <2>2. CASE h # g
    <3>1. PICK fs, gs, ms, work : /\ fs = families /\ gs = families' /\ ms = maps
                                  /\ work = gatherer[h]
      OBVIOUS
    <3>2. ReadingOK(fs, ms, work) /\ GathererOK(fs, ms, work)
      BY <3>1 DEF TypeInv, ReadingInv
    <3>3. work.at = "gather" => Extended(ms, ms)
      BY DEF Extended
    <3>4. ASSUME work.at \in {"gather", "done"}, NEW i \in DOMAIN work.result
          PROVE  gs[work.result[i]] = fs[work.result[i]]
      <4>1. work.result[i] \in 1 .. Len(families)
        BY <3>1, <3>4, ResultInHeap
      <4>2. work.result[i] \notin Copies(gatherer[g])
        BY <1>1, <2>2, <3>1, <3>4 DEF ReadingInv, Apart
      <4> QED
        BY <1>4, <3>1, <4>1, <4>2
    <3>5. Len(fs) \in Nat /\ Len(gs) \in Nat /\ Len(fs) <= Len(gs)
      BY <1>3, <3>1
    <3>6. ReadingOK(gs, ms, work)
      BY <3>2, <3>3, <3>4, <3>5, ReadingKept
    <3> QED
      BY <1>3, <1>4, <2>2, <3>1, <3>6
  <2> QED
    BY <2>1, <2>2
<1>6. ASSUME NEW h \in Gatherers, NEW other \in Gatherers, h # other,
             gatherer'[h].at \in {"gather", "done"}, gatherer'[other].at = "gather",
             NEW i \in DOMAIN gatherer'[h].result
      PROVE  gatherer'[h].result[i] \notin Copies(gatherer'[other])
  <2>1. PICK q : q = gatherer'[h].result[i]
    OBVIOUS
  <2>2. CASE h # g /\ other # g
    BY <1>4, <1>6, <2>2 DEF ReadingInv, Apart
  <2>3. CASE other = g
    <3>1. gatherer'[h] = gatherer[h]
      BY <1>4, <1>6, <2>3
    <3>2. q \in 1 .. Len(families)
      BY <1>6, <2>1, <3>1, ResultInHeap
    <3>3. q \notin Copies(gatherer[g])
      BY <1>1, <1>6, <2>1, <2>3, <3>1 DEF ReadingInv, Apart
    <3>4. ~ (q > Len(families))
      BY <1>3, <3>2
    <3> QED
      BY <1>4, <2>1, <2>3, <3>3, <3>4
  <2>4. CASE h = g
    <3>1. gatherer'[other] = gatherer[other] /\ gatherer[other].at = "gather"
      BY <1>4, <1>6, <2>4
    <3>2. \/ i \in DOMAIN gatherer[g].result /\ q = gatherer[g].result[i]
          \/ q > Len(families)
          \/ StoredIn(maps, loop, q)
      BY <1>2, <1>6, <2>1, <2>4 DEF VisitFaithful
    <3>3. ASSUME i \in DOMAIN gatherer[g].result, q = gatherer[g].result[i]
          PROVE  q \notin Copies(gatherer[other])
      BY <1>1, <1>6, <2>4, <3>1, <3>3 DEF ReadingInv, Apart
    <3>4. ASSUME q > Len(families) PROVE q \notin Copies(gatherer[other])
      <4>1. q \notin 1 .. Len(families)
        BY <1>3, <3>4
      <4> QED
        BY <3>1, <4>1, CopiesInHeap
    <3>5. StoredIn(maps, loop, q) => q \notin Copies(gatherer[other])
      BY <3>1 DEF StoredInv
    <3> QED
      BY <2>1, <2>4, <3>1, <3>2, <3>3, <3>4, <3>5
  <2> QED
    BY <2>2, <2>3, <2>4
<1>7. \A h, other \in Gatherers : h # other => Apart(gatherer'[h], gatherer'[other])
  BY <1>6 DEF Apart
<1> QED
  BY <1>5, <1>7 DEF ReadingInv

LEMMA ReadingSteps ==
  TypeInv /\ StoredInv /\ OwnersInv /\ ReadingInv /\ [Next]_vars => ReadingInv'
<1> SUFFICES ASSUME TypeInv, StoredInv, OwnersInv, ReadingInv, [Next]_vars PROVE ReadingInv'
  OBVIOUS
<1>1. CASE UNCHANGED vars
  BY <1>1 DEF vars, heap, ReadingInv
<1>2. CASE Next
  BY <1>2, ReadingLoop, ReadingBegunOrEnded, ReadingVisit DEF Next
<1> QED
  BY <1>1, <1>2

\* What GetMetricFamilies hands out has each name once, each sample that was stored
\* when it took the lock once, and nothing else, whatever is pushed, deleted and
\* gathered meanwhile and afterwards.  Samples do not get doubled since the maps know
\* their keys: a family, and so its sample, is stored in one group (OwnersInv).  Results
\* do not change since a gathering only changes copies that no other result has
\* (ReadingInv).
THEOREM GatheringsStayFaithful == Spec => []GatheredFaithful
<1>1. Init => TypeInv /\ StoredInv /\ OwnersInv /\ ReadingInv
  BY TypesInitial, StoredInitial, OwnersInitial, ReadingInitial
<1>2. TypeInv /\ StoredInv /\ OwnersInv /\ ReadingInv /\ [Next]_vars =>
        TypeInv' /\ StoredInv' /\ OwnersInv' /\ ReadingInv'
  BY TypesKept, StoredSteps, OwnersSteps, ReadingSteps
<1>3. ReadingInv => GatheredFaithful
  <2> SUFFICES ASSUME ReadingInv, NEW g \in Gatherers, gatherer[g].at = "done",
                      NEW result,
                      result = [i \in DOMAIN gatherer[g].result |->
                                  families[gatherer[g].result[i]]]
               PROVE  /\ IsInjective([i \in DOMAIN result |-> result[i].name])
                      /\ {mf.name : mf \in Range(result)} = DOMAIN gatherer[g].expected
                      /\ \A mf \in Range(result) :
                           /\ ToSet(mf.samples) = gatherer[g].expected[mf.name]
                           /\ IsInjective(mf.samples)
                           /\ mf.name \in predefinedHelp => mf.help = "standard"
    BY DEF GatheredFaithful
  <2>1. PICK at, wanted : at = gatherer[g].result /\ wanted = gatherer[g].expected
    OBVIOUS
  <2>2. Faithful(families, at, wanted)
    BY <2>1 DEF ReadingInv, ReadingOK
  <2>3. /\ DOMAIN result = DOMAIN at /\ \A i \in DOMAIN at : result[i] = families[at[i]]
        /\ \A mf : mf \in Range(result) <=> \E i \in DOMAIN at : mf = families[at[i]]
    BY <2>1 DEF Range
  <2>4. IsInjective([i \in DOMAIN result |-> result[i].name])
    <3>1. \A i, j \in DOMAIN at : families[at[i]].name = families[at[j]].name => i = j
      BY <2>2 DEF Faithful
    <3>2. ASSUME NEW i \in DOMAIN result, NEW j \in DOMAIN result,
                 result[i].name = result[j].name
          PROVE  i = j
      BY <2>3, <3>1, <3>2
    <3> QED
      BY <3>2 DEF IsInjective
  <2>5. ASSUME NEW mf \in Range(result)
        PROVE  /\ mf.name \in DOMAIN wanted
               /\ ToSet(mf.samples) = wanted[mf.name]
               /\ IsInjective(mf.samples)
               /\ mf.name \in predefinedHelp => mf.help = "standard"
    BY <2>2, <2>3 DEF Faithful
  <2>6. ASSUME NEW n \in DOMAIN wanted PROVE \E mf \in Range(result) : mf.name = n
    BY <2>2, <2>3 DEF Faithful
  <2>7. {mf.name : mf \in Range(result)} = DOMAIN wanted
    <3>1. PICK names : names = {mf.name : mf \in Range(result)}
      OBVIOUS
    <3>2. \A n : n \in names <=> \E mf \in Range(result) : n = mf.name
      BY <3>1
    <3>3. \A n : n \in names <=> n \in DOMAIN wanted
      <4>1. ASSUME NEW n \in names PROVE n \in DOMAIN wanted
        <5>1. PICK mf \in Range(result) : n = mf.name
          BY <3>2
        <5> QED
          BY <2>5, <5>1
      <4>2. ASSUME NEW n \in DOMAIN wanted PROVE n \in names
        BY <2>6, <3>2
      <4> QED
        BY <4>1, <4>2
    <3> QED
      BY <3>1, <3>3
  <2> QED
    BY <2>1, <2>4, <2>5, <2>7
<1> QED
  BY <1>1, <1>2, <1>3, PTL DEF Spec

=============================================================================
