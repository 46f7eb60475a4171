------------------------------- MODULE StoreCache -------------------------------
(***************************************************************************)
(* The caches of NativeSessionStore (native_session_store_cache.cpp): the  *)
(* queries about scans, matches and verifications keep what they read of a *)
(* group's two files, all parent records and the child records of the      *)
(* parent last asked for, until a save of the group or an open drops it.   *)
(*                                                                         *)
(* Queries and saves do not overlap, so a save is one step with all the    *)
(* ends it may come to when one of its changes of the directory fails, and *)
(* perhaps one change of the undoing too (StoreDisk; module NativeStore    *)
(* has the changes one by one).  A record is <<key, number of the save>>.  *)
(* The file of counters has no cache and is left out.                      *)
(***************************************************************************)
EXTENDS StoreDisk

CONSTANTS
    Groups,      \* pairs <<parent file, child file>>
    Keys,        \* session and run ids
    MaxSaves     \* bound on the saves of a run

VARIABLES
    store,       \* the directory
    storeOpen,   \* opened_
    parents,     \* per group: [valid, view], the cache of the parent file
    children,    \* per group: [valid, key, view], the cache of the child file
    saves,       \* bound counter, and the number of a save
    asked,       \* history: the last step, if it was a query that read what it needed
    repaired     \* history: files a recovery changed under a cache it does not know of

cacheVars == <<store, storeOpen, parents, children, saves, asked, repaired>>

CacheFiles == UNION {{g[1], g[2]} : g \in Groups}
NoParents == [valid |-> FALSE, view |-> {}]
NoChildren == [valid |-> FALSE, key |-> "", view |-> {}]
NoQuestion == [made |-> FALSE]

CacheInit ==
    /\ store = [path |-> [f \in CacheFiles |-> {}], temp |-> [f \in CacheFiles |-> Absent],
                backup |-> [f \in CacheFiles |-> Absent], manifest |-> NoManifest, commit |-> FALSE]
    /\ storeOpen = TRUE
    /\ parents = [g \in Groups |-> NoParents] /\ children = [g \in Groups |-> NoChildren]
    /\ saves = 0 /\ asked = NoQuestion /\ repaired = {}

\* visitRecords: a file that is not there has no records.
Records(f) == IF Holds(store, "path", f) THEN store.path[f] ELSE {}
OfKey(records, key) == {r \in records : r[1] = key}

(***************************************************************************)
(* Queries.                                                                *)
(***************************************************************************)
\* cachedScanSessions, cachedMatchRuns, cachedRuleVerificationRuns.
CachedParents(g, readable) ==
    CASE parents[g].valid -> parents[g]
      [] ~parents[g].valid /\ readable -> [valid |-> TRUE, view |-> Records(g[1])]
      [] OTHER -> NoParents

\* Mutant: the key is not compared.
IsValid(cache, key) == cache.valid

IsCacheOf(cache, key) == cache.valid /\ cache.key = key

\* cachedScanAttempts, cachedScanObservations and the like.
CachedChildren(g, key, readable) ==
    CASE IsCacheOf(children[g], key) -> children[g]
      [] ~IsCacheOf(children[g], key) /\ readable ->
            [valid |-> TRUE, key |-> key, view |-> OfKey(Records(g[2]), key)]
      [] OTHER -> [NoChildren EXCEPT !.key = key]

\* scanAttempts, matchCandidates, ruleVerificationResults: no children without the parent.
QueryChildren(g, key, readable) ==
    LET known == CachedParents(g, readable)
        found == OfKey(known.view, key) # {}
    IN  /\ parents' = [parents EXCEPT ![g] = known]
        /\ children' = IF found THEN [children EXCEPT ![g] = CachedChildren(g, key, readable)]
                       ELSE children
        /\ asked' = IF known.valid /\ (found => children'[g].valid)
                    THEN [made |-> TRUE, group |-> g, key |-> key, parents |-> known.view,
                          children |-> IF found THEN children'[g].view ELSE {}]
                    ELSE NoQuestion
        /\ UNCHANGED <<store, storeOpen, saves, repaired>>

(***************************************************************************)
(* Saves.                                                                  *)
(***************************************************************************)
\* invalidateCachesForFile: a parent file takes its children with it.
Invalidate(files) ==
    /\ parents' = [g \in Groups |-> IF g[1] \in files THEN NoParents ELSE parents[g]]
    /\ children' = [g \in Groups |-> IF {g[1], g[2]} \cap files # {} THEN NoChildren ELSE children[g]]

\* The directory after a plan, and where a plan may stop when a change fails.
After(d, plan) == FoldLeft(Apply, d, plan)
Stopped(d, plan) == {After(d, SubSeq(plan, 1, n)) : n \in 0..(Len(plan) - 1)}
Ends(d, plan) == Stopped(d, plan) \cup {After(d, plan)}

Fail(disks, files) == {[disk |-> d, ok |-> FALSE, dropped |-> files] : d \in disks}
Succeed(disks, files) == {[disk |-> d, ok |-> TRUE, dropped |-> files] : d \in disks}

\* A swap that fails is rolled back if it can be.
Undone(d) ==
    IF d.manifest = NoManifest \/ ~CanRollBack(d) THEN {d} ELSE Ends(d, RollBack(d))

\* rewriteRecordsFilteredTransaction after the recovery, for the files g of a group.
Rewritten(d0, g, key, number) ==
    LET d1 == After(d0, RecoverArtifacts(d0, g[1]))
        d2 == After(d1, RecoverArtifacts(d1, g[2]))
        new(f) == {r \in d2.path[f] : r[1] # key} \cup {<<key, number>>}
        temps == [i \in 1..2 |-> Write("temp", g[i], IF Holds(d2, "path", g[i]) THEN new(g[i])
                                                      ELSE {<<key, number>>})]
        d3 == After(d2, temps)
        d4 == After(d3, Swap(d3, g))
        both == {g[1], g[2]}
    IN  Fail(Stopped(d0, RecoverArtifacts(d0, g[1])), {})
        \cup Fail(Stopped(d1, RecoverArtifacts(d1, g[2])), {g[1]})
        \cup Fail({d2}, both)                                \* a temporary file cannot be written
        \cup Fail(UNION {Undone(d) : d \in Stopped(d3, Swap(d3, g))}, both)
        \cup Succeed(Ends(d4, Finish(d4)), both)

SaveEnds(g, key, number) ==
    IF CanRecover(store)
    THEN Fail(Stopped(store, RecoverTransaction(store)), {})
         \cup Rewritten(After(store, RecoverTransaction(store)), g, key, number)
    ELSE Fail({store}, {})

Cached(f) ==
    \E g \in Groups : (f = g[1] /\ parents[g].valid) \/ (f = g[2] /\ children[g].valid)
ChangedByRecovery(d) == {f \in CacheFiles : Cached(f) /\ d.path[f] # store.path[f]}

\* saveScanExecution, saveMatchRun, saveRuleVerificationRun
Save(g, key) ==
    /\ storeOpen /\ saves < MaxSaves
    /\ saves' = saves + 1
    /\ \E end \in SaveEnds(g, key, saves + 1) :
          /\ store' = end.disk
          /\ Invalidate(end.dropped)
          /\ repaired' = (repaired \cup ChangedByRecovery(end.disk)) \ end.dropped
    /\ asked' = NoQuestion
    /\ UNCHANGED storeOpen

\* open: everything is dropped before the files are recovered.
OpenStore ==
    /\ Invalidate(CacheFiles) /\ repaired' = {}
    /\ LET plan == IF CanRecover(store) THEN RecoverTransaction(store) ELSE << >>
       IN  \/ CanRecover(store) /\ store' = After(store, plan) /\ storeOpen' = TRUE
           \/ store' \in Stopped(store, plan) \cup {store} /\ storeOpen' = FALSE
    /\ asked' = NoQuestion
    /\ UNCHANGED saves

CacheNext ==
    \/ \E g \in Groups, key \in Keys, readable \in BOOLEAN : QueryChildren(g, key, readable)
    \/ \E g \in Groups, key \in Keys : Save(g, key)
    \/ OpenStore

--------------------------------------------------------------------------------
Group(g) == {g[1], g[2]}

\* What a query returns is what the files hold when it is made, also after saves that failed
\* and were rolled back or not, and after reads that failed.  One case is excepted: the next
\* save of another group repairs what a failed roll-back left of this one, and does not drop
\* what was cached in between.
QueriesAreFresh ==
    asked.made /\ Group(asked.group) \cap repaired = {} =>
        /\ asked.parents = Records(asked.group[1])
        /\ asked.children = IF OfKey(asked.parents, asked.key) = {} THEN {}
                            ELSE OfKey(Records(asked.group[2]), asked.key)
=============================================================================
