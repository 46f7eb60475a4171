----------------------------- MODULE EvidenceBundle -----------------------------
(***************************************************************************)
(* writeEvidenceBundle (report/evidence_bundle_writer.cpp): the files of a *)
(* bundle are written into a new directory beside the target, which then   *)
(* becomes the target by a rename, or is removed.  Several writers may     *)
(* have the same target, and some other program may create it.             *)
(***************************************************************************)
EXTENDS Integers, Sequences, FiniteSets, SequencesExt

CONSTANTS
    Writers,
    Nonces,      \* the names "target.tmp-<nonce>"
    Attempts,    \* 128 in the code
    NoDir        \* what a name holds that is not there

VARIABLES
    dirs,        \* per name: NoDir, or its maker and its files
    bundle,      \* per writer: what it is asked to include
    bwPc,        \* per writer: "check", "create", "write", "recheck", "publish", "clean", "done"
    temporary,   \* per writer: temporaryDirectory
    tries,       \* per writer: names tried
    success,     \* per writer: result.success
    \* history
    notRemoved   \* per writer: remove_all failed

bundleVars == <<dirs, bundle, bwPc, temporary, tries, success, notRemoved>>

Names == Nonces \cup {"target"}
Optional == {"raw_events.tsv", "scan_settings.txt"}

\* The order of the files; report_metadata.txt and rule_verification_report.md are treated
\* like scan_settings.txt.
Wanted(w) == SelectSeq(<<"summary.md", "app_version.txt", "raw_events.tsv", "scan_settings.txt">>,
                       LAMBDA f : f \notin Optional \/ f \in bundle[w])

\* What renderEvidenceBundleSummary says is there.
ListedFiles(w) == {"summary.md", "app_version.txt"} \cup bundle[w]

BundleInit ==
    /\ dirs = [n \in Names |-> NoDir]
    /\ bundle \in [Writers -> SUBSET Optional]
    /\ bwPc = [w \in Writers |-> "check"]
    /\ temporary = [w \in Writers |-> "none"] /\ tries = [w \in Writers |-> 0]
    /\ success = [w \in Writers |-> FALSE] /\ notRemoved = [w \in Writers |-> FALSE]

There(name) == dirs[name] # NoDir
NewDir(maker) == [by |-> maker, files |-> {}]
Goto(w, pc) == bwPc' = [bwPc EXCEPT ![w] = pc]
InBundle(w, pc) == bwPc[w] = pc

\* pathEntryExists may also fail.
CheckTarget(w) ==
    /\ InBundle(w, "check")
    /\ Goto(w, "done") \/ (~There("target") /\ Goto(w, "create"))
    /\ UNCHANGED <<dirs, bundle, temporary, tries, success, notRemoved>>

\* Mutant: a directory that is there already is taken.
ReusesIfThere(name) == TRUE

IsCreated(name) == ~There(name)

CreateTemporary(w, name) ==
    /\ InBundle(w, "create")
    /\ tries' = [tries EXCEPT ![w] = @ + 1]
    /\ IF IsCreated(name)
       THEN /\ dirs' = IF There(name) THEN dirs ELSE [dirs EXCEPT ![name] = NewDir(w)]
            /\ temporary' = [temporary EXCEPT ![w] = name] /\ Goto(w, "write")
       ELSE /\ Goto(w, IF tries'[w] = Attempts THEN "done" ELSE "create")
            /\ UNCHANGED <<dirs, temporary>>
    /\ UNCHANGED <<bundle, success, notRemoved>>

CreateFails(w) ==
    /\ InBundle(w, "create") /\ Goto(w, "done")
    /\ UNCHANGED <<dirs, bundle, temporary, tries, success, notRemoved>>

Written(w) == dirs[temporary[w]].files
NextFile(w) == LET left == SelectSeq(Wanted(w), LAMBDA f : f \notin Written(w)) IN Head(left)

WriteBundleFile(w) ==
    /\ InBundle(w, "write") /\ There(temporary[w])
    /\ dirs' = [dirs EXCEPT ![temporary[w]].files = @ \cup {NextFile(w)}]
    /\ Goto(w, IF ToSet(Wanted(w)) \subseteq dirs'[temporary[w]].files THEN "recheck" ELSE "write")
    /\ UNCHANGED <<bundle, temporary, tries, success, notRemoved>>

WriteFails(w) ==
    /\ InBundle(w, "write") /\ Goto(w, "clean")
    /\ UNCHANGED <<dirs, bundle, temporary, tries, success, notRemoved>>

RecheckTarget(w) ==
    /\ InBundle(w, "recheck")
    /\ Goto(w, "clean") \/ (~There("target") /\ Goto(w, "publish"))
    /\ UNCHANGED <<dirs, bundle, temporary, tries, success, notRemoved>>

\* rename: it may fail for any reason, and must if there is a target with something in it.
\* An empty one is replaced by some systems.
Publish(w) ==
    /\ InBundle(w, "publish") /\ There(temporary[w])
    /\ IF There("target") THEN dirs["target"].files = {} ELSE TRUE
    /\ dirs' = [dirs EXCEPT !["target"] = dirs[temporary[w]], ![temporary[w]] = NoDir]
    /\ success' = [success EXCEPT ![w] = TRUE]
    /\ Goto(w, "done")
    /\ UNCHANGED <<bundle, temporary, tries, notRemoved>>

PublishFails(w) ==
    /\ InBundle(w, "publish") /\ Goto(w, "clean")
    /\ UNCHANGED <<dirs, bundle, temporary, tries, success, notRemoved>>

\* The guard's destructor, which ignores what goes wrong.
Clean(w) ==
    /\ InBundle(w, "clean") /\ Goto(w, "done")
    /\ \/ dirs' = [dirs EXCEPT ![temporary[w]] = NoDir] /\ UNCHANGED notRemoved
       \/ notRemoved' = [notRemoved EXCEPT ![w] = TRUE] /\ UNCHANGED dirs
    /\ UNCHANGED <<bundle, temporary, tries, success>>

\* Another program makes the target, and puts something into it.
OtherProgram ==
    /\ \E w \in Writers : bwPc[w] # "done"
    /\ \/ ~There("target") /\ dirs' = [dirs EXCEPT !["target"] = NewDir("other")]
       \/ /\ There("target") /\ dirs["target"].by = "other"
          /\ dirs' = [dirs EXCEPT !["target"].files = {"theirs"}]
    /\ UNCHANGED <<bundle, bwPc, temporary, tries, success, notRemoved>>

BundleNext ==
    \/ \E w \in Writers :
          \/ CheckTarget(w) \/ CreateFails(w) \/ WriteBundleFile(w) \/ WriteFails(w)
          \/ RecheckTarget(w) \/ Publish(w) \/ PublishFails(w) \/ Clean(w)
          \/ \E name \in Nonces : CreateTemporary(w, name)
    \/ OtherProgram

--------------------------------------------------------------------------------
\* A writer reports success exactly when the target is its own bundle, whole, with the
\* files its summary lists; no other writer's and no other program's files are ever in the
\* directory a writer fills, nor replaced by it; and a writer that failed leaves its
\* temporary directory behind only if that could not be removed.
BundleIsWholeAndMine ==
    /\ \A w \in Writers :
          /\ success[w] => There("target") /\ dirs["target"] = [by |-> w, files |-> ListedFiles(w)]
          /\ There("target") /\ dirs["target"].by = w => success[w]
          /\ bwPc[w] \in {"write", "recheck", "publish", "clean"} =>
                There(temporary[w]) /\ dirs[temporary[w]].by = w
          /\ bwPc[w] = "done" /\ ~notRemoved[w] => \A n \in Nonces : There(n) => dirs[n].by # w
    /\ There("target") /\ "theirs" \in dirs["target"].files => dirs["target"].by = "other"
================================================================================
