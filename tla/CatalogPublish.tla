--------------------------- MODULE CatalogPublish ---------------------------
(***************************************************************************)
(* Publishing the central plugin catalog: the publish-central-catalog job  *)
(* of .github/workflows/release-plugin-v3.yml with its two scripts, and    *)
(* publish_generation of src/xtask/src/catalog_publish.rs.  A run resolves *)
(* the merge base from the cdn and the GitHub mirror, prepares and signs a *)
(* master catalog (and the rule packs it lists first), saves that signed   *)
(* preparation, uploads it to two stores, verifies both, and moves the     *)
(* redirect: JSON to R2, its signature bundle to R2, both to the mirror.   *)
(* A step can fail wherever the job can die; a rerun starts over from the  *)
(* saved preparation.                                                      *)
(***************************************************************************)
EXTENDS Naturals, FiniteSets

CONSTANTS
    Runs,               \* release-trigger runs; a run's master is named after it
    Packs,              \* rule-pack releases
    PackOf,             \* run |-> the pack releases it selects
    Genesis,            \* the master served at the start
    Absent,             \* no such object
    Repairs,            \* may an operator set SCRYER_CATALOG_MERGE_BASE_ASSET
    MaxFails,           \* BOUND: steps that fail
    MaxReruns,          \* BOUND: runs that are started again
    MaxMishaps          \* BOUND: uploads that store damaged bytes, and preparations that expire

ASSUME NamesAssumption ==
    /\ Genesis \notin Runs /\ Absent \notin Runs \union {Genesis, "good", "bad"}
    /\ "bad" \notin Runs /\ "good" \notin Runs
    /\ Runs \intersect Packs = {}
ASSUME PackOfAssumption == PackOf \in [Runs -> SUBSET Packs]
ASSUME FlagAssumption == Repairs \in BOOLEAN
ASSUME BoundAssumption == {MaxFails, MaxReruns, MaxMishaps} \subseteq Nat

Masters == Runs \union {Genesis}
Items == Runs \union Packs                  \* what a run uploads ...
Kinds == {"data", "sig"}                    \* ... each with its signature
Assets == Items \X Kinds

VARIABLES
    job,                \* per run: its publish job on the runner
    saved,              \* per run: the signed preparation saved as an artifact
    expired,            \* runs whose saved preparation expired
    r2,                 \* hashed assets in the R2 bucket
    github,             \* per run: hashed assets on its generation release
    releases,           \* runs whose generation release exists
    live,               \* the redirect in R2: its JSON and its bundle
    cdn,                \* the same two as the CDN serves them, possibly stale
    mirror,             \* the same two on the GitHub redirect release
    everLive,           \* history: masters the R2 redirect has named
    budget              \* BOUND: what the environment has used of its bounds

stores == <<r2, github, releases>>
redirects == <<live, cdn, mirror, everLive>>
artifacts == <<saved, expired>>
vars == <<job, artifacts, stores, redirects, budget>>

\* dist/catalog-v3: the master, and the packs its catalog lists with the run
\* on whose generation release each has its mirror.
Prep == [base : Masters,                    \* expected-merge-base
         onto : Masters,                    \* the master it was merged onto
         generation : Nat,
         runs : SUBSET Runs,                \* the releases the catalog contains
         packs : SUBSET (Runs \X Packs)]
NoPrep == [base |-> Genesis, onto |-> Genesis, generation |-> 0, runs |-> {}, packs |-> {}]

Resting == {"idle", "waiting", "done", "failed", "refused", "conflict", "cancelled"}
Working == {"restore", "resolve", "prepare", "save", "preflight", "r2", "release",
            "github", "verify", "compare", "json", "bundle", "mirror"}

Job == [pc        : Resting \union Working,
        prep      : Prep,
        sigs      : [Items -> Runs],        \* local signature bytes, by who signed
        r2Missing : SUBSET Assets,
        ghMissing : SUBSET Assets]

\* Values of a stored asset: hashed data is "good" or damaged, a signature is
\* the run that signed it, or damaged.
Stored == Runs \union {"good", "bad", Absent}

Clean(r, pc) == [pc |-> pc, prep |-> NoPrep, sigs |-> [i \in Items |-> r],
                 r2Missing |-> {}, ghMissing |-> {}]

At(r, pc) == job[r].pc = pc
Goto(r, pc) == job' = [job EXCEPT ![r].pc = pc]
\* the job ends, and the runner's disk with it
End(r, pc) == job' = [job EXCEPT ![r] = Clean(r, pc)]

Redirect(m) == [json |-> m, bundle |-> m]
Verifies(redirect) == redirect.json = redirect.bundle /\ redirect.json # Absent

Generation(m) == IF m = Genesis THEN 1 ELSE saved[m].generation
RunsOf(m) == IF m = Genesis THEN {} ELSE saved[m].runs
PacksOf(m) == IF m = Genesis THEN {} ELSE saved[m].packs

Init ==
    /\ job = [r \in Runs |-> Clean(r, "idle")]
    /\ saved = [r \in Runs |-> NoPrep]
    /\ expired = {}
    /\ r2 = [a \in Assets |-> Absent]
    /\ github = [r \in Runs |-> [a \in Assets |-> Absent]]
    /\ releases = {}
    /\ live = Redirect(Genesis) /\ cdn = Redirect(Genesis) /\ mirror = Redirect(Genesis)
    /\ everLive = {Genesis}
    /\ budget = [fails |-> 0, reruns |-> 0, bad |-> 0, expired |-> 0]

(***************************************************************************)
(* The concurrency group central-catalog-v3: one run works, one waits.     *)
(***************************************************************************)
\* Mutant: a run keeps the group after it failed.
HoldsUntilDone(r) == job[r].pc \in Working \union {"failed"}

Holds(r) == job[r].pc \in Working

\* While a run works and another waits, a newcomer cancels the waiting one, or
\* is cancelled itself.  (A free group starts its waiting run first.)
Enqueue(r) ==
    LET waiting == {q \in Runs \ {r} : At(q, "waiting")}
    IN /\ waiting # {} => \E q \in Runs : Holds(q)
       /\ \/ job' = [q \in Runs |-> IF q = r THEN Clean(r, "waiting")
                                    ELSE IF q \in waiting THEN Clean(q, "cancelled") ELSE job[q]]
          \/ waiting # {} /\ End(r, "cancelled")

Trigger(r) ==
    /\ At(r, "idle")
    /\ Enqueue(r)
    /\ UNCHANGED <<artifacts, stores, redirects, budget>>

Rerun(r) ==
    /\ job[r].pc \in Resting \ {"idle", "waiting"}
    /\ budget.reruns < MaxReruns
    /\ Enqueue(r)
    /\ budget' = [budget EXCEPT !.reruns = @ + 1]
    /\ UNCHANGED <<artifacts, stores, redirects>>

Start(r) ==
    /\ At(r, "waiting")
    /\ \A q \in Runs : ~Holds(q)
    /\ Goto(r, "restore")
    /\ UNCHANGED <<artifacts, stores, redirects, budget>>

(***************************************************************************)
(* Preparation.                                                            *)
(***************************************************************************)
\* catalog-v3-preparation.sh restore
Restore(r) ==
    /\ At(r, "restore")
    /\ \/ /\ saved[r] = NoPrep
          /\ Goto(r, "resolve")
       \/ /\ saved[r] # NoPrep /\ r \notin expired
          /\ job' = [job EXCEPT ![r].pc = "preflight", ![r].prep = saved[r]]
       \/ /\ r \in expired
          /\ End(r, "failed")
    /\ UNCHANGED <<artifacts, stores, redirects, budget>>

Resolved(r, onto) ==
    job' = [job EXCEPT ![r].pc = "prepare", ![r].prep.base = cdn.json, ![r].prep.onto = onto]

\* resolve_catalog_v3_merge_base: cdn and mirror verify and agree, or an
\* operator names a signed master (here: one that has been served)
ResolveMergeBase(r) ==
    /\ At(r, "resolve")
    /\ \/ /\ Verifies(cdn) /\ Verifies(mirror) /\ cdn.json = mirror.json
          /\ Resolved(r, cdn.json)
       \/ /\ Repairs /\ Verifies(cdn)
          /\ \E m \in everLive : Resolved(r, m)
       \/ /\ ~(Verifies(cdn) /\ Verifies(mirror) /\ cdn.json = mirror.json)
          /\ End(r, "failed")
    /\ UNCHANGED <<artifacts, stores, redirects, budget>>

\* the packs a run prepares name the run's own generation release as mirror
PreparedPacks(r) == {r} \X PackOf[r]

\* a pack release the base catalog lists keeps its artifacts and its mirror
MergedPacks(listed, prepared) ==
    listed \union {p \in prepared : \A e \in listed : e[2] # p[2]}

\* catalog prepare-v3, and the signatures: the next generation of the base
PrepareAndSign(r) ==
    /\ At(r, "prepare")
    /\ LET onto == job[r].prep.onto
       IN job' = [job EXCEPT ![r].pc = "save",
                    ![r].prep.generation = Generation(onto) + 1,
                    ![r].prep.runs = RunsOf(onto) \union {r},
                    ![r].prep.packs = MergedPacks(PacksOf(onto), PreparedPacks(r))]
    /\ UNCHANGED <<artifacts, stores, redirects, budget>>

\* Mutant: publication goes on although the artifact upload failed.
SaveIgnored(r) ==
    /\ At(r, "save")
    /\ Goto(r, "preflight")
    /\ UNCHANGED <<artifacts, stores, redirects, budget>>

\* upload-artifact signed-catalog-preparation-<run id>
SavePreparation(r) ==
    /\ At(r, "save")
    /\ saved' = [saved EXCEPT ![r] = job[r].prep]
    /\ Goto(r, "preflight")
    /\ UNCHANGED <<expired, stores, redirects, budget>>

(***************************************************************************)
(* publish_generation: the preflight of both stores.                       *)
(***************************************************************************)
\* Mutant: the packs of the preparation are not uploaded.
StagedMasterOnly(r) == {r}

\* master first, then the packs this run stages, each with its signature
Staged(r) == {r} \union {e[2] : e \in {e \in job[r].prep.packs : e[1] = r}}
AssetsOf(r) == Staged(r) \X Kinds
Local(sigs, a) == IF a[2] = "data" THEN "good" ELSE sigs[a[1]]

\* Mutant: every asset counts as missing and is uploaded again.
MissingAlways(store, r) == AssetsOf(r)

Missing(store, r) == {a \in AssetsOf(r) : store[a] = Absent}

Signature(store, i) == store[<<i, "sig">>]

\* published beside identical data, and not settled by an earlier store
Adoptable(store, i, adopted) ==
    /\ Signature(store, i) # Absent
    /\ store[<<i, "data">>] = "good"
    /\ i \notin adopted

\* Mutant: published signatures are adopted without being verified.
AdoptsUnverified(store, i, adopted) == Adoptable(store, i, adopted)

\* Mutant: no signature is ever adopted.
AdoptsNone(store, i, adopted) == FALSE

Adopts(store, i, adopted) ==
    Adoptable(store, i, adopted) /\ Signature(store, i) # "bad"

\* preflight_store: the signatures to go on with, and what they settle
Adopting(store, r, sigs, adopted) ==
    [i \in Items |-> IF i \in Staged(r) /\ Adopts(store, i, adopted)
                       THEN Signature(store, i) ELSE sigs[i]]
AdoptedOn(store, r, adopted) ==
    adopted \union {i \in Staged(r) : Adopts(store, i, adopted)}

Conflicts(store, r, sigs) ==
    {a \in AssetsOf(r) : store[a] \notin {Absent, Local(sigs, a)}}

Preflight(r) ==
    /\ At(r, "preflight")
    /\ LET onR2  == Adopting(r2, r, job[r].sigs, {})
           onGit == Adopting(github[r], r, onR2, AdoptedOn(r2, r, {}))
       IN \/ /\ Conflicts(r2, r, onR2) \union Conflicts(github[r], r, onGit) # {}
             /\ End(r, "conflict")
          \/ /\ Conflicts(r2, r, onR2) \union Conflicts(github[r], r, onGit) = {}
             /\ job' = [job EXCEPT ![r].pc = "r2", ![r].sigs = onGit,
                          ![r].r2Missing = Missing(r2, r),
                          ![r].ghMissing = Missing(github[r], r)]
    /\ UNCHANGED <<artifacts, stores, redirects, budget>>

(***************************************************************************)
(* Phases 1 to 3: the hashed assets.  An upload may store damaged bytes.   *)
(***************************************************************************)
Before(a, b) == a[2] = "data" /\ b[2] = "sig" /\ a[1] = b[1]
\* the master and its signature go first, data before its signature
NextUp(r, missing) ==
    {a \in missing : /\ \A b \in missing : ~Before(b, a)
                     /\ a[1] \in Packs => \A b \in missing : b[1] # r}

PutAsset(r) ==
    /\ At(r, "r2")
    /\ \/ \E a \in NextUp(r, job[r].r2Missing) :
            /\ job' = [job EXCEPT ![r].r2Missing = @ \ {a}]
            /\ \/ /\ r2' = [r2 EXCEPT ![a] = Local(job[r].sigs, a)]
                  /\ UNCHANGED budget
               \/ /\ budget.bad + budget.expired < MaxMishaps
                  /\ r2' = [r2 EXCEPT ![a] = "bad"]
                  /\ budget' = [budget EXCEPT !.bad = @ + 1]
       \/ /\ job[r].r2Missing = {}
          /\ Goto(r, "release")
          /\ UNCHANGED <<r2, budget>>
    /\ UNCHANGED <<artifacts, github, releases, redirects>>

CreateRelease(r) ==
    /\ At(r, "release")
    /\ releases' = releases \union {r}
    /\ Goto(r, "github")
    /\ UNCHANGED <<artifacts, r2, github, redirects, budget>>

\* Mutant: a failed upload to the release does not fail the run, and the
\* verification of phase 3 is skipped with it.
UploadAssetsUnchecked(r) ==
    /\ At(r, "github")
    /\ \E done \in SUBSET job[r].ghMissing :
         github' = [github EXCEPT ![r] =
              [a \in Assets |-> IF a \in done THEN Local(job[r].sigs, a) ELSE @[a]]]
    /\ Goto(r, "compare")
    /\ UNCHANGED <<artifacts, r2, releases, redirects, budget>>

\* gh release upload --clobber of what is missing: all of it, or the upload
\* fails with some of it done
UploadAssets(r) ==
    /\ At(r, "github")
    /\ \E done \in SUBSET job[r].ghMissing :
         /\ github' = [github EXCEPT ![r] =
              [a \in Assets |-> IF a \in done THEN Local(job[r].sigs, a) ELSE @[a]]]
         /\ \/ /\ done = job[r].ghMissing
               /\ Goto(r, "verify")
               /\ UNCHANGED budget
            \/ /\ done # job[r].ghMissing /\ budget.fails < MaxFails
               /\ End(r, "failed")
               /\ budget' = [budget EXCEPT !.fails = @ + 1]
    /\ UNCHANGED <<artifacts, r2, releases, redirects>>

Intact(r, a) ==
    r2[a] = Local(job[r].sigs, a) /\ github[r][a] = Local(job[r].sigs, a)

\* Mutant: phase 3 is left out.
VerifyNothing(r) ==
    /\ At(r, "verify")
    /\ Goto(r, "compare")
    /\ UNCHANGED <<artifacts, stores, redirects, budget>>

VerifyPublicCopies(r) ==
    /\ At(r, "verify")
    /\ \/ /\ \A a \in AssetsOf(r) : Intact(r, a)
          /\ Goto(r, "compare")
       \/ /\ \E a \in AssetsOf(r) : ~Intact(r, a)
          /\ End(r, "failed")
    /\ UNCHANGED <<artifacts, stores, redirects, budget>>

(***************************************************************************)
(* Phases 4 and 5: the redirect.                                           *)
(***************************************************************************)
\* Mutant: no compare-and-set.
MayMoveAlways(r) == TRUE

\* Mutant: a rerun does not recognise its own redirect.
MayMoveFromBase(r) == live.json = job[r].prep.base

\* live still serves the merge base, or this run's own master (resumed)
MayMove(r) == live.json \in {job[r].prep.base, r}

\* Mutant: a refused run leaves R2 alone but still uploads its mirror.
CompareMirrorsAnyway(r) ==
    /\ At(r, "compare")
    /\ Goto(r, IF MayMove(r) /\ live # Redirect(r) THEN "json" ELSE "mirror")
    /\ UNCHANGED <<artifacts, stores, redirects, budget>>

CompareRedirect(r) ==
    /\ At(r, "compare")
    /\ \/ /\ ~MayMove(r)
          /\ End(r, "refused")
       \/ /\ MayMove(r)
          /\ Goto(r, IF live = Redirect(r) THEN "mirror" ELSE "json")
    /\ UNCHANGED <<artifacts, stores, redirects, budget>>

PutRedirectJson(r) ==
    /\ At(r, "json")
    /\ live' = [live EXCEPT !.json = r]
    /\ everLive' = everLive \union {r}
    /\ Goto(r, "bundle")
    /\ UNCHANGED <<artifacts, stores, cdn, mirror, budget>>

PutRedirectBundle(r) ==
    /\ At(r, "bundle")
    /\ live' = [live EXCEPT !.bundle = r]
    /\ Goto(r, "mirror")
    /\ UNCHANGED <<artifacts, stores, cdn, mirror, everLive, budget>>

\* gh release upload --clobber of the redirect: each file is deleted, then
\* uploaded; a failed upload leaves each one old, deleted or new
UploadMirror(r) ==
    /\ At(r, "mirror")
    /\ \/ /\ mirror' = Redirect(r)
          /\ End(r, "done")
          /\ UNCHANGED budget
       \/ /\ budget.fails < MaxFails
          /\ \E j \in {mirror.json, Absent, r}, b \in {mirror.bundle, Absent, r} :
               mirror' = [json |-> j, bundle |-> b]
          /\ End(r, "failed")
          /\ budget' = [budget EXCEPT !.fails = @ + 1]
    /\ UNCHANGED <<artifacts, stores, live, cdn, everLive>>

(***************************************************************************)
(* The environment.                                                        *)
(***************************************************************************)
\* a step fails, the runner dies, or the job times out
Fail(r) ==
    /\ Holds(r)
    /\ budget.fails < MaxFails
    /\ End(r, "failed")
    /\ budget' = [budget EXCEPT !.fails = @ + 1]
    /\ UNCHANGED <<artifacts, stores, redirects>>

\* artifact retention
Expire(r) ==
    /\ saved[r] # NoPrep /\ r \notin expired
    /\ budget.bad + budget.expired < MaxMishaps
    /\ expired' = expired \union {r}
    /\ budget' = [budget EXCEPT !.expired = @ + 1]
    /\ UNCHANGED <<job, saved, stores, redirects>>

\* the CDN fetches one of the two redirect objects anew
RefreshCdn ==
    /\ \/ cdn' = [cdn EXCEPT !.json = live.json]
       \/ cdn' = [cdn EXCEPT !.bundle = live.bundle]
    /\ UNCHANGED <<job, artifacts, stores, live, mirror, everLive, budget>>

Step(r) ==
    \/ Restore(r) \/ ResolveMergeBase(r) \/ PrepareAndSign(r) \/ SavePreparation(r)
    \/ Preflight(r) \/ PutAsset(r) \/ CreateRelease(r) \/ UploadAssets(r)
    \/ VerifyPublicCopies(r) \/ CompareRedirect(r)
    \/ PutRedirectJson(r) \/ PutRedirectBundle(r) \/ UploadMirror(r)

Next ==
    \/ RefreshCdn
    \/ \E r \in Runs :
         Trigger(r) \/ Rerun(r) \/ Start(r) \/ Step(r) \/ Fail(r) \/ Expire(r)

Spec == Init /\ [][Next]_vars

-----------------------------------------------------------------------------
TypeOK ==
    /\ job \in [Runs -> Job]
    /\ saved \in [Runs -> Prep]
    /\ expired \subseteq Runs
    /\ r2 \in [Assets -> Stored]
    /\ github \in [Runs -> [Assets -> Stored]]
    /\ releases \subseteq Runs
    /\ {live.json, live.bundle, cdn.json, cdn.bundle} \subseteq Masters
    /\ {mirror.json, mirror.bundle} \subseteq Masters \union {Absent}
    /\ everLive \subseteq Masters

(***************************************************************************)
(* The redirect moves last: whatever master a client can be sent to -- by  *)
(* R2, a CDN copy of any age, or the mirror -- the master and every rule   *)
(* pack its catalog lists are intact, with their signatures, on R2 and on  *)
(* the generation release their mirror URLs name.                          *)
(***************************************************************************)
Available(home, i) ==
    \A k \in Kinds :
        /\ r2[<<i, k>>] \notin {Absent, "bad"}
        /\ github[home][<<i, k>>] = r2[<<i, k>>]
ServedComplete ==
    \A m \in ({live.json, cdn.json, mirror.json} \ {Genesis, Absent}) :
        Available(m, m) /\ \A e \in PacksOf(m) : Available(e[1], e[2])

(***************************************************************************)
(* Publishing behaves as one atomic pointer (CatalogPointer): each master  *)
(* that goes live was merged onto the one live until then, so no publish   *)
(* is lost, although the merge base is read from a cache that may be       *)
(* stale, long before the redirect moves in two separate writes.  Only a   *)
(* run that was told to prepare onto another master than the served one    *)
(* leaves anything out.                                                    *)
(***************************************************************************)
IsRepair(m) == m # Genesis /\ saved[m].onto # saved[m].base
Pointer == INSTANCE CatalogPointer
             WITH served <- live.json,
                  catalog <- [m \in everLive |-> [generation |-> Generation(m),
                                                  runs |-> RunsOf(m),
                                                  repair |-> IsRepair(m)]]
ImplementsPointer == Pointer!Spec

(***************************************************************************)
(* "An absent artifact means no earlier attempt of this run uploaded a     *)
(* byte" (catalog-v3-preparation.sh): a run without a saved preparation    *)
(* has left nothing on R2, on its release, or in a redirect.               *)
(***************************************************************************)
Untouched(r) ==
    /\ r \notin releases
    /\ \A a \in Assets : github[r][a] = Absent /\ r2[a] # r
    /\ \A k \in Kinds : r2[<<r, k>>] = Absent
    /\ r \notin {live.json, live.bundle, mirror.json, mirror.bundle}
AbsentMeansUntouched == \A r \in Runs : saved[r] = NoPrep => Untouched(r)

(***************************************************************************)
(* Signing is not deterministic and two runs may stage the same pack, yet  *)
(* no run is ever refused over assets unless an upload was damaged: reruns *)
(* republish the saved bytes, and signatures that verify are adopted.      *)
(***************************************************************************)
NoSelfConflict == budget.bad = 0 => \A r \in Runs : ~At(r, "conflict")

(***************************************************************************)
(* "A rerun after phase 5 failed finds its own redirect live": the run     *)
(* whose master is live is never refused, so a half-moved redirect can be  *)
(* finished by running it again.                                           *)
(***************************************************************************)
OwnRerunAccepted == \A r \in Runs : At(r, "refused") => live.json # r

(***************************************************************************)
(* Hashed assets are immutable: what a store holds under a name is never   *)
(* replaced, neither by a rerun nor by another run that stages the same    *)
(* pack with a signature of its own.                                       *)
(***************************************************************************)
HashedImmutable ==
    [][\A a \in Assets :
         /\ r2[a] # Absent => r2'[a] = r2[a]
         /\ \A r \in Runs : github[r][a] # Absent => github'[r][a] = github[r][a]]_vars

(***************************************************************************)
(* The mirror follows R2: a file of its redirect is only ever replaced by  *)
(* the one R2 serves, so an old run that is started again never takes the  *)
(* mirror back.                                                            *)
(***************************************************************************)
MirrorFollows ==
    [][/\ mirror'.json \in {mirror.json, Absent, live.json}
       /\ mirror'.bundle \in {mirror.bundle, Absent, live.bundle}]_vars

(***************************************************************************)
(* The concurrency group is never held for good: while a run waits, it can *)
(* start or the run that holds the group has a next step, whatever that    *)
(* run finds in the stores, behind the cdn, on the mirror or of its saved  *)
(* preparation, and whatever failed before.                                *)
(***************************************************************************)
GroupMoves ==
    (\E r \in Runs : At(r, "waiting")) => ENABLED (\E r \in Runs : Start(r) \/ Step(r))

(***************************************************************************)
(* "A cancelled run published nothing and saved no preparation" (the       *)
(* workflow's comment on the concurrency group).  A rerun is queued like   *)
(* any other run, after its first attempt saved one.                       *)
(***************************************************************************)
CancelledIsFresh ==
    \A r \in Runs : At(r, "cancelled") => saved[r] = NoPrep /\ Untouched(r)
=============================================================================
