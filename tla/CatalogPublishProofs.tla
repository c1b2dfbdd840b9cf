----------------------- MODULE CatalogPublishProofs ------------------------
(***************************************************************************)
(* Publishing the central catalog, for any runs, rule packs, failures and  *)
(* reruns: what is served is complete, hashed assets are immutable, no run *)
(* is refused over its own work, and the redirect behaves as the one       *)
(* atomic pointer of CatalogPointer.                                       *)
(***************************************************************************)
EXTENDS CatalogPublish, TLAPS

\* A run whose preparation is saved; one whose signatures are its own; one whose
\* assets have been verified; the masters that a run has published.
Prepared == {"preflight", "r2", "release", "github", "verify", "compare", "json",
             "bundle", "mirror"}
Fresh == {"waiting", "restore", "resolve", "prepare", "save", "preflight"}
Uploaded == {"compare", "json", "bundle", "mirror"}
Served == everLive \ {Genesis}

\* Data is never a signature, and a signature names who signed it.
StoreTyped(store) ==
    \A i \in Items : store[<<i, "sig">>] # "good" /\ store[<<i, "data">>] \notin Runs

Budget == [fails : Nat, reruns : Nat, bad : Nat, expired : Nat]

TypeInv ==
    /\ TypeOK /\ {live, cdn} \subseteq [json : Masters, bundle : Masters]
    /\ StoreTyped(r2) /\ \A r \in Runs : StoreTyped(github[r])
    /\ budget \in Budget

\* The concurrency group: one run works at a time.
Exclusive == \A q, r \in Runs : Holds(q) /\ Holds(r) => q = r

\* What prepare-v3 makes of a merge base that has been served.
Merged(r, p) ==
    /\ p.base \in everLive /\ p.onto \in everLive
    /\ p.generation = Generation(p.onto) + 1
    /\ p.runs = RunsOf(p.onto) \union {r}
    /\ p.packs = MergedPacks(PacksOf(p.onto), PreparedPacks(r))
Preparations == \A r \in Runs : saved[r] # NoPrep => Merged(r, saved[r])

Complete(m) == Available(m, m) /\ \A e \in PacksOf(m) : Available(e[1], e[2])

\* Whatever a client can be sent to has been live, is saved and complete, and
\* was not merged onto the master that is live now: the pointer never returns.
Redirects ==
    /\ {Genesis, live.json, live.bundle, cdn.json, cdn.bundle} \subseteq everLive
    /\ {mirror.json, mirror.bundle} \subseteq everLive \union {Absent}
    /\ \A m \in Served : saved[m] # NoPrep /\ saved[m].base # live.json /\ Complete(m)

\* A run that has saved nothing has left nothing, not even a signature that
\* another run could adopt.
Unsaved ==
    \A r \in Runs : saved[r] = NoPrep =>
        Untouched(r) /\ \A q \in Runs, a \in Assets : github[q][a] # r

\* Data goes up before its signature; without damage a release holds the
\* signatures that R2 holds.
Agree ==
    /\ \A i \in Items : r2[<<i, "sig">>] # Absent => r2[<<i, "data">>] # Absent
    /\ budget.bad = 0 =>
         \A r \in Runs : \A a \in Assets :
            /\ r2[a] # "bad" /\ github[r][a] # "bad"
            /\ a[2] = "sig" /\ github[r][a] # Absent => r2[a] = github[r][a]

\* What a run relies on at each of its steps: its preparation, its uploads, the
\* redirect it is about to move.
PreparationFits(r) ==
    /\ job[r].pc \in Fresh => job[r].sigs = [i \in Items |-> r]
    /\ job[r].pc \in {"resolve", "prepare", "save"} => saved[r] = NoPrep
    /\ At(r, "prepare") => job[r].prep.base \in everLive /\ job[r].prep.onto \in everLive
    /\ At(r, "save") => Merged(r, job[r].prep)
    /\ job[r].pc \in Prepared =>
         /\ saved[r] # NoPrep /\ job[r].prep = saved[r]
         /\ \A i \in Items : saved[job[r].sigs[i]] # NoPrep

UploadFits(r) ==
    /\ At(r, "r2") => job[r].r2Missing = Missing(r2, r)
    /\ job[r].pc \in {"r2", "release", "github"} => job[r].ghMissing \subseteq Missing(github[r], r)
    /\ job[r].pc \in {"release", "github"} => Missing(r2, r) = {}
    /\ job[r].pc \in {"r2", "release", "github"} /\ budget.bad = 0 =>
         \A a \in AssetsOf(r) : r2[a] \in {Absent, Local(job[r].sigs, a)}
    /\ job[r].pc \in Uploaded => Complete(r)

RedirectFits(r) ==
    /\ At(r, "json") => MayMove(r)
    /\ At(r, "bundle") => live.json = r
    /\ At(r, "mirror") => live = Redirect(r)

JobFits(r) == PreparationFits(r) /\ UploadFits(r) /\ RedirectFits(r)

IInv ==
    /\ TypeInv /\ Exclusive
    /\ Preparations /\ Redirects /\ Unsaved /\ Agree
    /\ NoSelfConflict /\ OwnRerunAccepted
    /\ \A r \in Runs : JobFits(r)
-----------------------------------------------------------------------------
(***************************************************************************)
(* The types of what the code builds.                                      *)
(***************************************************************************)
LEMMA NoPrepType == NoPrep \in Prep
BY DEF NoPrep, Prep, Masters

LEMMA CleanType ==
    ASSUME NEW r \in Runs, NEW pc \in Resting \union Working
    PROVE  /\ Clean(r, pc) \in Job /\ Clean(r, pc).pc = pc
           /\ Clean(r, pc).sigs = [i \in Items |-> r]
BY NoPrepType DEF Clean, Job, Assets, Items

\* A run that rests relies on nothing.
LEMMA RestingFits ==
    ASSUME NEW r \in Runs, NEW pc \in Resting, job'[r] = Clean(r, pc)
    PROVE  JobFits(r)'
<1>1. job'[r].pc = pc /\ job'[r].sigs = [i \in Items |-> r]
  BY DEF Clean
<1>2. job'[r].pc \notin Working
  BY <1>1 DEF Resting, Working
<1>3. PreparationFits(r)'
  BY <1>1, <1>2 DEF PreparationFits, At, Prepared, Working
<1>4. UploadFits(r)'
  BY <1>2 DEF UploadFits, At, Uploaded, Working
<1>5. RedirectFits(r)'
  BY <1>2 DEF RedirectFits, At, Working
<1> QED BY <1>3, <1>4, <1>5 DEF JobFits

\* While a run works the others rest, and whatever it does leaves them so.
LEMMA Bystander ==
    ASSUME IInv, NEW r \in Runs, Holds(r), NEW q \in Runs, q # r, job'[q] = job[q]
    PROVE  JobFits(q)'
<1>1. job[q].pc \notin Working
  BY DEF IInv, Exclusive, Holds
<1>2. job[q].pc \in Fresh => job[q].sigs = [i \in Items |-> q]
  BY DEF IInv, JobFits, PreparationFits
<1>3. job'[q].pc \notin Working
  BY <1>1
<1>4. PreparationFits(q)'
  BY <1>2, <1>3 DEF PreparationFits, At, Prepared, Working
<1>5. UploadFits(q)'
  BY <1>3 DEF UploadFits, At, Uploaded, Working
<1>6. RedirectFits(q)'
  BY <1>3 DEF RedirectFits, At, Working
<1> QED BY <1>4, <1>5, <1>6 DEF JobFits

\* Nothing that a job relies on changes while its job, the stores and the
\* redirects stay.
LEMMA Undisturbed ==
    ASSUME NEW r \in Runs, JobFits(r), job'[r] = job[r], budget'.bad = budget.bad,
           UNCHANGED <<saved, stores, live, everLive>>
    PROVE  JobFits(r)'
<1> USE DEF stores
<1>1. PreparationFits(r)'
  BY DEF JobFits, PreparationFits, At, Merged, Generation, RunsOf, PacksOf
<1>2. UploadFits(r)'
  BY DEF JobFits, UploadFits, At, Missing, AssetsOf, Staged, Local, Complete, Available, PacksOf
<1>3. RedirectFits(r)'
  BY DEF JobFits, RedirectFits, At, MayMove
<1> QED BY <1>1, <1>2, <1>3 DEF JobFits

\* A step of the jobs alone.
LEMMA JobStep ==
    ASSUME IInv, job' \in [Runs -> Job], budget' \in Budget, budget'.bad = budget.bad,
           UNCHANGED <<artifacts, stores, redirects>>,
           Exclusive',
           \A q \in Runs : \/ job'[q] = job[q]
                           \/ /\ JobFits(q)'
                              /\ At(q, "conflict")' => budget.bad # 0
                              /\ At(q, "refused")' => live.json # q
    PROVE  IInv'
<1> USE DEF artifacts, stores, redirects
<1>1. TypeInv'
  BY DEF IInv, TypeInv, TypeOK, StoreTyped
<1>2. Preparations'
  BY DEF IInv, Preparations, Merged, Generation, RunsOf, PacksOf
<1>3. Redirects'
  BY DEF IInv, Redirects, Served, Complete, Available, PacksOf
<1>4. Unsaved' /\ Agree'
  BY DEF IInv, Unsaved, Untouched, Agree
<1>5. NoSelfConflict' /\ OwnRerunAccepted'
  BY DEF IInv, NoSelfConflict, OwnRerunAccepted, At
<1>6. \A q \in Runs : JobFits(q)'
  BY Undisturbed DEF IInv
<1> QED BY <1>1, <1>2, <1>3, <1>4, <1>5, <1>6 DEF IInv

\* A step of one job alone, that does not take the group.
LEMMA OneJobStep ==
    ASSUME IInv, NEW r \in Runs, NEW k \in Job, job' = [job EXCEPT ![r] = k],
           UNCHANGED <<artifacts, stores, redirects>>,
           budget' \in Budget, budget'.bad = budget.bad,
           Holds(r) \/ k.pc \notin Working, JobFits(r)',
           k.pc = "conflict" => budget.bad # 0,
           k.pc = "refused" => live.json # r
    PROVE  IInv'
<1>1. job \in [Runs -> Job]
  BY DEF IInv, TypeInv, TypeOK
<1>2. job' \in [Runs -> Job] /\ job'[r] = k /\ \A q \in Runs \ {r} : job'[q] = job[q]
  BY <1>1
<1>3. Exclusive'
  <2>1. \A q \in Runs : Holds(q)' => Holds(q)
    BY <1>2 DEF Holds
  <2> QED BY <2>1 DEF IInv, Exclusive
<1>4. At(r, "conflict")' => budget.bad # 0
  BY <1>2 DEF At
<1>5. At(r, "refused")' => live.json # r
  BY <1>2 DEF At
<1> QED BY <1>2, <1>3, <1>4, <1>5, JobStep

\* A job ends, and with it what it relied on.
LEMMA EndInv ==
    ASSUME IInv, NEW r \in Runs, NEW pc \in Resting, End(r, pc),
           UNCHANGED <<artifacts, stores, redirects>>,
           budget' \in Budget, budget'.bad = budget.bad,
           pc = "conflict" => budget.bad # 0, pc = "refused" => live.json # r
    PROVE  IInv'
<1>1. Clean(r, pc) \in Job /\ Clean(r, pc).pc = pc
  BY CleanType
<1>2. job' = [job EXCEPT ![r] = Clean(r, pc)] /\ job'[r] = Clean(r, pc)
  BY DEF End, IInv, TypeInv, TypeOK
<1>3. JobFits(r)'
  BY <1>2, RestingFits
<1>4. pc \notin Working
  BY DEF Resting, Working
<1> QED BY <1>1, <1>2, <1>3, <1>4, OneJobStep

LEMMA EnqueueInv ==
    ASSUME IInv, NEW r \in Runs, Enqueue(r), UNCHANGED <<artifacts, stores, redirects>>,
           budget' \in Budget, budget'.bad = budget.bad
    PROVE  IInv'
<1> DEFINE waiting == {q \in Runs \ {r} : At(q, "waiting")}
<1>1. CASE End(r, "cancelled")
  BY <1>1, EndInv DEF Resting
<1>2. CASE job' = [q \in Runs |-> IF q = r THEN Clean(r, "waiting")
                                  ELSE IF q \in waiting THEN Clean(q, "cancelled") ELSE job[q]]
  <2>1. \A q \in Runs : job'[q] \in {job[q], Clean(q, "waiting"), Clean(q, "cancelled")}
    BY <1>2
  <2>2. \A q \in Runs : /\ Clean(q, "waiting") \in Job /\ Clean(q, "waiting").pc = "waiting"
                        /\ Clean(q, "cancelled") \in Job
                        /\ Clean(q, "cancelled").pc = "cancelled"
    BY CleanType DEF Resting
  <2>3. job \in [Runs -> Job]
    BY DEF IInv, TypeInv, TypeOK
  <2>4. job' \in [Runs -> Job]
    BY <1>2, <2>2, <2>3
  <2>5. Exclusive'
    <3>1. \A q \in Runs : Holds(q)' => Holds(q)
      BY <2>1, <2>2 DEF Holds, Working
    <3> QED BY <3>1 DEF IInv, Exclusive
  <2>6. \A q \in Runs : \/ job'[q] = job[q]
                        \/ /\ JobFits(q)'
                           /\ At(q, "conflict")' => budget.bad # 0
                           /\ At(q, "refused")' => live.json # q
    <3> TAKE q \in Runs
    <3>1. job'[q] # job[q] => job'[q].pc \in {"waiting", "cancelled"} /\ JobFits(q)'
      BY <2>1, <2>2, RestingFits DEF Resting
    <3> QED BY <3>1 DEF At
  <2> QED BY <2>4, <2>5, <2>6, JobStep
<1> QED BY <1>1, <1>2 DEF Enqueue

LEMMA TriggerInv == ASSUME IInv, NEW r \in Runs, Trigger(r) PROVE IInv'
BY EnqueueInv DEF Trigger, IInv, TypeInv

LEMMA RerunInv == ASSUME IInv, NEW r \in Runs, Rerun(r) PROVE IInv'
<1>1. budget \in Budget
  BY DEF IInv, TypeInv
<1>2. budget' \in Budget /\ budget'.bad = budget.bad
  BY <1>1 DEF Rerun, Budget
<1> QED BY <1>2, EnqueueInv DEF Rerun

LEMMA FailInv == ASSUME IInv, NEW r \in Runs, Fail(r) PROVE IInv'
<1>1. budget \in Budget
  BY DEF IInv, TypeInv
<1>2. budget' \in Budget /\ budget'.bad = budget.bad
  BY <1>1 DEF Fail, Budget
<1> QED BY <1>2, EndInv DEF Fail, Resting

\* The job moves on to another step, with what it knows.
LEMMA MovedType ==
    ASSUME IInv, NEW r \in Runs, NEW pc \in Resting \union Working, Goto(r, pc)
    PROVE  /\ [job[r] EXCEPT !.pc = pc] \in Job
           /\ job' = [job EXCEPT ![r] = [job[r] EXCEPT !.pc = pc]]
           /\ job'[r].pc = pc /\ job'[r].prep = job[r].prep /\ job'[r].sigs = job[r].sigs
           /\ job'[r].r2Missing = job[r].r2Missing /\ job'[r].ghMissing = job[r].ghMissing
           /\ \A q \in Runs \ {r} : job'[q] = job[q]
BY DEF IInv, TypeInv, TypeOK, Job, Goto

LEMMA StartInv == ASSUME IInv, NEW r \in Runs, Start(r) PROVE IInv'
<1>1. /\ At(r, "waiting") /\ \A q \in Runs : ~Holds(q)
      /\ Goto(r, "restore") /\ UNCHANGED <<artifacts, stores, redirects, budget>>
  BY DEF Start
<1>2. "restore" \in Resting \union Working
  BY DEF Working
<1>3. /\ job' = [job EXCEPT ![r] = [job[r] EXCEPT !.pc = "restore"]]
      /\ [job[r] EXCEPT !.pc = "restore"] \in Job
      /\ job'[r].pc = "restore" /\ job'[r].sigs = job[r].sigs
      /\ \A q \in Runs \ {r} : job'[q] = job[q]
  BY <1>1, <1>2, MovedType
<1>4. job' \in [Runs -> Job]
  BY <1>3 DEF IInv, TypeInv, TypeOK
<1>5. JobFits(r)'
  <2>1. job[r].sigs = [i \in Items |-> r]
    BY <1>1 DEF IInv, JobFits, PreparationFits, At, Fresh
  <2> QED BY <1>3, <2>1
          DEF JobFits, PreparationFits, UploadFits, RedirectFits, At, Prepared, Uploaded
<1>6. Exclusive'
  BY <1>1, <1>3 DEF Exclusive, Holds
<1>7. ~At(r, "conflict")' /\ ~At(r, "refused")' /\ budget \in Budget
  BY <1>3 DEF At, IInv, TypeInv
<1> QED BY <1>1, <1>3, <1>4, <1>5, <1>6, <1>7, JobStep

\* The job that works moves on, with what it knows, and nothing else changes.
LEMMA MoveInv ==
    ASSUME IInv, NEW r \in Runs, Holds(r), NEW pc \in Working, Goto(r, pc),
           UNCHANGED <<artifacts, stores, redirects, budget>>, JobFits(r)'
    PROVE  IInv'
<1>1. /\ [job[r] EXCEPT !.pc = pc] \in Job /\ [job[r] EXCEPT !.pc = pc].pc = pc
      /\ job' = [job EXCEPT ![r] = [job[r] EXCEPT !.pc = pc]]
  BY MovedType DEF IInv, TypeInv, TypeOK, Job
<1>2. pc # "conflict" /\ pc # "refused"
  BY DEF Working
<1>3. budget \in Budget
  BY DEF IInv, TypeInv
<1> HIDE DEF IInv
<1> QED BY <1>1, <1>2, <1>3, OneJobStep

-----------------------------------------------------------------------------
(***************************************************************************)
(* The preparation.                                                        *)
(***************************************************************************)
LEMMA RestoreInv == ASSUME IInv, NEW r \in Runs, Restore(r) PROVE IInv'
<1>0. /\ At(r, "restore") /\ Holds(r) /\ UNCHANGED <<artifacts, stores, redirects, budget>>
      /\ job[r].sigs = [i \in Items |-> r] /\ job \in [Runs -> Job] /\ budget \in Budget
  BY DEF Restore, At, Holds, Working, IInv, JobFits, PreparationFits, Fresh, TypeInv, TypeOK
<1>1. CASE saved[r] = NoPrep /\ Goto(r, "resolve")
  <2>1. "resolve" \in Working
    BY DEF Working
  <2>2. job'[r].pc = "resolve" /\ job'[r].sigs = job[r].sigs
    BY <1>1, <2>1, MovedType
  <2>3. saved'[r] = NoPrep
    BY <1>0, <1>1 DEF artifacts
  <2>4. JobFits(r)'
    BY <1>0, <2>2, <2>3
       DEF JobFits, PreparationFits, UploadFits, RedirectFits, At, Prepared, Uploaded
  <2> QED BY <1>0, <1>1, <2>1, <2>4, MoveInv
<1>2. CASE /\ saved[r] # NoPrep
           /\ job' = [job EXCEPT ![r].pc = "preflight", ![r].prep = saved[r]]
  <2> DEFINE k == [job[r] EXCEPT !.pc = "preflight", !.prep = saved[r]]
  <2>1. /\ k \in Job /\ k.pc = "preflight" /\ k.prep = saved[r] /\ k.sigs = job[r].sigs
        /\ job' = [job EXCEPT ![r] = k] /\ job'[r] = k
    <3>1. job[r] \in Job /\ saved[r] \in Prep /\ "preflight" \in Working
      BY <1>0 DEF IInv, TypeInv, TypeOK, Working
    <3>2. job' = [job EXCEPT ![r] = k]
      BY <1>2
    <3> QED BY <1>0, <3>1, <3>2 DEF Job
  <2> HIDE DEF k
  <2>2. JobFits(r)'
    <3>1. saved' = saved
      BY <1>0 DEF artifacts
    <3>2. \A i \in Items : job'[r].sigs[i] = r
      BY <1>0, <2>1
    <3> QED BY <1>0, <1>2, <2>1, <3>1, <3>2
            DEF JobFits, PreparationFits, UploadFits, RedirectFits, At, Prepared, Uploaded
  <2> QED BY <1>0, <2>1, <2>2, OneJobStep
<1>3. CASE End(r, "failed")
  BY <1>0, <1>3, EndInv DEF Resting
<1> QED BY <1>1, <1>2, <1>3 DEF Restore

LEMMA ResolveInv == ASSUME IInv, NEW r \in Runs, ResolveMergeBase(r) PROVE IInv'
<1>0. /\ At(r, "resolve") /\ Holds(r) /\ UNCHANGED <<artifacts, stores, redirects, budget>>
      /\ job[r].sigs = [i \in Items |-> r] /\ saved[r] = NoPrep
      /\ job \in [Runs -> Job] /\ budget \in Budget
  BY DEF ResolveMergeBase, At, Holds, Working, IInv, JobFits, PreparationFits, Fresh,
         TypeInv, TypeOK
<1>1. ASSUME NEW onto \in everLive, Resolved(r, onto) PROVE IInv'
  <2> DEFINE p == [job[r].prep EXCEPT !.base = cdn.json, !.onto = onto]
             k == [job[r] EXCEPT !.pc = "prepare", !.prep = p]
  <2>1. cdn.json \in everLive /\ everLive \subseteq Masters
    BY DEF IInv, Redirects, TypeInv, TypeOK
  <2>2. p \in Prep /\ p.base = cdn.json /\ p.onto = onto
    <3>1. job[r].prep \in Prep /\ cdn.json \in Masters /\ onto \in Masters
      BY <1>0, <2>1 DEF Job
    <3> QED BY <3>1 DEF Prep
  <2>3. job' = [job EXCEPT ![r] = k]
    BY <1>1 DEF Resolved
  <2> HIDE DEF p
  <2>4. k \in Job /\ k.pc = "prepare" /\ k.prep = p /\ k.sigs = job[r].sigs
    <3>1. "prepare" \in Working
      BY DEF Working
    <3> QED BY <1>0, <2>2, <3>1 DEF Job
  <2> HIDE DEF k
  <2>5. job'[r] = k /\ saved' = saved /\ everLive' = everLive
    BY <1>0, <2>3 DEF artifacts, redirects
  <2>6. JobFits(r)'
    BY <1>0, <2>1, <2>2, <2>4, <2>5
       DEF JobFits, PreparationFits, UploadFits, RedirectFits, At, Prepared, Uploaded
  <2> QED BY <1>0, <2>3, <2>4, <2>6, OneJobStep
<1>2. CASE End(r, "failed")
  BY <1>0, <1>2, EndInv DEF Resting
<1>3. cdn.json \in everLive
  BY DEF IInv, Redirects
<1> QED BY <1>1, <1>2, <1>3 DEF ResolveMergeBase

LEMMA MasterType ==
    ASSUME IInv, NEW m \in Masters
    PROVE  /\ Generation(m) \in Nat /\ RunsOf(m) \subseteq Runs
           /\ PacksOf(m) \subseteq Runs \X Packs
BY DEF IInv, TypeInv, TypeOK, Generation, RunsOf, PacksOf, Prep, Masters

LEMMA MergedPacksType ==
    ASSUME NEW r \in Runs, NEW listed \in SUBSET (Runs \X Packs)
    PROVE  MergedPacks(listed, PreparedPacks(r)) \subseteq Runs \X Packs
BY PackOfAssumption DEF MergedPacks, PreparedPacks

LEMMA PrepareInv == ASSUME IInv, NEW r \in Runs, PrepareAndSign(r) PROVE IInv'
<1>0. /\ At(r, "prepare") /\ Holds(r) /\ UNCHANGED <<artifacts, stores, redirects, budget>>
      /\ job[r].sigs = [i \in Items |-> r] /\ saved[r] = NoPrep
      /\ job[r].prep.base \in everLive /\ job[r].prep.onto \in everLive
      /\ job \in [Runs -> Job] /\ budget \in Budget /\ everLive \subseteq Masters
  BY DEF PrepareAndSign, At, Holds, Working, IInv, JobFits, PreparationFits, Fresh,
         TypeInv, TypeOK
<1> DEFINE onto == job[r].prep.onto
           g == Generation(onto) + 1
           s == RunsOf(onto) \union {r}
           l == MergedPacks(PacksOf(onto), PreparedPacks(r))
           p == [job[r].prep EXCEPT !.generation = g, !.runs = s, !.packs = l]
           k == [job[r] EXCEPT !.pc = "save", !.prep = p]
<1>1. g \in Nat /\ s \subseteq Runs /\ l \subseteq Runs \X Packs
  <2>1. /\ Generation(onto) \in Nat /\ RunsOf(onto) \subseteq Runs
        /\ PacksOf(onto) \in SUBSET (Runs \X Packs)
    BY <1>0, MasterType
  <2> QED BY <2>1, MergedPacksType
<1>2. job' = [job EXCEPT ![r] = k]
  BY DEF PrepareAndSign
<1>3. p \in Prep /\ Merged(r, p)
  <2> HIDE DEF g, s, l
  <2>1. /\ p \in Prep /\ p.base = job[r].prep.base /\ p.onto = onto
        /\ p.generation = g /\ p.runs = s /\ p.packs = l
    <3>1. job[r].prep \in Prep
      BY <1>0 DEF Job
    <3> QED BY <1>1, <3>1 DEF Prep
  <2> HIDE DEF p
  <2> QED BY <1>0, <2>1 DEF Merged, g, s, l
<1> HIDE DEF p
<1>4. k \in Job /\ k.pc = "save" /\ k.prep = p /\ k.sigs = job[r].sigs
  <2>1. "save" \in Working
    BY DEF Working
  <2> QED BY <1>0, <1>3, <2>1 DEF Job
<1> HIDE DEF k, g, s, l
<1>5. JobFits(r)'
  <2>1. job'[r] = k
    BY <1>0, <1>2
  <2>2. Merged(r, job[r].prep)'
    <3>1. saved' = saved /\ everLive' = everLive
      BY <1>0 DEF artifacts, redirects
    <3> QED BY <1>3, <1>4, <2>1, <3>1 DEF Merged, Generation, RunsOf, PacksOf
  <2>3. saved'[r] = NoPrep
    BY <1>0 DEF artifacts
  <2> QED BY <1>0, <1>4, <2>1, <2>2, <2>3
          DEF JobFits, PreparationFits, UploadFits, RedirectFits, At, Prepared, Uploaded
<1> QED BY <1>0, <1>2, <1>4, <1>5, OneJobStep

-----------------------------------------------------------------------------
(***************************************************************************)
(* The preflight: signatures that are adopted.                             *)
(***************************************************************************)
LEMMA StagedType ==
    ASSUME IInv, NEW r \in Runs
    PROVE  /\ Staged(r) \subseteq Items /\ r \in Staged(r)
           /\ AssetsOf(r) \subseteq Assets
<1>1. job[r].prep.packs \subseteq Runs \X Packs
  BY DEF IInv, TypeInv, TypeOK, Job, Prep
<1>2. Staged(r) \subseteq Items /\ r \in Staged(r)
  BY <1>1 DEF Staged, Items
<1> QED BY <1>2 DEF AssetsOf, Assets

\* A signature that is adopted is one that some run left in that store.
LEMMA AdoptingType ==
    ASSUME NEW store \in [Assets -> Stored], StoreTyped(store), NEW r \in Runs,
           NEW sigs \in [Items -> Runs], NEW adopted
    PROVE  /\ Adopting(store, r, sigs, adopted) \in [Items -> Runs]
           /\ \A i \in Items :
                \/ Adopting(store, r, sigs, adopted)[i] = sigs[i]
                \/ Adopting(store, r, sigs, adopted)[i] = store[<<i, "sig">>]
<1>1. ASSUME NEW i \in Items, Adopts(store, i, adopted)
      PROVE  Signature(store, i) \in Runs
  <2>1. <<i, "sig">> \in Assets
    BY DEF Assets, Kinds
  <2>2. store[<<i, "sig">>] \in Stored \ {"good", "bad", Absent}
    BY <1>1, <2>1 DEF StoreTyped, Adopts, Adoptable, Signature
  <2> QED BY <2>2 DEF Stored, Signature
<1> QED BY <1>1 DEF Adopting, Signature

\* A run that somebody's asset is signed by has saved its preparation.
LEMMA SignerSaved ==
    ASSUME IInv, NEW v \in Runs, NEW q \in Runs, NEW a \in Assets, r2[a] = v \/ github[q][a] = v
    PROVE  saved[v] # NoPrep
BY DEF IInv, Unsaved, Untouched

\* Without damage R2 has the data of what it has the signature of, so every
\* signature on R2 is adopted, and one on the release is the same.
LEMMA AdoptsAll ==
    ASSUME IInv, NEW r \in Runs, budget.bad = 0, NEW i \in Staged(r),
           Signature(r2, i) # Absent
    PROVE  /\ Adopts(r2, i, {})
           /\ i \in AdoptedOn(r2, r, {})
<1>1. i \in Items /\ <<i, "sig">> \in Assets /\ <<i, "data">> \in Assets
  BY StagedType DEF Assets, Kinds
<1>2. /\ r2[<<i, "data">>] \in Stored \ {Absent, "bad"} /\ r2[<<i, "data">>] \notin Runs
      /\ Signature(r2, i) # "bad"
  BY <1>1 DEF IInv, TypeInv, TypeOK, StoreTyped, Agree, Signature
<1>3. r2[<<i, "data">>] = "good"
  BY <1>2 DEF Stored
<1>4. Adopts(r2, i, {})
  BY <1>2, <1>3 DEF Adopts, Adoptable
<1> QED BY <1>4 DEF AdoptedOn

LEMMA NoConflict ==
    ASSUME IInv, NEW r \in Runs, budget.bad = 0, NEW sigs \in [Items -> Runs],
           sigs = job[r].sigs
    PROVE  LET onR2  == Adopting(r2, r, sigs, {})
               onGit == Adopting(github[r], r, onR2, AdoptedOn(r2, r, {}))
           IN /\ Conflicts(r2, r, onR2) = {} /\ Conflicts(github[r], r, onGit) = {}
              /\ \A a \in AssetsOf(r) : r2[a] \in {Absent, Local(onGit, a)}
<1> DEFINE onR2  == Adopting(r2, r, sigs, {})
           onGit == Adopting(github[r], r, onR2, AdoptedOn(r2, r, {}))
<1>1. /\ r2 \in [Assets -> Stored] /\ StoreTyped(r2)
      /\ github[r] \in [Assets -> Stored] /\ StoreTyped(github[r])
  BY DEF IInv, TypeInv, TypeOK
<1>2. ASSUME NEW i \in Staged(r)
      PROVE  /\ r2[<<i, "data">>] \in {Absent, "good"}
             /\ github[r][<<i, "data">>] \in {Absent, "good"}
             /\ r2[<<i, "sig">>] \in {Absent, onR2[i]}
             /\ r2[<<i, "sig">>] \in {Absent, onGit[i]}
             /\ github[r][<<i, "sig">>] \in {Absent, onGit[i]}
  <2>1. i \in Items /\ <<i, "sig">> \in Assets /\ <<i, "data">> \in Assets
    BY StagedType DEF Assets, Kinds
  <2>2. /\ r2[<<i, "data">>] \in {Absent, "good"}
        /\ github[r][<<i, "data">>] \in {Absent, "good"}
    BY <1>1, <2>1 DEF IInv, Agree, StoreTyped, Stored
  <2>3. r2[<<i, "sig">>] # Absent =>
          onR2[i] = r2[<<i, "sig">>] /\ onGit[i] = r2[<<i, "sig">>]
    <3> SUFFICES ASSUME r2[<<i, "sig">>] # Absent
                 PROVE  onR2[i] = r2[<<i, "sig">>] /\ onGit[i] = r2[<<i, "sig">>]
      OBVIOUS
    <3>1. Adopts(r2, i, {}) /\ i \in AdoptedOn(r2, r, {})
      BY AdoptsAll DEF Signature
    <3>2. onR2[i] = r2[<<i, "sig">>]
      BY <2>1, <3>1 DEF Adopting, Signature
    <3>3. ~Adopts(github[r], i, AdoptedOn(r2, r, {}))
      BY <3>1 DEF Adopts, Adoptable
    <3>4. onGit[i] = onR2[i]
      BY <2>1, <3>3 DEF Adopting
    <3> QED BY <3>2, <3>4
  <2>4. github[r][<<i, "sig">>] # Absent => r2[<<i, "sig">>] = github[r][<<i, "sig">>]
    BY <2>1 DEF IInv, Agree
  <2> QED BY <2>2, <2>3, <2>4
<1> HIDE DEF onR2, onGit
<1>3. ASSUME NEW a \in AssetsOf(r)
      PROVE  /\ r2[a] \in {Absent, Local(onR2, a)} /\ r2[a] \in {Absent, Local(onGit, a)}
             /\ github[r][a] \in {Absent, Local(onGit, a)}
  <2>1. PICK i \in Staged(r) : a = <<i, "data">> \/ a = <<i, "sig">>
    BY DEF AssetsOf, Kinds
  <2>2. CASE a = <<i, "data">>
    <3>1. Local(onR2, a) = "good" /\ Local(onGit, a) = "good"
      BY <2>2 DEF Local
    <3> QED BY <1>2, <2>2, <3>1
  <2>3. CASE a = <<i, "sig">>
    <3>1. Local(onR2, a) = onR2[i] /\ Local(onGit, a) = onGit[i]
      BY <2>3 DEF Local
    <3> QED BY <1>2, <2>3, <3>1
  <2> QED BY <2>1, <2>2, <2>3
<1>4. Conflicts(r2, r, onR2) = {} /\ Conflicts(github[r], r, onGit) = {}
  BY <1>3 DEF Conflicts
<1> QED BY <1>3, <1>4 DEF onR2, onGit

LEMMA PreflightInv == ASSUME IInv, NEW r \in Runs, Preflight(r) PROVE IInv'
<1> DEFINE sigs == job[r].sigs
           onR2  == Adopting(r2, r, sigs, {})
           onGit == Adopting(github[r], r, onR2, AdoptedOn(r2, r, {}))
           found == Conflicts(r2, r, onR2) \union Conflicts(github[r], r, onGit)
           k == [job[r] EXCEPT !.pc = "r2", !.sigs = onGit,
                               !.r2Missing = Missing(r2, r), !.ghMissing = Missing(github[r], r)]
<1>0. /\ At(r, "preflight") /\ Holds(r) /\ UNCHANGED <<artifacts, stores, redirects, budget>>
      /\ saved[r] # NoPrep /\ job[r].prep = saved[r]
      /\ \A i \in Items : saved[sigs[i]] # NoPrep
      /\ job \in [Runs -> Job] /\ job[r] \in Job /\ sigs \in [Items -> Runs] /\ budget \in Budget
  BY DEF Preflight, At, Holds, Working, IInv, JobFits, PreparationFits, Prepared,
         TypeInv, TypeOK, Job
<1>1. CASE found # {} /\ End(r, "conflict")
  <2>1. budget.bad # 0
    BY <1>0, <1>1, NoConflict
  <2> QED BY <1>0, <1>1, <2>1, EndInv DEF Resting
<1>2. CASE found = {} /\ job' = [job EXCEPT ![r] = k]
  <2>1. /\ r2 \in [Assets -> Stored] /\ StoreTyped(r2)
        /\ github[r] \in [Assets -> Stored] /\ StoreTyped(github[r])
    BY DEF IInv, TypeInv, TypeOK
  <2>2. /\ onR2 \in [Items -> Runs]
        /\ \A i \in Items : onR2[i] \in {sigs[i], r2[<<i, "sig">>]}
    <3> DEFINE none == {}
    <3> HIDE DEF sigs, none
    <3>1. /\ Adopting(r2, r, sigs, none) \in [Items -> Runs]
          /\ \A i \in Items : \/ Adopting(r2, r, sigs, none)[i] = sigs[i]
                             \/ Adopting(r2, r, sigs, none)[i] = r2[<<i, "sig">>]
      BY <1>0, <2>1, AdoptingType
    <3> QED BY <3>1 DEF none
  <2>3. /\ onGit \in [Items -> Runs]
        /\ \A i \in Items : onGit[i] \in {onR2[i], github[r][<<i, "sig">>]}
    <3> HIDE DEF onR2
    <3> QED BY <2>1, <2>2, AdoptingType
  <2>4. \A i \in Items : saved[onGit[i]] # NoPrep
    <3> HIDE DEF onR2, onGit
    <3> TAKE i \in Items
    <3>1. <<i, "sig">> \in Assets /\ onGit[i] \in Runs
      BY <2>3 DEF Assets, Kinds
    <3>2. onGit[i] \in {sigs[i], r2[<<i, "sig">>], github[r][<<i, "sig">>]}
      BY <2>2, <2>3
    <3> QED BY <1>0, <3>1, <3>2, SignerSaved
  <2>5. budget.bad = 0 => \A a \in AssetsOf(r) : r2[a] \in {Absent, Local(onGit, a)}
    BY <1>0, NoConflict
  <2> HIDE DEF onR2, onGit
  <2>6. Missing(r2, r) \subseteq Assets /\ Missing(github[r], r) \subseteq Assets
    BY StagedType DEF Missing
  <2>7. "r2" \in Working
    BY DEF Working
  <2>8. /\ k \in Job /\ k.pc = "r2" /\ k.prep = job[r].prep /\ k.sigs = onGit
        /\ k.r2Missing = Missing(r2, r) /\ k.ghMissing = Missing(github[r], r)
    BY <1>0, <2>3, <2>6, <2>7 DEF Job
  <2> HIDE DEF k
  <2>9. job'[r] = k
    BY <1>0, <1>2
  <2>10. saved' = saved /\ r2' = r2 /\ github' = github /\ budget' = budget
    BY <1>0 DEF artifacts, stores
  <2>11. PreparationFits(r)'
    BY <1>0, <2>4, <2>8, <2>9, <2>10 DEF PreparationFits, At, Fresh, Prepared
  <2>12. UploadFits(r)'
    <3>1. AssetsOf(r)' = AssetsOf(r)
      BY <2>8, <2>9 DEF AssetsOf, Staged
    <3>2. Missing(r2, r)' = Missing(r2, r) /\ Missing(github[r], r)' = Missing(github[r], r)
      BY <2>10, <3>1 DEF Missing
    <3>3. \A a \in AssetsOf(r) : Local(job[r].sigs, a)' = Local(onGit, a)
      BY <2>8, <2>9 DEF Local
    <3> QED BY <2>5, <2>8, <2>9, <2>10, <3>1, <3>2, <3>3 DEF UploadFits, At, Uploaded
  <2>13. RedirectFits(r)'
    BY <2>8, <2>9 DEF RedirectFits, At
  <2> QED BY <1>0, <1>2, <2>8, <2>11, <2>12, <2>13, OneJobStep DEF JobFits
<1> QED BY <1>1, <1>2 DEF Preflight

-----------------------------------------------------------------------------
(***************************************************************************)
(* Verification, and the comparison that decides who may move.             *)
(***************************************************************************)
\* What the run's steps after the preflight keep while its preparation stays.
LEMMA PreparedKept ==
    ASSUME IInv, NEW r \in Runs, job[r].pc \in Prepared \ {"preflight"},
           job'[r].pc \in Prepared \ {"preflight"}, UNCHANGED artifacts,
           job'[r].prep = job[r].prep, job'[r].sigs = job[r].sigs
    PROVE  PreparationFits(r)'
BY DEF IInv, JobFits, PreparationFits, At, Fresh, Prepared, artifacts

\* A run that has verified its assets is complete: its own with the signatures
\* it goes on with, the rest through the master it was merged onto.
LEMMA VerifiedComplete ==
    ASSUME IInv, NEW r \in Runs, job[r].pc \in Prepared \ {"preflight"},
           \A a \in AssetsOf(r) : Intact(r, a)
    PROVE  Complete(r)
<1>1. /\ job[r] \in Job /\ job[r].sigs \in [Items -> Runs]
      /\ saved[r] # NoPrep /\ job[r].prep = saved[r] /\ Merged(r, saved[r])
  BY DEF IInv, TypeInv, TypeOK, Job, JobFits, PreparationFits, Preparations
<1>2. ASSUME NEW i \in Staged(r) PROVE Available(r, i)
  <2>1. i \in Items
    BY StagedType
  <2>2. ASSUME NEW kind \in Kinds
        PROVE  r2[<<i, kind>>] \notin {Absent, "bad"} /\ github[r][<<i, kind>>] = r2[<<i, kind>>]
    <3>1. Intact(r, <<i, kind>>)
      BY DEF AssetsOf
    <3>2. Local(job[r].sigs, <<i, kind>>) \in {"good", job[r].sigs[i]}
      BY DEF Local
    <3>3. job[r].sigs[i] \in Runs
      BY <1>1, <2>1
    <3> QED BY <3>1, <3>2, <3>3, NamesAssumption DEF Intact
  <2> QED BY <2>2 DEF Available
<1>3. PacksOf(r) = job[r].prep.packs
  BY <1>1, NamesAssumption DEF PacksOf
<1>4. ASSUME NEW e \in PacksOf(r) PROVE Available(e[1], e[2])
  <2>1. CASE e[1] = r
    <3>1. e[2] \in Staged(r)
      BY <1>3, <2>1 DEF Staged
    <3> QED BY <1>2, <2>1, <3>1
  <2>2. CASE e[1] # r
    <3> DEFINE onto == saved[r].onto
    <3>1. onto \in everLive /\ e \in MergedPacks(PacksOf(onto), PreparedPacks(r))
      BY <1>1, <1>3 DEF Merged
    <3>2. e \in PacksOf(onto)
      BY <2>2, <3>1 DEF MergedPacks, PreparedPacks
    <3>3. onto # Genesis
      BY <3>2 DEF PacksOf
    <3> QED BY <3>1, <3>2, <3>3 DEF IInv, Redirects, Served, Complete
  <2> QED BY <2>1, <2>2
<1>5. Available(r, r)
  BY <1>2, StagedType
<1> QED BY <1>4, <1>5 DEF Complete

LEMMA VerifyInv == ASSUME IInv, NEW r \in Runs, VerifyPublicCopies(r) PROVE IInv'
<1>0. /\ At(r, "verify") /\ Holds(r) /\ UNCHANGED <<artifacts, stores, redirects, budget>>
      /\ budget \in Budget /\ "compare" \in Working
  BY DEF VerifyPublicCopies, At, Holds, Working, IInv, TypeInv
<1>1. CASE (\A a \in AssetsOf(r) : Intact(r, a)) /\ Goto(r, "compare")
  <2>1. job'[r].pc = "compare" /\ job'[r].prep = job[r].prep /\ job'[r].sigs = job[r].sigs
    BY <1>0, <1>1, MovedType
  <2>2. PreparationFits(r)'
    BY <1>0, <2>1, PreparedKept DEF At, Prepared
  <2>3. Complete(r)'
    <3>1. Complete(r)
      BY <1>0, <1>1, VerifiedComplete DEF At, Prepared
    <3> QED BY <1>0, <3>1 DEF Complete, Available, PacksOf, artifacts, stores
  <2>4. UploadFits(r)' /\ RedirectFits(r)'
    BY <2>1, <2>3 DEF UploadFits, RedirectFits, At
  <2> QED BY <1>0, <1>1, <2>2, <2>4, MoveInv DEF JobFits
<1>2. CASE End(r, "failed")
  BY <1>0, <1>2, EndInv DEF Resting
<1> QED BY <1>1, <1>2 DEF VerifyPublicCopies

LEMMA CompareInv == ASSUME IInv, NEW r \in Runs, CompareRedirect(r) PROVE IInv'
<1>0. /\ At(r, "compare") /\ Holds(r) /\ UNCHANGED <<artifacts, stores, redirects, budget>>
      /\ budget \in Budget /\ {"json", "mirror"} \subseteq Working
      /\ Complete(r)
  BY DEF CompareRedirect, At, Holds, Working, IInv, TypeInv, JobFits, UploadFits, Uploaded
<1>1. CASE ~MayMove(r) /\ End(r, "refused")
  <2>1. live.json # r
    BY <1>1 DEF MayMove
  <2> QED BY <1>0, <1>1, <2>1, EndInv DEF Resting
<1>2. ASSUME NEW pc \in {"json", "mirror"}, Goto(r, pc), MayMove(r),
             pc = "mirror" => live = Redirect(r)
      PROVE  IInv'
  <2>1. job'[r].pc = pc /\ job'[r].prep = job[r].prep /\ job'[r].sigs = job[r].sigs
    BY <1>0, <1>2, MovedType
  <2>2. PreparationFits(r)'
    BY <1>0, <2>1, PreparedKept DEF At, Prepared
  <2>3. Complete(r)'
    BY <1>0 DEF Complete, Available, PacksOf, artifacts, stores
  <2>4. UploadFits(r)'
    BY <2>1, <2>3 DEF UploadFits, At
  <2>5. RedirectFits(r)'
    <3>1. live' = live
      BY <1>0 DEF redirects
    <3> QED BY <1>2, <2>1, <3>1 DEF RedirectFits, At, MayMove, Redirect
  <2> QED BY <1>0, <1>2, <2>2, <2>4, <2>5, MoveInv DEF JobFits
<1> QED BY <1>1, <1>2 DEF CompareRedirect

-----------------------------------------------------------------------------
(***************************************************************************)
(* What the steps that save, upload and move leave alone.                  *)
(***************************************************************************)
StoresGrow ==
    \A a \in Assets :
        /\ r2[a] # Absent => r2'[a] = r2[a]
        /\ \A r \in Runs : github[r][a] # Absent => github'[r][a] = github[r][a]

\* What is available stays so.
LEMMA AvailableKept ==
    ASSUME StoresGrow, NEW h \in Runs, NEW i \in Items, Available(h, i)
    PROVE  Available(h, i)'
<1>1. ASSUME NEW k \in Kinds
      PROVE  r2'[<<i, k>>] \notin {Absent, "bad"} /\ github'[h][<<i, k>>] = r2'[<<i, k>>]
  <2>1. <<i, k>> \in Assets
    BY DEF Assets
  <2> QED BY <2>1 DEF StoresGrow, Available
<1> QED BY <1>1 DEF Available

\* The catalog of a master that has been live does not change.
LEMMA CatalogKept ==
    ASSUME IInv, \A q \in Runs : saved[q] # NoPrep => saved'[q] = saved[q]
    PROVE  \A m \in everLive : /\ Generation(m)' = Generation(m)
                               /\ RunsOf(m)' = RunsOf(m) /\ PacksOf(m)' = PacksOf(m)
<1>1. \A m \in Served : m \in Runs /\ saved[m] # NoPrep
  BY DEF IInv, Redirects, Served, TypeInv, TypeOK, Masters
<1> QED BY <1>1 DEF Generation, RunsOf, PacksOf, Served

LEMMA CompleteKept ==
    ASSUME IInv, StoresGrow, NEW m \in Runs, saved[m] # NoPrep, saved'[m] = saved[m], Complete(m)
    PROVE  Complete(m)'
<1>1. PacksOf(m)' = PacksOf(m) /\ PacksOf(m) \subseteq Runs \X Packs
  BY NamesAssumption DEF PacksOf, IInv, TypeInv, TypeOK, Prep
<1>2. Available(m, m)'
  BY AvailableKept DEF Complete, Items
<1>3. ASSUME NEW e \in PacksOf(m) PROVE Available(e[1], e[2])'
  <2>1. e[1] \in Runs /\ e[2] \in Items /\ Available(e[1], e[2])
    BY <1>1 DEF Complete, Items
  <2> QED BY <2>1, AvailableKept
<1> QED BY <1>1, <1>2, <1>3 DEF Complete

\* Saved preparations stay merged, and served masters complete.
LEMMA PreparationsKept ==
    ASSUME IInv, UNCHANGED saved, everLive \subseteq everLive'
    PROVE  Preparations'
<1>1. \A m \in everLive : /\ Generation(m)' = Generation(m)
                          /\ RunsOf(m)' = RunsOf(m) /\ PacksOf(m)' = PacksOf(m)
  BY CatalogKept
<1> QED BY <1>1 DEF IInv, Preparations, Merged

LEMMA RedirectsKept ==
    ASSUME IInv, StoresGrow, UNCHANGED redirects,
           \A q \in Runs : saved[q] # NoPrep => saved'[q] = saved[q]
    PROVE  Redirects'
<1>1. \A m \in Served : m \in Runs /\ saved[m] # NoPrep
  BY DEF IInv, Redirects, Served, TypeInv, TypeOK, Masters
<1>2. \A m \in Served : Complete(m)'
  BY <1>1, CompleteKept DEF IInv, Redirects
<1>3. \A m \in Served : saved'[m] = saved[m]
  BY <1>1
<1>4. UNCHANGED <<live, cdn, mirror, everLive>> /\ Served' = Served
  BY DEF redirects, Served
<1> QED BY <1>2, <1>3, <1>4 DEF IInv, Redirects

\* The run that works ends or moves on; the others rest.
LEMMA WorkerStep ==
    ASSUME IInv, NEW r \in Runs, Holds(r), NEW k \in Job, job' = [job EXCEPT ![r] = k],
           k.pc \notin {"conflict", "refused"}, JobFits(r)'
    PROVE  /\ job' \in [Runs -> Job] /\ job'[r] = k
           /\ \A q \in Runs \ {r} : job'[q] = job[q]
           /\ Exclusive' /\ \A q \in Runs : JobFits(q)'
           /\ \A q \in Runs : At(q, "conflict")' => q # r /\ At(q, "conflict")
           /\ \A q \in Runs : At(q, "refused")' => q # r /\ At(q, "refused")
<1>1. /\ job' \in [Runs -> Job] /\ job'[r] = k
      /\ \A q \in Runs \ {r} : job'[q] = job[q]
  BY DEF IInv, TypeInv, TypeOK
<1>2. Exclusive'
  <2>1. \A q \in Runs : Holds(q)' => Holds(q)
    BY <1>1 DEF Holds
  <2> QED BY <2>1 DEF IInv, Exclusive
<1>3. \A q \in Runs : JobFits(q)'
  <2> TAKE q \in Runs
  <2>1. CASE q = r
    BY <2>1
  <2>2. CASE q # r
    BY <1>1, <2>2, Bystander
  <2> QED BY <2>1, <2>2
<1>4. \A q \in Runs : At(q, "conflict")' => q # r /\ At(q, "conflict")
  BY <1>1 DEF At
<1>5. \A q \in Runs : At(q, "refused")' => q # r /\ At(q, "refused")
  BY <1>1 DEF At
<1> QED BY <1>1, <1>2, <1>3, <1>4, <1>5

\* A step of the job that works, and of what the others have in common.
LEMMA WorkerInv ==
    ASSUME IInv, NEW r \in Runs, Holds(r), NEW k \in Job, job' = [job EXCEPT ![r] = k],
           k.pc \notin {"conflict", "refused"}, JobFits(r)',
           (job' \in [Runs -> Job]) => TypeInv',
           Preparations', Redirects', Unsaved', Agree',
           budget.bad # 0 => budget'.bad # 0, live'.json \in {live.json, r}
    PROVE  IInv'
<1>1. /\ job' \in [Runs -> Job] /\ Exclusive' /\ \A q \in Runs : JobFits(q)'
      /\ \A q \in Runs : At(q, "conflict")' => q # r /\ At(q, "conflict")
      /\ \A q \in Runs : At(q, "refused")' => q # r /\ At(q, "refused")
  BY WorkerStep
<1>2. NoSelfConflict'
  BY <1>1 DEF IInv, NoSelfConflict
<1>3. OwnRerunAccepted'
  BY <1>1 DEF IInv, OwnRerunAccepted
<1> QED BY <1>1, <1>2, <1>3 DEF IInv

LEMMA SaveInv == ASSUME IInv, NEW r \in Runs, SavePreparation(r) PROVE IInv'
<1> DEFINE p == job[r].prep
           k == [job[r] EXCEPT !.pc = "preflight"]
<1>0. /\ At(r, "save") /\ Holds(r) /\ UNCHANGED <<expired, stores, redirects, budget>>
      /\ saved' = [saved EXCEPT ![r] = p] /\ Goto(r, "preflight")
      /\ saved[r] = NoPrep /\ Merged(r, p) /\ job[r].sigs = [i \in Items |-> r]
      /\ job[r] \in Job /\ p \in Prep /\ saved \in [Runs -> Prep] /\ "preflight" \in Working
  BY DEF SavePreparation, At, Holds, Working, IInv, JobFits, PreparationFits, Fresh,
         TypeInv, TypeOK, Job
<1>1. /\ k \in Job /\ k.pc = "preflight" /\ job' = [job EXCEPT ![r] = k]
      /\ job'[r].pc = "preflight" /\ job'[r].prep = p /\ job'[r].sigs = job[r].sigs
  BY <1>0, MovedType DEF Job
<1>2. /\ saved' \in [Runs -> Prep] /\ saved'[r] = p
      /\ \A q \in Runs \ {r} : saved'[q] = saved[q]
      /\ \A q \in Runs : saved[q] # NoPrep => saved'[q] = saved[q]
  BY <1>0
<1>3. p # NoPrep
  <2>1. r \in p.runs
    BY <1>0 DEF Merged
  <2> QED BY <2>1 DEF NoPrep
<1>4. \A m \in everLive : /\ Generation(m)' = Generation(m)
                          /\ RunsOf(m)' = RunsOf(m) /\ PacksOf(m)' = PacksOf(m)
  BY <1>2, CatalogKept
<1>5. everLive' = everLive /\ r2' = r2 /\ github' = github /\ releases' = releases
      /\ live' = live /\ cdn' = cdn /\ mirror' = mirror /\ budget' = budget /\ expired' = expired
  BY <1>0 DEF redirects, stores
<1> HIDE DEF p, k
<1>6. (job' \in [Runs -> Job]) => TypeInv'
  BY <1>2, <1>5 DEF IInv, TypeInv, TypeOK, StoreTyped
<1>7. Preparations'
  <2> SUFFICES ASSUME NEW q \in Runs, saved'[q] # NoPrep PROVE Merged(q, saved[q])'
    BY DEF Preparations
  <2>1. CASE q = r
    BY <1>0, <1>2, <1>4, <1>5, <2>1 DEF Merged
  <2>2. CASE q # r
    <3>1. saved'[q] = saved[q] /\ Merged(q, saved[q])
      BY <1>2, <2>2 DEF IInv, Preparations
    <3> QED BY <1>4, <1>5, <3>1 DEF Merged
  <2> QED BY <2>1, <2>2
<1>8. Redirects'
  <2>1. StoresGrow
    BY <1>5 DEF StoresGrow
  <2>2. UNCHANGED redirects
    BY <1>0
  <2> QED BY <1>2, <2>1, <2>2, RedirectsKept
<1>9. Unsaved' /\ Agree'
  BY <1>2, <1>3, <1>5 DEF IInv, Unsaved, Untouched, Agree
<1>10. JobFits(r)'
  <2>1. \A i \in Items : job'[r].sigs[i] = r
    BY <1>0, <1>1
  <2> QED BY <1>0, <1>1, <1>2, <1>3, <2>1
          DEF JobFits, PreparationFits, UploadFits, RedirectFits, At, Prepared, Uploaded
<1> QED BY <1>0, <1>1, <1>5, <1>6, <1>7, <1>8, <1>9, <1>10, WorkerInv

-----------------------------------------------------------------------------
(***************************************************************************)
(* The uploads.                                                            *)
(***************************************************************************)
\* The local bytes of an asset: intact data, or the signature of a saved run.
LEMMA LocalType ==
    ASSUME IInv, NEW r \in Runs, job[r].pc \in Prepared, NEW a \in AssetsOf(r)
    PROVE  /\ a \in Assets /\ a[1] \in Items /\ (a[1] \in Runs => a[1] = r)
           /\ Local(job[r].sigs, a) \in Stored \ {Absent, "bad"}
           /\ a[2] = "data" => Local(job[r].sigs, a) = "good"
           /\ a[2] # "data" => Local(job[r].sigs, a) \in Runs
           /\ \A q \in Runs : Local(job[r].sigs, a) = q => saved[q] # NoPrep
<1>1. /\ job[r] \in Job /\ job[r].sigs \in [Items -> Runs]
      /\ \A i \in Items : saved[job[r].sigs[i]] # NoPrep
      /\ job[r].prep.packs \subseteq Runs \X Packs
  BY DEF IInv, TypeInv, TypeOK, Job, Prep, JobFits, PreparationFits
<1>2. a \in Assets /\ a[1] \in Staged(r) /\ a[1] \in Items
  BY StagedType DEF AssetsOf, Assets
<1>3. a[1] \in Runs => a[1] = r
  BY <1>1, <1>2, NamesAssumption DEF Staged
<1>4. CASE a[2] = "data"
  BY <1>2, <1>3, <1>4, NamesAssumption DEF Local, Stored
<1>5. CASE a[2] # "data"
  <2>1. Local(job[r].sigs, a) = job[r].sigs[a[1]]
    BY <1>5 DEF Local
  <2> QED BY <1>1, <1>2, <1>3, <1>5, <2>1, NamesAssumption DEF Stored
<1> QED BY <1>4, <1>5

LEMMA PutInv ==
    ASSUME IInv, NEW r \in Runs, At(r, "r2"), NEW a \in NextUp(r, job[r].r2Missing),
           job' = [job EXCEPT ![r].r2Missing = @ \ {a}],
           NEW v, v \in {"bad", Local(job[r].sigs, a)}, r2' = [r2 EXCEPT ![a] = v],
           UNCHANGED <<artifacts, github, releases, redirects>>,
           budget' \in Budget, budget.bad # 0 \/ v = "bad" => budget'.bad # 0
    PROVE  IInv'
<1> DEFINE k == [job[r] EXCEPT !.r2Missing = @ \ {a}]
<1>0. /\ job[r] \in Job /\ job[r].pc = "r2" /\ Holds(r) /\ job[r].pc \in Prepared
      /\ r2 \in [Assets -> Stored] /\ job[r].r2Missing = Missing(r2, r)
      /\ job[r].ghMissing \subseteq Missing(github[r], r) /\ saved[r] # NoPrep
  BY DEF At, Holds, Working, Prepared, IInv, TypeInv, TypeOK, JobFits, PreparationFits, UploadFits
<1>1. /\ k \in Job /\ k.pc = "r2" /\ k.prep = job[r].prep /\ k.sigs = job[r].sigs
      /\ k.r2Missing = Missing(r2, r) \ {a} /\ k.ghMissing = job[r].ghMissing
      /\ job' = [job EXCEPT ![r] = k]
  BY <1>0 DEF Job
<1>2. a \in AssetsOf(r) /\ r2[a] = Absent /\ \A b \in Missing(r2, r) : ~Before(b, a)
  BY <1>0 DEF NextUp, Missing
<1> DEFINE local == Local(job[r].sigs, a)
<1>3. /\ a \in Assets /\ a[1] \in Items /\ (a[1] \in Runs => a[1] = r)
      /\ local \in Stored \ {Absent, "bad"}
      /\ (a[2] = "data" => local = "good") /\ (a[2] # "data" => local \in Runs)
      /\ \A q \in Runs : local = q => saved[q] # NoPrep
  BY <1>0, <1>2, LocalType
<1>4. v \in {"bad", local} /\ v # Absent /\ v \in Stored
  BY <1>3, NamesAssumption DEF Stored
<1>5. r2' \in [Assets -> Stored] /\ r2'[a] = v /\ \A b \in Assets \ {a} : r2'[b] = r2[b]
  BY <1>0, <1>3, <1>4
<1>6. /\ saved' = saved /\ expired' = expired /\ github' = github /\ releases' = releases
      /\ live' = live /\ cdn' = cdn /\ mirror' = mirror /\ everLive' = everLive
  BY DEF artifacts, redirects
<1> HIDE DEF k, local
<1>7. (job' \in [Runs -> Job]) => TypeInv'
  <2>1. StoreTyped(r2)'
    <3> SUFFICES ASSUME NEW i \in Items
                 PROVE  r2'[<<i, "sig">>] # "good" /\ r2'[<<i, "data">>] \notin Runs
      BY DEF StoreTyped
    <3>1. <<i, "sig">> \in Assets /\ <<i, "data">> \in Assets
      BY DEF Assets, Kinds
    <3>2. r2'[<<i, "sig">>] # "good"
      <4>1. CASE a = <<i, "sig">>
        BY <1>3, <1>4, <1>5, <4>1, NamesAssumption
      <4>2. CASE a # <<i, "sig">>
        BY <1>5, <3>1, <4>2 DEF IInv, TypeInv, StoreTyped
      <4> QED BY <4>1, <4>2
    <3>3. r2'[<<i, "data">>] \notin Runs
      <4>1. CASE a = <<i, "data">>
        BY <1>3, <1>4, <1>5, <4>1, NamesAssumption
      <4>2. CASE a # <<i, "data">>
        BY <1>5, <3>1, <4>2 DEF IInv, TypeInv, StoreTyped
      <4> QED BY <4>1, <4>2
    <3> QED BY <3>2, <3>3
  <2> QED BY <1>5, <1>6, <2>1 DEF IInv, TypeInv, TypeOK, StoreTyped
<1>8. StoresGrow
  BY <1>2, <1>5, <1>6 DEF StoresGrow
<1>9. Preparations' /\ Redirects'
  BY <1>6, <1>8, PreparationsKept, RedirectsKept DEF redirects
<1>10. Unsaved'
  <2> SUFFICES ASSUME NEW q \in Runs, saved[q] = NoPrep
               PROVE  Untouched(q)' /\ \A p \in Runs, b \in Assets : github'[p][b] # q
    BY <1>6 DEF Unsaved
  <2>1. Untouched(q) /\ \A p \in Runs, b \in Assets : github[p][b] # q
    BY DEF IInv, Unsaved
  <2>2. v # q
    BY <1>3, <1>4, NamesAssumption
  <2>3. \A kind \in Kinds : r2'[<<q, kind>>] = Absent
    <3> TAKE kind \in Kinds
    <3>1. q # r
      BY <1>0
    <3>2. <<q, kind>> \in Assets /\ a # <<q, kind>>
      BY <1>3, <3>1 DEF Assets, Items
    <3> QED BY <1>5, <2>1, <3>2 DEF Untouched
  <2> QED BY <1>5, <1>6, <2>1, <2>2, <2>3 DEF Untouched
<1>11. Agree'
  <2>1. ASSUME NEW i \in Items, r2'[<<i, "sig">>] # Absent PROVE r2'[<<i, "data">>] # Absent
    <3>1. <<i, "sig">> \in Assets /\ <<i, "data">> \in Assets
      BY DEF Assets, Kinds
    <3>2. r2[<<i, "data">>] # Absent => r2'[<<i, "data">>] # Absent
      BY <1>5, <3>1, <1>4
    <3>3. CASE a = <<i, "sig">>
      <4>1. <<i, "data">> \in AssetsOf(r) /\ Before(<<i, "data">>, a)
        BY <1>2, <3>3 DEF AssetsOf, Kinds, Before
      <4>2. r2[<<i, "data">>] # Absent
        BY <1>2, <4>1 DEF Missing
      <4> QED BY <3>2, <4>2
    <3>4. CASE a # <<i, "sig">>
      <4>1. r2[<<i, "sig">>] # Absent
        BY <1>5, <2>1, <3>1, <3>4
      <4> QED BY <3>2, <4>1 DEF IInv, Agree
    <3> QED BY <3>3, <3>4
  <2>2. ASSUME budget'.bad = 0, NEW q \in Runs, NEW b \in Assets
        PROVE  /\ r2'[b] # "bad" /\ github'[q][b] # "bad"
               /\ b[2] = "sig" /\ github'[q][b] # Absent => r2'[b] = github'[q][b]
    <3>1. /\ r2[b] # "bad" /\ github[q][b] # "bad" /\ v # "bad"
          /\ b[2] = "sig" /\ github[q][b] # Absent => r2[b] = github[q][b]
      BY <2>2 DEF IInv, Agree
    <3> QED BY <1>2, <1>5, <1>6, <3>1
  <2> QED BY <2>1, <2>2 DEF Agree
<1>12. JobFits(r)'
  <2>1. job'[r] = k
    BY <1>1 DEF IInv, TypeInv, TypeOK
  <2>2. PreparationFits(r)'
    <3>1. UNCHANGED artifacts /\ job[r].pc \in Prepared \ {"preflight"}
      BY <1>0 DEF Prepared
    <3> QED BY <1>0, <1>1, <2>1, <3>1, PreparedKept
  <2>3. AssetsOf(r)' = AssetsOf(r) /\ AssetsOf(r) \subseteq Assets
    BY <1>1, <2>1, StagedType DEF AssetsOf, Staged
  <2>4. Missing(r2, r)' = Missing(r2, r) \ {a}
    BY <1>4, <1>5, <2>3 DEF Missing
  <2>5. Missing(github[r], r)' = Missing(github[r], r)
    BY <1>6, <2>3 DEF Missing
  <2>6. budget'.bad = 0 => \A b \in AssetsOf(r) : r2'[b] \in {Absent, Local(job[r].sigs, b)}
    <3> SUFFICES ASSUME budget'.bad = 0, NEW b \in AssetsOf(r)
                 PROVE  r2'[b] \in {Absent, Local(job[r].sigs, b)}
      OBVIOUS
    <3>1. budget.bad = 0 /\ v = local
      BY <1>4
    <3>2. r2[b] \in {Absent, Local(job[r].sigs, b)}
      BY <1>0, <3>1 DEF IInv, JobFits, UploadFits
    <3> QED BY <1>5, <2>3, <3>1, <3>2 DEF local
  <2>7. \A b : Local(job[r].sigs, b)' = Local(job[r].sigs, b)
    BY <1>1, <2>1 DEF Local
  <2>8. UploadFits(r)' /\ RedirectFits(r)'
    BY <1>0, <1>1, <2>1, <2>3, <2>4, <2>5, <2>6, <2>7 DEF UploadFits, RedirectFits, At, Uploaded
  <2> QED BY <2>2, <2>8 DEF JobFits
<1>13. k.pc \notin {"conflict", "refused"} /\ live'.json \in {live.json, r}
  BY <1>1, <1>6
<1> QED BY <1>0, <1>1, <1>7, <1>9, <1>10, <1>11, <1>12, <1>13, WorkerInv

LEMMA PutAssetInv == ASSUME IInv, NEW r \in Runs, PutAsset(r) PROVE IInv'
<1>0. /\ At(r, "r2") /\ Holds(r) /\ UNCHANGED <<artifacts, github, releases, redirects>>
      /\ budget \in Budget /\ "release" \in Working
      /\ job[r].r2Missing = Missing(r2, r)
      /\ job[r].ghMissing \subseteq Missing(github[r], r)
      /\ budget.bad = 0 => \A a \in AssetsOf(r) : r2[a] \in {Absent, Local(job[r].sigs, a)}
  BY DEF PutAsset, At, Holds, Working, IInv, TypeInv, JobFits, UploadFits
<1>1. ASSUME NEW a \in NextUp(r, job[r].r2Missing),
             job' = [job EXCEPT ![r].r2Missing = @ \ {a}],
             \/ /\ r2' = [r2 EXCEPT ![a] = Local(job[r].sigs, a)]
                /\ UNCHANGED budget
             \/ /\ r2' = [r2 EXCEPT ![a] = "bad"]
                /\ budget' = [budget EXCEPT !.bad = @ + 1]
      PROVE  IInv'
  <2> DEFINE local == Local(job[r].sigs, a)
  <2>1. a \in AssetsOf(r)
    BY <1>0, <1>1 DEF NextUp, Missing
  <2>2. local # "bad"
    <3>1. job[r].pc \in Prepared
      BY <1>0 DEF At, Prepared
    <3> QED BY <2>1, <3>1, LocalType
  <2>3. CASE r2' = [r2 EXCEPT ![a] = local] /\ UNCHANGED budget
    <3> HIDE DEF local
    <3>1. local \in {"bad", Local(job[r].sigs, a)}
      BY DEF local
    <3> QED BY <1>0, <1>1, <2>2, <2>3, <3>1, PutInv
  <2>4. CASE r2' = [r2 EXCEPT ![a] = "bad"] /\ budget' = [budget EXCEPT !.bad = @ + 1]
    <3>1. budget' \in Budget /\ budget'.bad # 0
      BY <1>0, <2>4 DEF Budget
    <3> HIDE DEF local
    <3> QED BY <1>0, <1>1, <2>4, <3>1, PutInv
  <2> QED BY <1>1, <2>3, <2>4
<1>2. CASE job[r].r2Missing = {} /\ Goto(r, "release") /\ UNCHANGED <<r2, budget>>
  <2>1. /\ job'[r].pc = "release" /\ job'[r].prep = job[r].prep /\ job'[r].sigs = job[r].sigs
        /\ job'[r].ghMissing = job[r].ghMissing
    BY <1>0, <1>2, MovedType
  <2>2. PreparationFits(r)'
    BY <1>0, <2>1, PreparedKept DEF At, Prepared
  <2>3. r2' = r2 /\ github' = github /\ budget' = budget /\ releases' = releases
    BY <1>0, <1>2
  <2>4. AssetsOf(r)' = AssetsOf(r)
    BY <2>1 DEF AssetsOf, Staged
  <2>5. Missing(r2, r)' = {} /\ Missing(github[r], r)' = Missing(github[r], r)
    BY <1>0, <1>2, <2>3, <2>4 DEF Missing
  <2>6. \A b : Local(job[r].sigs, b)' = Local(job[r].sigs, b)
    BY <2>1 DEF Local
  <2>7. UploadFits(r)' /\ RedirectFits(r)'
    BY <1>0, <2>1, <2>3, <2>4, <2>5, <2>6 DEF UploadFits, RedirectFits, At, Uploaded
  <2>8. UNCHANGED <<artifacts, stores, redirects, budget>>
    BY <1>0, <2>3 DEF stores
  <2> QED BY <1>0, <1>2, <2>2, <2>7, <2>8, MoveInv DEF JobFits
<1> QED BY <1>1, <1>2 DEF PutAsset

LEMMA ReleaseInv == ASSUME IInv, NEW r \in Runs, CreateRelease(r) PROVE IInv'
<1> DEFINE k == [job[r] EXCEPT !.pc = "github"]
<1>0. /\ At(r, "release") /\ Holds(r) /\ UNCHANGED <<artifacts, r2, github, redirects, budget>>
      /\ releases' = releases \union {r} /\ Goto(r, "github") /\ "github" \in Working
      /\ saved[r] # NoPrep /\ Missing(r2, r) = {}
      /\ job[r].ghMissing \subseteq Missing(github[r], r)
      /\ budget.bad = 0 => \A a \in AssetsOf(r) : r2[a] \in {Absent, Local(job[r].sigs, a)}
  BY DEF CreateRelease, At, Holds, Working, Prepared, IInv, TypeInv, JobFits,
         PreparationFits, UploadFits
<1>1. /\ k \in Job /\ k.pc = "github" /\ job' = [job EXCEPT ![r] = k]
      /\ job'[r].pc = "github" /\ job'[r].prep = job[r].prep /\ job'[r].sigs = job[r].sigs
      /\ job'[r].ghMissing = job[r].ghMissing
  BY <1>0, MovedType DEF IInv, TypeInv, TypeOK, Job
<1>2. /\ saved' = saved /\ expired' = expired /\ r2' = r2 /\ github' = github
      /\ live' = live /\ cdn' = cdn /\ mirror' = mirror /\ everLive' = everLive
      /\ budget' = budget
  BY <1>0 DEF artifacts, redirects
<1> HIDE DEF k
<1>3. (job' \in [Runs -> Job]) => TypeInv'
  BY <1>0, <1>2 DEF IInv, TypeInv, TypeOK, StoreTyped
<1>4. Preparations' /\ Redirects'
  <2>1. StoresGrow
    BY <1>2 DEF StoresGrow
  <2> QED BY <1>2, <2>1, PreparationsKept, RedirectsKept DEF redirects
<1>5. Unsaved' /\ Agree'
  BY <1>0, <1>2 DEF IInv, Unsaved, Untouched, Agree
<1>6. JobFits(r)'
  <2>1. PreparationFits(r)'
    BY <1>0, <1>1, PreparedKept DEF At, Prepared
  <2>2. AssetsOf(r)' = AssetsOf(r)
    BY <1>1 DEF AssetsOf, Staged
  <2>3. Missing(r2, r)' = {} /\ Missing(github[r], r)' = Missing(github[r], r)
    BY <1>0, <1>2, <2>2 DEF Missing
  <2>4. \A b : Local(job[r].sigs, b)' = Local(job[r].sigs, b)
    BY <1>1 DEF Local
  <2>5. UploadFits(r)' /\ RedirectFits(r)'
    BY <1>0, <1>1, <1>2, <2>2, <2>3, <2>4 DEF UploadFits, RedirectFits, At, Uploaded
  <2> QED BY <2>1, <2>5 DEF JobFits
<1> QED BY <1>0, <1>1, <1>2, <1>3, <1>4, <1>5, <1>6, WorkerInv

\* What an upload to the release, complete or not, keeps.
LEMMA UploadKeeps ==
    ASSUME IInv, NEW r \in Runs, At(r, "github"), NEW done \in SUBSET job[r].ghMissing,
           github' = [github EXCEPT ![r] =
              [a \in Assets |-> IF a \in done THEN Local(job[r].sigs, a) ELSE @[a]]],
           UNCHANGED <<artifacts, r2, releases, redirects>>,
           budget' \in Budget, budget'.bad = budget.bad
    PROVE  /\ (job' \in [Runs -> Job]) => TypeInv'
           /\ StoresGrow /\ Preparations' /\ Redirects' /\ Unsaved' /\ Agree'
<1>0. /\ job[r].pc \in Prepared /\ saved[r] # NoPrep /\ Missing(r2, r) = {}
      /\ github \in [Runs -> [Assets -> Stored]]
      /\ done \subseteq Missing(github[r], r)
      /\ budget.bad = 0 => \A a \in AssetsOf(r) : r2[a] \in {Absent, Local(job[r].sigs, a)}
  BY DEF At, Prepared, IInv, TypeInv, TypeOK, JobFits, PreparationFits, UploadFits
<1>1. \A a \in done : a \in AssetsOf(r) /\ github[r][a] = Absent /\ r2[a] # Absent
  BY <1>0 DEF Missing
<1> DEFINE local(a) == Local(job[r].sigs, a)
<1>2. \A a \in done :
        /\ a \in Assets /\ local(a) \in Stored \ {Absent, "bad"}
        /\ a[2] = "data" => local(a) = "good"
        /\ a[2] # "data" => local(a) \in Runs
        /\ \A q \in Runs : local(a) = q => saved[q] # NoPrep
  BY <1>0, <1>1, LocalType
<1> HIDE DEF local
<1>3. /\ \A q \in Runs \ {r} : github'[q] = github[q]
      /\ \A a \in Assets : github'[r][a] = IF a \in done THEN local(a) ELSE github[r][a]
      /\ github' \in [Runs -> [Assets -> Stored]]
  <2>1. github' = [github EXCEPT ![r] =
              [a \in Assets |-> IF a \in done THEN local(a) ELSE github[r][a]]]
    BY DEF local
  <2> QED BY <1>0, <1>2, <2>1
<1>4. /\ saved' = saved /\ expired' = expired /\ r2' = r2 /\ releases' = releases
      /\ live' = live /\ cdn' = cdn /\ mirror' = mirror /\ everLive' = everLive
  BY DEF artifacts, redirects
<1>5. (job' \in [Runs -> Job]) => TypeInv'
  <2>1. ASSUME NEW q \in Runs, NEW i \in Items
        PROVE  github'[q][<<i, "sig">>] # "good" /\ github'[q][<<i, "data">>] \notin Runs
    <3>1. /\ <<i, "sig">> \in Assets /\ <<i, "data">> \in Assets
          /\ github[q][<<i, "sig">>] # "good" /\ github[q][<<i, "data">>] \notin Runs
      BY DEF Assets, Kinds, IInv, TypeInv, StoreTyped
    <3>2. <<i, "sig">> \in done => local(<<i, "sig">>) # "good"
      BY <1>2, NamesAssumption
    <3>3. <<i, "data">> \in done => local(<<i, "data">>) \notin Runs
      BY <1>2, NamesAssumption
    <3> QED BY <1>3, <3>1, <3>2, <3>3
  <2>2. \A q \in Runs : StoreTyped(github[q])'
    BY <2>1 DEF StoreTyped
  <2>3. StoreTyped(r2)'
    BY <1>4 DEF IInv, TypeInv, StoreTyped
  <2> QED BY <1>3, <1>4, <2>2, <2>3 DEF IInv, TypeInv, TypeOK
<1>6. StoresGrow
  <2>1. \A a \in Assets : github[r][a] # Absent => github'[r][a] = github[r][a]
    BY <1>1, <1>3
  <2> QED BY <1>3, <1>4, <2>1 DEF StoresGrow
<1>7. Preparations' /\ Redirects'
  BY <1>4, <1>6, PreparationsKept, RedirectsKept DEF redirects
<1>8. Unsaved'
  <2> SUFFICES ASSUME NEW q \in Runs, saved[q] = NoPrep
               PROVE  Untouched(q)' /\ \A p \in Runs, b \in Assets : github'[p][b] # q
    BY <1>4 DEF Unsaved
  <2>1. Untouched(q) /\ \A p \in Runs, b \in Assets : github[p][b] # q
    BY DEF IInv, Unsaved
  <2>2. q # r
    BY <1>0
  <2>3. \A b \in done : local(b) # q
    BY <1>2
  <2>4. \A p \in Runs, b \in Assets : github'[p][b] # q
    BY <1>3, <2>1, <2>3
  <2> QED BY <1>3, <1>4, <2>1, <2>2, <2>4 DEF Untouched
<1>9. Agree'
  <2>1. ASSUME budget'.bad = 0, NEW q \in Runs, NEW b \in Assets
        PROVE  /\ r2'[b] # "bad" /\ github'[q][b] # "bad"
               /\ b[2] = "sig" /\ github'[q][b] # Absent => r2'[b] = github'[q][b]
    <3>1. /\ r2[b] # "bad" /\ github[q][b] # "bad"
          /\ b[2] = "sig" /\ github[q][b] # Absent => r2[b] = github[q][b]
      BY <2>1 DEF IInv, Agree
    <3>2. b \in done => local(b) # "bad" /\ r2[b] = local(b)
      BY <1>0, <1>1, <1>2, <2>1 DEF local
    <3> QED BY <1>3, <1>4, <3>1, <3>2
  <2> QED BY <1>4, <2>1 DEF IInv, Agree
<1> QED BY <1>5, <1>6, <1>7, <1>8, <1>9

LEMMA UploadInv == ASSUME IInv, NEW r \in Runs, UploadAssets(r) PROVE IInv'
<1>0. /\ At(r, "github") /\ Holds(r) /\ UNCHANGED <<artifacts, r2, releases, redirects>>
      /\ budget \in Budget /\ "verify" \in Working /\ job[r] \in Job
      /\ live' = live
  BY DEF UploadAssets, At, Holds, Working, IInv, TypeInv, TypeOK, redirects
<1>1. PICK done \in SUBSET job[r].ghMissing :
        /\ github' = [github EXCEPT ![r] =
              [a \in Assets |-> IF a \in done THEN Local(job[r].sigs, a) ELSE @[a]]]
        /\ \/ Goto(r, "verify") /\ UNCHANGED budget
           \/ End(r, "failed") /\ budget' = [budget EXCEPT !.fails = @ + 1]
  BY DEF UploadAssets
<1>2. budget' \in Budget /\ budget'.bad = budget.bad
  BY <1>0, <1>1 DEF Budget
<1>3. /\ (job' \in [Runs -> Job]) => TypeInv'
      /\ Preparations' /\ Redirects' /\ Unsaved' /\ Agree'
  BY <1>0, <1>1, <1>2, UploadKeeps
<1>4. CASE Goto(r, "verify")
  <2> DEFINE k == [job[r] EXCEPT !.pc = "verify"]
  <2>1. /\ k \in Job /\ k.pc = "verify" /\ job' = [job EXCEPT ![r] = k]
        /\ job'[r].pc = "verify" /\ job'[r].prep = job[r].prep /\ job'[r].sigs = job[r].sigs
    BY <1>0, <1>4, MovedType DEF Job
  <2> HIDE DEF k
  <2>2. PreparationFits(r)'
    BY <1>0, <2>1, PreparedKept DEF At, Prepared
  <2>3. JobFits(r)'
    BY <2>1, <2>2 DEF JobFits, UploadFits, RedirectFits, At, Uploaded
  <2> QED BY <1>0, <1>2, <1>3, <2>1, <2>3, WorkerInv
<1>5. CASE End(r, "failed")
  <2> DEFINE k == Clean(r, "failed")
  <2>1. k \in Job /\ k.pc = "failed" /\ job' = [job EXCEPT ![r] = k]
    BY <1>5, CleanType DEF End, Resting
  <2> HIDE DEF k
  <2>2. job'[r] = Clean(r, "failed")
    BY <2>1 DEF k, IInv, TypeInv, TypeOK
  <2>3. JobFits(r)'
    BY <2>2, RestingFits DEF Resting
  <2> QED BY <1>0, <1>2, <1>3, <2>1, <2>3, WorkerInv
<1> QED BY <1>1, <1>4, <1>5

-----------------------------------------------------------------------------
(***************************************************************************)
(* The redirect moves.                                                     *)
(***************************************************************************)
\* What a run that may move the redirect knows of it: either its own master is
\* live, or the one it was merged onto is, and its own has never been.
LEMMA MoverNew ==
    ASSUME IInv, NEW r \in Runs, job[r].pc \in Prepared, MayMove(r), live.json # r
    PROVE  /\ r \notin everLive /\ saved[r].base = live.json
           /\ \A m \in Served : saved[m].base # r
<1>1. saved[r].base = live.json
  BY DEF IInv, JobFits, PreparationFits, MayMove
<1>2. r \notin everLive
  BY <1>1, NamesAssumption DEF IInv, Redirects, Served
<1>3. ASSUME NEW m \in Served PROVE saved[m].base # r
  <2>1. m \in Runs /\ saved[m] # NoPrep
    BY DEF IInv, Redirects, Served, TypeInv, TypeOK, Masters
  <2>2. saved[m].base \in everLive
    BY <2>1 DEF IInv, Preparations, Merged
  <2> QED BY <1>2, <2>2
<1> QED BY <1>1, <1>2, <1>3

LEMMA JsonInv == ASSUME IInv, NEW r \in Runs, PutRedirectJson(r) PROVE IInv'
<1> DEFINE k == [job[r] EXCEPT !.pc = "bundle"]
<1>0. /\ At(r, "json") /\ Holds(r) /\ UNCHANGED <<artifacts, stores, cdn, mirror, budget>>
      /\ live' = [live EXCEPT !.json = r] /\ everLive' = everLive \union {r}
      /\ Goto(r, "bundle") /\ "bundle" \in Working /\ job[r] \in Job
      /\ live \in [json : Masters, bundle : Masters] /\ r \in Masters
      /\ job[r].pc \in Prepared /\ saved[r] # NoPrep /\ Complete(r) /\ MayMove(r)
      /\ Merged(r, saved[r])
  BY DEF PutRedirectJson, At, Holds, Working, Masters, IInv, TypeInv, TypeOK, Prepared, Uploaded,
         JobFits, PreparationFits, UploadFits, RedirectFits, Preparations
<1>1. /\ k \in Job /\ k.pc = "bundle" /\ job' = [job EXCEPT ![r] = k]
      /\ job'[r].pc = "bundle" /\ job'[r].prep = job[r].prep /\ job'[r].sigs = job[r].sigs
  BY <1>0, MovedType DEF Job
<1>2. /\ live'.json = r /\ live'.bundle = live.bundle
      /\ live' \in [json : Masters, bundle : Masters]
      /\ saved' = saved /\ expired' = expired /\ r2' = r2 /\ github' = github
      /\ releases' = releases /\ cdn' = cdn /\ mirror' = mirror /\ budget' = budget
  BY <1>0 DEF artifacts, stores
<1> HIDE DEF k
<1>3. (job' \in [Runs -> Job]) => TypeInv'
  BY <1>0, <1>2 DEF IInv, TypeInv, TypeOK, StoreTyped
<1>4. Preparations'
  BY <1>0, <1>2, PreparationsKept
<1>5. Redirects'
  <2>1. \A m \in Runs : Complete(m) => Complete(m)'
    BY <1>2 DEF Complete, Available, PacksOf
  <2>2. \A m \in Served' : m \in Runs /\ (m \in Served \/ m = r)
    BY <1>0 DEF Served, IInv, TypeInv, TypeOK, Masters
  <2>3. ASSUME NEW m \in Served'
        PROVE  saved'[m] # NoPrep /\ saved'[m].base # live'.json /\ Complete(m)'
    <3>1. m \in Runs /\ (m \in Served => saved[m] # NoPrep /\ saved[m].base # live.json /\ Complete(m))
      BY <2>2 DEF IInv, Redirects
    <3>2. saved[m] # NoPrep /\ Complete(m)
      BY <1>0, <2>2, <3>1
    <3>3. saved[m].base # r
      <4>1. CASE live.json = r
        <5>1. r \in Served
          BY <4>1, NamesAssumption DEF IInv, Redirects, Served
        <5> QED BY <2>2, <3>1, <4>1, <5>1
      <4>2. CASE live.json # r
        <5>1. saved[r].base = live.json /\ (m \in Served => saved[m].base # r)
          BY <1>0, <4>2, MoverNew
        <5> QED BY <2>2, <4>2, <5>1
      <4> QED BY <4>1, <4>2
    <3> QED BY <1>2, <2>1, <3>1, <3>2, <3>3
  <2>4. /\ {Genesis, live'.json, live'.bundle, cdn'.json, cdn'.bundle} \subseteq everLive'
        /\ {mirror'.json, mirror'.bundle} \subseteq everLive' \union {Absent}
    BY <1>0, <1>2 DEF IInv, Redirects
  <2> QED BY <2>3, <2>4 DEF Redirects
<1>6. Unsaved' /\ Agree'
  BY <1>0, <1>2 DEF IInv, Unsaved, Untouched, Agree
<1>7. JobFits(r)'
  <2>1. PreparationFits(r)'
    BY <1>0, <1>1, PreparedKept DEF At, Prepared
  <2>2. Complete(r)'
    BY <1>0, <1>2 DEF Complete, Available, PacksOf
  <2> QED BY <1>1, <1>2, <2>1, <2>2 DEF JobFits, UploadFits, RedirectFits, At
<1> QED BY <1>0, <1>1, <1>2, <1>3, <1>4, <1>5, <1>6, <1>7, WorkerInv

LEMMA BundleInv == ASSUME IInv, NEW r \in Runs, PutRedirectBundle(r) PROVE IInv'
<1> DEFINE k == [job[r] EXCEPT !.pc = "mirror"]
<1>0. /\ At(r, "bundle") /\ Holds(r)
      /\ UNCHANGED <<artifacts, stores, cdn, mirror, everLive, budget>>
      /\ live' = [live EXCEPT !.bundle = r]
      /\ Goto(r, "mirror") /\ "mirror" \in Working /\ job[r] \in Job
      /\ live \in [json : Masters, bundle : Masters] /\ r \in Masters
      /\ job[r].pc \in Prepared /\ saved[r] # NoPrep /\ Complete(r) /\ live.json = r
  BY DEF PutRedirectBundle, At, Holds, Working, Masters, IInv, TypeInv, TypeOK, Prepared,
         Uploaded, JobFits, PreparationFits, UploadFits, RedirectFits
<1>1. /\ k \in Job /\ k.pc = "mirror" /\ job' = [job EXCEPT ![r] = k]
      /\ job'[r].pc = "mirror" /\ job'[r].prep = job[r].prep /\ job'[r].sigs = job[r].sigs
  BY <1>0, MovedType DEF Job
<1>2. /\ live'.json = r /\ live'.bundle = r /\ live' = Redirect(r)
      /\ live' \in [json : Masters, bundle : Masters]
      /\ saved' = saved /\ expired' = expired /\ r2' = r2 /\ github' = github
      /\ releases' = releases /\ cdn' = cdn /\ mirror' = mirror /\ everLive' = everLive
      /\ budget' = budget
  BY <1>0 DEF artifacts, stores, Redirect
<1> HIDE DEF k
<1>3. (job' \in [Runs -> Job]) => TypeInv'
  BY <1>0, <1>2 DEF IInv, TypeInv, TypeOK, StoreTyped
<1>4. Preparations'
  BY <1>0, <1>2, PreparationsKept
<1>5. Redirects'
  <2>1. \A m \in Masters : Complete(m) => Complete(m)'
    BY <1>2 DEF Complete, Available, PacksOf
  <2>2. Served' = Served /\ Served \subseteq Masters
    BY <1>2 DEF Served, IInv, TypeInv, TypeOK
  <2> QED BY <1>0, <1>2, <2>1, <2>2 DEF IInv, Redirects
<1>6. Unsaved' /\ Agree'
  BY <1>0, <1>2 DEF IInv, Unsaved, Untouched, Agree
<1>7. JobFits(r)'
  <2>1. PreparationFits(r)'
    BY <1>0, <1>1, PreparedKept DEF At, Prepared
  <2>2. Complete(r)'
    BY <1>0, <1>2 DEF Complete, Available, PacksOf
  <2> QED BY <1>1, <1>2, <2>1, <2>2 DEF JobFits, UploadFits, RedirectFits, At
<1> QED BY <1>0, <1>1, <1>2, <1>3, <1>4, <1>5, <1>6, <1>7, WorkerInv

LEMMA MirrorInv == ASSUME IInv, NEW r \in Runs, UploadMirror(r) PROVE IInv'
<1>0. /\ At(r, "mirror") /\ Holds(r) /\ UNCHANGED <<artifacts, stores, live, cdn, everLive>>
      /\ saved[r] # NoPrep /\ live = Redirect(r) /\ budget \in Budget
  BY DEF UploadMirror, At, Holds, Working, IInv, TypeInv, Prepared, JobFits,
         PreparationFits, RedirectFits
<1>1. /\ mirror'.json \in {mirror.json, Absent, r} /\ mirror'.bundle \in {mirror.bundle, Absent, r}
      /\ budget' \in Budget /\ budget'.bad = budget.bad
      /\ \E pc \in {"done", "failed"} : End(r, pc)
  <2>1. CASE mirror' = Redirect(r) /\ End(r, "done") /\ UNCHANGED budget
    BY <1>0, <2>1 DEF Redirect
  <2>2. CASE /\ \E j \in {mirror.json, Absent, r}, b \in {mirror.bundle, Absent, r} :
                   mirror' = [json |-> j, bundle |-> b]
             /\ End(r, "failed") /\ budget' = [budget EXCEPT !.fails = @ + 1]
    BY <1>0, <2>2 DEF Budget
  <2> QED BY <2>1, <2>2 DEF UploadMirror
<1>2. PICK pc \in {"done", "failed"} : End(r, pc)
  BY <1>1
<1> DEFINE k == Clean(r, pc)
<1>3. k \in Job /\ k.pc = pc /\ job' = [job EXCEPT ![r] = k]
  BY <1>2, CleanType DEF End, Resting
<1> HIDE DEF k
<1>4. JobFits(r)'
  <2>1. job'[r] = Clean(r, pc)
    BY <1>3 DEF k, IInv, TypeInv, TypeOK
  <2> QED BY <2>1, RestingFits DEF Resting
<1>5. /\ saved' = saved /\ expired' = expired /\ r2' = r2 /\ github' = github
      /\ releases' = releases /\ cdn' = cdn /\ live' = live /\ everLive' = everLive
      /\ r \in everLive /\ r \in Masters
  BY <1>0 DEF artifacts, stores, Redirect, IInv, Redirects, Masters
<1>6. (job' \in [Runs -> Job]) => TypeInv'
  BY <1>1, <1>5 DEF IInv, TypeInv, TypeOK, StoreTyped
<1>7. Preparations'
  BY <1>5, PreparationsKept
<1>8. Redirects'
  <2>1. \A m \in Masters : Complete(m) => Complete(m)'
    BY <1>5 DEF Complete, Available, PacksOf
  <2>2. Served' = Served /\ Served \subseteq Masters
    BY <1>5 DEF Served, IInv, TypeInv, TypeOK
  <2> QED BY <1>1, <1>5, <2>1, <2>2 DEF IInv, Redirects
<1>9. Unsaved' /\ Agree'
  BY <1>0, <1>1, <1>5, NamesAssumption DEF IInv, Unsaved, Untouched, Agree
<1>10. k.pc \notin {"conflict", "refused"}
  BY <1>3
<1> QED BY <1>0, <1>1, <1>3, <1>4, <1>5, <1>6, <1>7, <1>8, <1>9, <1>10, WorkerInv

-----------------------------------------------------------------------------
(***************************************************************************)
(* The environment, and every step.                                        *)
(***************************************************************************)
\* No job moves; the stores and what R2 serves stay.
LEMMA OutsideInv ==
    ASSUME IInv, UNCHANGED <<job, saved, stores, live, mirror, everLive>>,
           expired' \subseteq Runs, cdn' \in [json : everLive, bundle : everLive],
           budget' \in Budget, budget'.bad = budget.bad
    PROVE  IInv'
<1> USE DEF stores
<1>1. TypeInv'
  <2>1. everLive \subseteq Masters
    BY DEF IInv, TypeInv, TypeOK
  <2> QED BY <2>1 DEF IInv, TypeInv, TypeOK, StoreTyped
<1>2. Exclusive'
  BY DEF IInv, Exclusive, Holds
<1>3. Preparations'
  BY PreparationsKept
<1>4. Redirects'
  <2>1. \A m \in Served : Complete(m) => Complete(m)'
    BY DEF Complete, Available, PacksOf
  <2>2. Served' = Served
    BY DEF Served
  <2> QED BY <2>1, <2>2 DEF IInv, Redirects
<1>5. Unsaved' /\ Agree'
  BY DEF IInv, Unsaved, Untouched, Agree
<1>6. NoSelfConflict' /\ OwnRerunAccepted'
  BY DEF IInv, NoSelfConflict, OwnRerunAccepted, At
<1>7. \A r \in Runs : JobFits(r)'
  BY Undisturbed DEF IInv
<1> QED BY <1>1, <1>2, <1>3, <1>4, <1>5, <1>6, <1>7 DEF IInv

LEMMA ExpireInv == ASSUME IInv, NEW r \in Runs, Expire(r) PROVE IInv'
<1>1. budget \in Budget /\ expired \subseteq Runs /\ cdn \in [json : everLive, bundle : everLive]
  BY DEF IInv, TypeInv, TypeOK, Redirects
<1>2. budget' \in Budget /\ budget'.bad = budget.bad
  BY <1>1 DEF Expire, Budget
<1>3. UNCHANGED <<job, saved, stores, live, cdn, mirror, everLive>> /\ expired' = expired \union {r}
  BY DEF Expire, redirects
<1> QED BY <1>1, <1>2, <1>3, OutsideInv

LEMMA RefreshInv == ASSUME IInv, RefreshCdn PROVE IInv'
<1>1. /\ budget \in Budget /\ expired \subseteq Runs
      /\ cdn \in [json : everLive, bundle : everLive] /\ {live.json, live.bundle} \subseteq everLive
  BY DEF IInv, TypeInv, TypeOK, Redirects
<1>2. UNCHANGED <<job, saved, expired, stores, live, mirror, everLive, budget>>
  BY DEF RefreshCdn, artifacts
<1>3. cdn' \in [json : everLive, bundle : everLive]
  BY <1>1 DEF RefreshCdn
<1> QED BY <1>1, <1>2, <1>3, OutsideInv

LEMMA InitInv == Init => IInv
<1> SUFFICES ASSUME Init PROVE IInv
  OBVIOUS
<1>1. \A r \in Runs : /\ job[r] = Clean(r, "idle") /\ job[r].pc = "idle" /\ job[r] \in Job
                      /\ job[r].sigs = [i \in Items |-> r]
  BY CleanType DEF Init, Resting
<1>2. TypeInv
  BY <1>1, NoPrepType, NamesAssumption
     DEF Init, TypeInv, TypeOK, StoreTyped, Budget, Stored, Assets, Kinds, Redirect, Masters
<1>3. Exclusive
  BY <1>1 DEF Exclusive, Holds, Working
<1>4. Preparations /\ Redirects
  BY DEF Init, Preparations, Redirects, Redirect, Served
<1>5. Unsaved
  BY NamesAssumption DEF Init, Unsaved, Untouched, Redirect, Assets, Kinds, Items
<1>6. Agree
  BY NamesAssumption DEF Init, Agree, Assets, Kinds
<1>7. NoSelfConflict /\ OwnRerunAccepted
  BY <1>1 DEF NoSelfConflict, OwnRerunAccepted, At
<1>8. \A r \in Runs : JobFits(r)
  BY <1>1 DEF JobFits, PreparationFits, UploadFits, RedirectFits, At, Fresh, Prepared, Uploaded
<1> QED BY <1>2, <1>3, <1>4, <1>5, <1>6, <1>7, <1>8 DEF IInv

LEMMA NextInv == IInv /\ [Next]_vars => IInv'
<1> SUFFICES ASSUME IInv, [Next]_vars PROVE IInv'
  OBVIOUS
<1>1. CASE RefreshCdn
  BY <1>1, RefreshInv
<1>2. ASSUME NEW r \in Runs,
             Trigger(r) \/ Rerun(r) \/ Start(r) \/ Step(r) \/ Fail(r) \/ Expire(r)
      PROVE  IInv'
  <2> HIDE DEF IInv
  <2>1. CASE Trigger(r) \/ Rerun(r) \/ Start(r)
    BY <2>1, TriggerInv, RerunInv, StartInv
  <2>2. CASE Fail(r) \/ Expire(r)
    BY <2>2, FailInv, ExpireInv
  <2>3. CASE Restore(r) \/ ResolveMergeBase(r) \/ PrepareAndSign(r) \/ SavePreparation(r)
    BY <2>3, RestoreInv, ResolveInv, PrepareInv, SaveInv
  <2>4. CASE Preflight(r) \/ PutAsset(r) \/ CreateRelease(r) \/ UploadAssets(r)
    BY <2>4, PreflightInv, PutAssetInv, ReleaseInv, UploadInv
  <2>5. CASE VerifyPublicCopies(r) \/ CompareRedirect(r)
    BY <2>5, VerifyInv, CompareInv
  <2>6. CASE PutRedirectJson(r) \/ PutRedirectBundle(r) \/ UploadMirror(r)
    BY <2>6, JsonInv, BundleInv, MirrorInv
  <2> QED BY <1>2, <2>1, <2>2, <2>3, <2>4, <2>5, <2>6 DEF Step
<1>3. CASE UNCHANGED vars
  <2>1. /\ UNCHANGED <<job, saved, stores, live, mirror, everLive>>
        /\ expired' = expired /\ cdn' = cdn /\ budget' = budget
    BY <1>3 DEF vars, artifacts, redirects
  <2>2. /\ expired \subseteq Runs /\ cdn \in [json : everLive, bundle : everLive]
        /\ budget \in Budget
    BY DEF IInv, TypeInv, TypeOK, Redirects
  <2> QED BY <2>1, <2>2, OutsideInv
<1> QED BY <1>1, <1>2, <1>3 DEF Next

-----------------------------------------------------------------------------
(***************************************************************************)
(* The inductive invariant holds in every behaviour of the publish job,    *)
(* whatever the number of runs, packs, failures, reruns and mishaps.       *)
(***************************************************************************)
THEOREM Invariant == Spec => []IInv
BY InitInv, NextInv, PTL DEF Spec

(***************************************************************************)
(* Jobs, stores, preparations and redirects keep their types.              *)
(***************************************************************************)
THEOREM TypeCorrect == Spec => []TypeOK
<1>1. IInv => TypeOK
  BY DEF IInv, TypeInv
<1> QED BY <1>1, Invariant, PTL

(***************************************************************************)
(* The redirect moves last (publish_generation): whatever master R2, a     *)
(* stale CDN copy or a half-replaced mirror names, it and every rule pack  *)
(* of its catalog are intact on both stores.                               *)
(***************************************************************************)
THEOREM ServedIsComplete == Spec => []ServedComplete
<1>1. IInv => ServedComplete
  <2> SUFFICES ASSUME IInv, NEW m \in ({live.json, cdn.json, mirror.json} \ {Genesis, Absent})
               PROVE  Complete(m)
    BY DEF ServedComplete, Complete
  <2>1. m \in Served
    BY DEF IInv, Redirects, Served
  <2> QED BY <2>1 DEF IInv, Redirects
<1> QED BY <1>1, Invariant, PTL

(***************************************************************************)
(* A run without a saved preparation has left nothing anywhere             *)
(* (catalog-v3-preparation.sh): a rerun may sign anew.                     *)
(***************************************************************************)
THEOREM AbsentIsUntouched == Spec => []AbsentMeansUntouched
<1>1. IInv => AbsentMeansUntouched
  BY DEF IInv, Unsaved, AbsentMeansUntouched
<1> QED BY <1>1, Invariant, PTL

(***************************************************************************)
(* No run is refused over assets unless an upload was damaged              *)
(* (preflight_store): whatever reruns and packs shared by several runs.    *)
(***************************************************************************)
THEOREM NeverSelfConflicts == Spec => []NoSelfConflict
<1>1. IInv => NoSelfConflict
  BY DEF IInv
<1> QED BY <1>1, Invariant, PTL

(***************************************************************************)
(* The run whose master is live is never refused (phase 4).                *)
(***************************************************************************)
THEOREM OwnRerunIsAccepted == Spec => []OwnRerunAccepted
<1>1. IInv => OwnRerunAccepted
  BY DEF IInv
<1> QED BY <1>1, Invariant, PTL

(***************************************************************************)
(* What a store holds under a hashed name is never replaced.               *)
(***************************************************************************)
LEMMA StepGrows == IInv /\ [Next]_vars => StoresGrow
<1> SUFFICES ASSUME IInv, [Next]_vars PROVE StoresGrow
  OBVIOUS
<1>1. CASE UNCHANGED <<r2, github>>
  BY <1>1 DEF StoresGrow
<1>2. ASSUME NEW r \in Runs, PutAsset(r) PROVE StoresGrow
  <2>1. github' = github /\ r2 \in [Assets -> Stored] /\ job[r].r2Missing = Missing(r2, r)
    BY <1>2 DEF PutAsset, IInv, TypeInv, TypeOK, JobFits, UploadFits
  <2>2. r2' = r2 \/ \E a \in Missing(r2, r) : \E v : r2' = [r2 EXCEPT ![a] = v]
    BY <1>2, <2>1 DEF PutAsset, NextUp
  <2>3. \A a \in Assets : r2[a] # Absent => r2'[a] = r2[a]
    BY <2>1, <2>2 DEF Missing
  <2> QED BY <2>1, <2>3 DEF StoresGrow
<1>3. ASSUME NEW r \in Runs, UploadAssets(r) PROVE StoresGrow
  <2>1. PICK done \in SUBSET job[r].ghMissing :
          github' = [github EXCEPT ![r] =
              [a \in Assets |-> IF a \in done THEN Local(job[r].sigs, a) ELSE @[a]]]
    BY <1>3 DEF UploadAssets
  <2>2. budget' \in Budget /\ budget'.bad = budget.bad
    <3>1. budget \in Budget
      BY DEF IInv, TypeInv
    <3>2. budget' = budget \/ budget' = [budget EXCEPT !.fails = @ + 1]
      BY <1>3 DEF UploadAssets
    <3> QED BY <3>1, <3>2 DEF Budget
  <2>3. At(r, "github") /\ UNCHANGED <<artifacts, r2, releases, redirects>>
    BY <1>3 DEF UploadAssets
  <2> QED BY <2>1, <2>2, <2>3, UploadKeeps
<1>4. ASSUME NEW r \in Runs, Step(r), ~PutAsset(r), ~UploadAssets(r)
      PROVE  UNCHANGED <<r2, github>>
  BY <1>4 DEF Step, stores, Restore, ResolveMergeBase, PrepareAndSign, SavePreparation,
     Preflight, CreateRelease, VerifyPublicCopies, CompareRedirect, PutRedirectJson,
     PutRedirectBundle, UploadMirror
<1>5. ASSUME NEW r \in Runs, Trigger(r) \/ Rerun(r) \/ Start(r) \/ Fail(r) \/ Expire(r)
      PROVE  UNCHANGED <<r2, github>>
  BY <1>5 DEF stores, Trigger, Rerun, Start, Fail, Expire
<1>6. RefreshCdn \/ UNCHANGED vars => UNCHANGED <<r2, github>>
  BY DEF RefreshCdn, vars, stores
<1> QED BY <1>1, <1>2, <1>3, <1>4, <1>5, <1>6 DEF Next

THEOREM HashedStay == Spec => HashedImmutable
<1>1. IInv /\ [Next]_vars => StoresGrow
  BY StepGrows
<1>2. Spec => [][StoresGrow]_vars
  BY <1>1, Invariant, PTL DEF Spec
<1> QED BY <1>2 DEF StoresGrow, HashedImmutable

(***************************************************************************)
(* The mirror only ever takes a file from what R2 serves: a run reaches    *)
(* its upload with its own redirect live, and an old one is refused.       *)
(***************************************************************************)
LEMMA StepMirrors ==
    IInv /\ [Next]_vars => /\ mirror'.json \in {mirror.json, Absent, live.json}
                           /\ mirror'.bundle \in {mirror.bundle, Absent, live.bundle}
<1> SUFFICES ASSUME IInv, [Next]_vars
             PROVE  /\ mirror'.json \in {mirror.json, Absent, live.json}
                    /\ mirror'.bundle \in {mirror.bundle, Absent, live.bundle}
  OBVIOUS
<1>1. CASE mirror' = mirror
  BY <1>1
<1>2. ASSUME NEW r \in Runs, UploadMirror(r)
      PROVE  /\ mirror'.json \in {mirror.json, Absent, live.json}
             /\ mirror'.bundle \in {mirror.bundle, Absent, live.bundle}
  <2>1. live = Redirect(r)
    BY <1>2 DEF UploadMirror, IInv, JobFits, RedirectFits
  <2> QED BY <1>2, <2>1 DEF UploadMirror, Redirect
<1>3. ASSUME NEW r \in Runs, Step(r), ~UploadMirror(r) PROVE mirror' = mirror
  BY <1>3 DEF Step, redirects, Restore, ResolveMergeBase, PrepareAndSign, SavePreparation,
     Preflight, PutAsset, CreateRelease, UploadAssets, VerifyPublicCopies, CompareRedirect,
     PutRedirectJson, PutRedirectBundle
<1>4. ASSUME NEW r \in Runs, Trigger(r) \/ Rerun(r) \/ Start(r) \/ Fail(r) \/ Expire(r)
      PROVE  mirror' = mirror
  BY <1>4 DEF redirects, Trigger, Rerun, Start, Fail, Expire
<1>5. RefreshCdn \/ UNCHANGED vars => mirror' = mirror
  BY DEF RefreshCdn, vars, redirects
<1> QED BY <1>1, <1>2, <1>3, <1>4, <1>5 DEF Next

THEOREM MirrorFollowing == Spec => MirrorFollows
BY StepMirrors, Invariant, PTL DEF Spec, MirrorFollows

-----------------------------------------------------------------------------
(***************************************************************************)
(* The refinement.  R2's redirect JSON is the pointer; what a master       *)
(* contains is fixed when it is saved, long before it is served.           *)
(***************************************************************************)
Entry(m) == [generation |-> Generation(m), runs |-> RunsOf(m), repair |-> IsRepair(m)]
Catalogued == [m \in everLive |-> Entry(m)]

\* Preparations are saved once.
LEMMA SavedOnce ==
    IInv /\ [Next]_vars => \A q \in Runs : saved[q] # NoPrep => saved'[q] = saved[q]
<1> SUFFICES ASSUME IInv, [Next]_vars, NEW q \in Runs, saved[q] # NoPrep
             PROVE  saved'[q] = saved[q]
  OBVIOUS
<1>1. ASSUME NEW r \in Runs, SavePreparation(r) PROVE saved'[q] = saved[q]
  <2>1. saved[r] = NoPrep /\ saved \in [Runs -> Prep]
    BY <1>1 DEF SavePreparation, IInv, TypeInv, TypeOK, JobFits, PreparationFits, At
  <2> QED BY <1>1, <2>1 DEF SavePreparation
<1>2. ASSUME NEW r \in Runs, Step(r), ~SavePreparation(r) PROVE saved' = saved
  BY <1>2 DEF Step, artifacts, Restore, ResolveMergeBase, PrepareAndSign,
     Preflight, PutAsset, CreateRelease, UploadAssets, VerifyPublicCopies, CompareRedirect,
     PutRedirectJson, PutRedirectBundle, UploadMirror
<1>3. ASSUME NEW r \in Runs, Trigger(r) \/ Rerun(r) \/ Start(r) \/ Fail(r) \/ Expire(r)
      PROVE  saved' = saved
  BY <1>3 DEF artifacts, Trigger, Rerun, Start, Fail, Expire
<1>4. RefreshCdn \/ UNCHANGED vars => saved' = saved
  BY DEF RefreshCdn, vars, artifacts
<1> QED BY <1>1, <1>2, <1>3, <1>4 DEF Next

\* What a master that has been live is catalogued as does not change.
LEMMA EntryKept == IInv /\ [Next]_vars => \A m \in everLive : Entry(m)' = Entry(m)
<1> SUFFICES ASSUME IInv, [Next]_vars, NEW m \in everLive PROVE Entry(m)' = Entry(m)
  OBVIOUS
<1>1. \A q \in Runs : saved[q] # NoPrep => saved'[q] = saved[q]
  BY SavedOnce
<1>2. Generation(m)' = Generation(m) /\ RunsOf(m)' = RunsOf(m)
  BY <1>1, CatalogKept
<1>3. m # Genesis => saved'[m] = saved[m]
  BY <1>1 DEF IInv, Redirects, Served, TypeInv, TypeOK, Masters
<1>4. IsRepair(m)' = IsRepair(m)
  <2>1. CASE m = Genesis
    BY <2>1 DEF IsRepair
  <2>2. CASE m # Genesis
    BY <1>3, <2>2 DEF IsRepair
  <2> QED BY <2>1, <2>2
<1> QED BY <1>2, <1>4 DEF Entry

LEMMA StepPoints == IInv /\ [Next]_vars => [Pointer!Next]_(Pointer!pointerVars)
<1> SUFFICES ASSUME IInv, [Next]_vars PROVE [Pointer!Next]_<<live.json, Catalogued>>
  BY DEF Pointer!pointerVars, Catalogued, Entry
<1>1. \A m \in everLive : Entry(m)' = Entry(m)
  BY EntryKept
<1>2. CASE live'.json = live.json /\ everLive' = everLive
  <2>1. Catalogued' = Catalogued
    BY <1>1, <1>2 DEF Catalogued
  <2> QED BY <1>2, <2>1
<1>3. ASSUME NEW r \in Runs, PutRedirectJson(r), live.json # r
      PROVE  Pointer!Next
  <2> DEFINE onto == saved[r].onto
  <2>1. /\ live \in [json : Masters, bundle : Masters]
        /\ job[r].pc \in Prepared /\ saved[r] # NoPrep /\ MayMove(r) /\ Merged(r, saved[r])
    BY <1>3 DEF PutRedirectJson, At, Prepared, IInv, TypeInv, JobFits, PreparationFits,
                RedirectFits, Preparations
  <2>2. live'.json = r /\ everLive' = everLive \union {r} /\ saved' = saved
    BY <1>3, <2>1 DEF PutRedirectJson, artifacts
  <2>3. r \notin everLive /\ saved[r].base = live.json /\ r # Genesis
    BY <1>3, <2>1, MoverNew, NamesAssumption
  <2>4. /\ onto \in everLive /\ Generation(r)' = Generation(onto) + 1
        /\ RunsOf(r)' = RunsOf(onto) \union {r}
    BY <2>1, <2>2, <2>3 DEF Merged, Generation, RunsOf
  <2>5. IsRepair(r)' = (onto # live.json)
    BY <2>2, <2>3 DEF IsRepair
  <2>6. DOMAIN Catalogued = everLive /\ Catalogued[onto] = Entry(onto)
    BY <2>4 DEF Catalogued
  <2>7. Entry(r)' = [generation |-> Catalogued[onto].generation + 1,
                     runs |-> Catalogued[onto].runs \union {r}, repair |-> onto # live.json]
    BY <2>4, <2>5, <2>6 DEF Entry
  <2>8. Catalogued' = [m \in DOMAIN Catalogued \union {r} |->
                         IF m = r THEN [generation |-> Catalogued[onto].generation + 1,
                                        runs |-> Catalogued[onto].runs \union {r},
                                        repair |-> onto # live.json]
                         ELSE Catalogued[m]]
    <3> HIDE DEF onto
    <3> DEFINE new == [generation |-> Catalogued[onto].generation + 1,
                       runs |-> Catalogued[onto].runs \union {r}, repair |-> onto # live.json]
    <3> HIDE DEF new
    <3>1. Entry(r)' = new
      BY <2>7 DEF new
    <3>2. Catalogued' = [m \in everLive \union {r} |-> Entry(m)']
      BY <2>2 DEF Catalogued
    <3>3. \A m \in everLive : Catalogued[m] = Entry(m) /\ Entry(m)' = Entry(m)
      BY <1>1 DEF Catalogued
    <3>4. Catalogued' = [m \in everLive \union {r} |-> IF m = r THEN new ELSE Catalogued[m]]
      BY <2>3, <3>1, <3>2, <3>3
    <3> QED BY <2>6, <3>4 DEF new
  <2>9. Pointer!MoveTo(r, onto)
    BY <2>2, <2>3, <2>6, <2>8 DEF Pointer!MoveTo, Pointer!MergedOnto, Pointer!Published, Catalogued, Entry
  <2> QED BY <2>3, <2>4, <2>6, <2>9
          DEF Pointer!Next, Pointer!Publish, Pointer!Repair, Pointer!Published, Catalogued, Entry
<1>4. ASSUME NEW r \in Runs, PutRedirectJson(r), live.json = r
      PROVE  live'.json = live.json /\ everLive' = everLive
  BY <1>4 DEF PutRedirectJson, IInv, TypeInv, Redirects
<1>5. ASSUME NEW r \in Runs, Step(r), ~PutRedirectJson(r)
      PROVE  live'.json = live.json /\ everLive' = everLive
  <2>1. live \in [json : Masters, bundle : Masters]
    BY DEF IInv, TypeInv
  <2> QED BY <1>5, <2>1 DEF Step, redirects, Restore, ResolveMergeBase, PrepareAndSign,
     SavePreparation, Preflight, PutAsset, CreateRelease, UploadAssets, VerifyPublicCopies,
     CompareRedirect, PutRedirectBundle, UploadMirror
<1>6. ASSUME NEW r \in Runs, Trigger(r) \/ Rerun(r) \/ Start(r) \/ Fail(r) \/ Expire(r)
      PROVE  live'.json = live.json /\ everLive' = everLive
  BY <1>6 DEF redirects, Trigger, Rerun, Start, Fail, Expire
<1>7. RefreshCdn \/ UNCHANGED vars => live'.json = live.json /\ everLive' = everLive
  BY DEF RefreshCdn, vars, redirects
<1> QED BY <1>2, <1>3, <1>4, <1>5, <1>6, <1>7 DEF Next

(***************************************************************************)
(* Publishing implements the atomic pointer of CatalogPointer: the first   *)
(* write of a redirect that was not live publishes a master merged onto    *)
(* the one live until then, or onto the one an operator named; every other *)
(* step -- a rerun of the run that is live, the bundle, the cdn, the       *)
(* mirror -- leaves the pointer alone.                                     *)
(***************************************************************************)
THEOREM Refinement == Spec => ImplementsPointer
<1>1. Init => Pointer!Init
  <2>1. IsRepair(Genesis) = FALSE
    BY DEF IsRepair
  <2>2. Entry(Genesis) = [generation |-> 1, runs |-> {}, repair |-> FALSE]
    BY <2>1 DEF Entry, Generation, RunsOf
  <2>3. Init => Catalogued = [m \in {Genesis} |-> Entry(Genesis)] /\ live.json = Genesis
    BY DEF Init, Catalogued, Redirect
  <2> QED BY <2>2, <2>3 DEF Pointer!Init, Catalogued, Entry
<1>2. Spec => [][Pointer!Next]_(Pointer!pointerVars)
  BY StepPoints, Invariant, PTL DEF Spec
<1> QED BY <1>1, <1>2, PTL DEF Spec, ImplementsPointer, Pointer!Spec
=============================================================================
