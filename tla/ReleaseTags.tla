---------------------------- MODULE ReleaseTags -----------------------------
(***************************************************************************)
(* cargo xtask release-publish-tags (src/xtask/src/main.rs): the signed    *)
(* tags that release plugins and rule packs.  A release is one component   *)
(* tag per plugin or pack and one trigger tag, whose push starts the       *)
(* release workflow and whose body lists the plugin components.  A         *)
(* maintainer publishes from a clone that keeps its local tags; the        *)
(* rule-pack-publish workflow resumes (--resume) the one component of a    *)
(* merged refresh pull request from a fresh checkout each time.  A run can *)
(* stop between any two steps and clones do not see each other.            *)
(***************************************************************************)
EXTENDS Naturals, FiniteSets

CONSTANTS
    Clones,             \* clones of the repository that publish
    Fresh,              \* those that are checked out anew for every run
    Requests,           \* what the workflow resumes: <<merge commit, component>>
    Plugins, Packs,
    Commits,            \* merge commits of release pull requests, in the order of main
    Version,            \* component |-> commit |-> the version its manifest has there
    Line,               \* version |-> its major/minor line
    MaxRuns,            \* BOUND: runs a maintainer starts
    MaxInterrupts       \* BOUND: runs that stop half way

Components == Plugins \union Packs

ASSUME ReleaseAssumption ==
    /\ Fresh \subseteq Clones
    /\ Requests \subseteq Commits \X Components
    /\ Plugins \intersect Packs = {}
    /\ Commits \subseteq Nat \ {0}
    /\ Version \in [Components -> [Commits -> Nat]]
    /\ {MaxRuns, MaxInterrupts} \subseteq Nat

VARIABLES
    local,              \* per clone: the tag objects in it
    remote,             \* the tag objects on origin
    run,                \* per clone: the publication under way in it
    serial,             \* per clone: distinguishes the objects it signs at different times
    manual,             \* history: commits a maintainer began to publish at
    raced,              \* history: those of them where another run was under way too
    adopted,            \* history: triggers of one clone only that a rule pack's resume took over
    budget              \* BOUND: what has been used of the bounds

vars == <<local, remote, run, serial, manual, raced, adopted, budget>>

\* plugins-v3/<id>/v<version>, rule-packs/<id>/v<version>
ComponentTag(k, c) == [kind |-> "component", of |-> k, number |-> Version[k][c], at |-> 0]
\* plugins-v3/release/<unix seconds>-<commit>: never the same name twice
DatedTrigger(p, c) == [kind |-> "release", of |-> p, number |-> serial[p], at |-> c]
\* plugins-v3/release/resume-<component tag>-<commit>
ResumeTrigger(k, c) == [kind |-> "resume", of |-> k, number |-> Version[k][c], at |-> c]

\* A signed tag: its target, what its body lists (marker: a "components" line
\* is there at all), and who signed it when.
Signed(p, n, c, lists, marker) ==
    [name |-> n, commit |-> c, lists |-> lists, marker |-> marker, by |-> <<p, serial[p]>>]

Entry(k, c) == [tag |-> ComponentTag(k, c), at |-> c]

Named(S, n) == {t \in S : t.name = n}
Present(S, n) == Named(S, n) # {}
Triggers(S) == {t \in S : t.name.kind # "component"}
TriggersAt(S, c) == {t \in Triggers(S) : t.commit = c}
ComponentsAt(S, c) == {t \in S : t.name.kind = "component" /\ t.commit = c}
\* same name, other object: what neither a fetch nor a push replaces
Clashes(S, T) == \E s \in S, t \in T : s.name = t.name /\ s # t

Versions(S, k) == {t.name.number : t \in {u \in S : u.name.kind = "component" /\ u.name.of = k}}

NoName == [kind |-> "none", of |-> "none", number |-> 0, at |-> 0]
Idle == [pc |-> "idle", head |-> 0, entries |-> {}, trigger |-> NoName, push |-> {}]

At(p, pc) == run[p].pc = pc
Active(p) == ~At(p, "idle")
Goto(p, pc) == run' = [run EXCEPT ![p].pc = pc]
Started(p, c, pc) == run' = [run EXCEPT ![p] = [Idle EXCEPT !.pc = pc, !.head = c]]
Sign(p, t) == local' = [local EXCEPT ![p] = @ \union {t}]

\* Nothing that p signed lately can be met with another object of its name.
Settles(p, S) ==
    \/ p \in Fresh /\ local[p] \subseteq S
    \/ \A t \in local[p] : t.by # <<p, serial[p]>>

\* The run ends with origin holding S; a runner's disk goes with it.
End(p, S) ==
    /\ remote' = S
    /\ run' = [run EXCEPT ![p] = Idle]
    /\ local' = [local EXCEPT ![p] = IF p \in Fresh THEN {} ELSE @]
    /\ serial' = [serial EXCEPT ![p] = IF Settles(p, S) THEN @ ELSE @ + 1]

Init ==
    /\ local = [p \in Clones |-> {}]
    /\ remote = {}
    /\ run = [p \in Clones |-> Idle]
    /\ serial = [p \in Clones |-> 0]
    /\ manual = {} /\ raced = {} /\ adopted = {}
    /\ budget = [runs |-> 0, interrupts |-> 0]

(***************************************************************************)
(* git fetch --tags origin main.  It brings every tag of origin that the   *)
(* clone lacks and fails, and the run with it, when one of them exists in  *)
(* the clone as another object.  HEAD is the merge commit c.               *)
(***************************************************************************)
Fetched(p) == local[p] \union {t \in remote : ~Present(local[p], t.name)}

Begin(p, c) ==
    /\ At(p, "idle")
    /\ ~Clashes(local[p], remote)
    /\ local' = [local EXCEPT ![p] = Fetched(p)]
    /\ UNCHANGED <<remote, serial>>

\* A maintainer's run uses the bound, and is remembered unless it resumes.
Crowded(p, c) == \E q \in Clones \ {p} : run[q].head = c
Spend == budget.runs < MaxRuns /\ budget' = [budget EXCEPT !.runs = @ + 1]
Interrupted ==
    budget.interrupts < MaxInterrupts /\ budget' = [budget EXCEPT !.interrupts = @ + 1]
Remember(p, c, M) ==
    /\ manual' = M
    /\ raced' = IF c \in M /\ Crowded(p, c) THEN raced \union {c} ELSE raced

(***************************************************************************)
(* The ordinary publication: component tags, their push, the trigger, its  *)
(* push.                                                                   *)
(***************************************************************************)
BeginPublish(p, c) ==
    /\ p \notin Fresh
    /\ Begin(p, c)
    /\ Started(p, c, "verify")
    /\ Spend /\ Remember(p, c, manual \union {c}) /\ UNCHANGED adopted

NewerThanAll(S, k, c) == \A v \in Versions(S, k) : Version[k][c] > v
\* a maintenance patch of an earlier commit (--plugin-source, --maintenance-ref)
PatchesLine(S, k, c) ==
    LET line == {v \in Versions(S, k) : Line[v] = Line[Version[k][c]]}
    IN  line # {} /\ \A v \in line : Version[k][c] > v

Publishable(S, k, at, head) ==
    \/ k \in Packs /\ at = head
    \/ k \in Plugins /\ at <= head /\ (NewerThanAll(S, k, at) \/ PatchesLine(S, k, at))

Selectable(S, head) ==
    {Entry(x[1], x[2]) : x \in {y \in Components \X Commits : Publishable(S, y[1], y[2], head)}}

\* what is selected exists neither in the clone nor on origin
Verify(p, E) ==
    /\ At(p, "verify")
    /\ E # {} /\ E \subseteq Selectable(local[p], run[p].head)
    /\ \A e, f \in E : e.tag = f.tag => e = f
    /\ \A e \in E : ~Present(local[p] \union remote, e.tag)
    /\ run' = [run EXCEPT ![p].pc = "create", ![p].entries = E]
    /\ UNCHANGED <<local, remote, serial, manual, raced, adopted, budget>>

\* nothing to select, or one of the tags exists
Refused(p) ==
    /\ At(p, "verify") \/ At(p, "catalog")
    /\ End(p, remote)
    /\ UNCHANGED <<manual, raced, adopted, budget>>

CreateTag(p, e) ==
    /\ At(p, "create")
    /\ e \in run[p].entries /\ ~Present(local[p], e.tag)
    /\ Sign(p, Signed(p, e.tag, e.at, {}, FALSE))
    /\ UNCHANGED <<remote, run, serial, manual, raced, adopted, budget>>

Created(p) == {t \in local[p] : \E e \in run[p].entries : t.name = e.tag}
AllCreated(p) == \A e \in run[p].entries : Present(local[p], e.tag)

\* git push origin <tags>, not atomic: origin takes each tag on its own
PushTags(p) ==
    /\ At(p, "create") /\ AllCreated(p)
    /\ ~Clashes(Created(p), remote)
    /\ remote' = remote \union Created(p)
    /\ Goto(p, "announce")
    /\ UNCHANGED <<local, serial, manual, raced, adopted, budget>>

\* some were taken when others were refused or the connection broke
PushTagsPartly(p, S) ==
    /\ At(p, "create") /\ AllCreated(p)
    /\ S \subseteq Created(p) /\ ~Clashes(S, remote)
    /\ \/ Clashes(Created(p), remote) /\ S = {t \in Created(p) : ~Clashes({t}, remote)} /\ UNCHANGED budget
       \/ S # Created(p) /\ Interrupted
    /\ End(p, remote \union S)
    /\ UNCHANGED <<manual, raced, adopted>>

TriggerMade(p, lists, marker) ==
    LET n == DatedTrigger(p, run[p].head)
    IN  /\ ~Present(local[p], n)
        /\ Sign(p, Signed(p, n, run[p].head, lists, marker))
        /\ run' = [run EXCEPT ![p].pc = "push", ![p].push = {n}]
        /\ UNCHANGED <<remote, serial, manual, raced, adopted, budget>>

\* only the plugins are listed
CreateTrigger(p) ==
    /\ At(p, "announce")
    /\ TriggerMade(p, {e \in run[p].entries : e.tag.of \in Plugins}, TRUE)

(***************************************************************************)
(* --catalog-only-from: a trigger, without a components line, for what the *)
(* commit s published; refused where s carries a pack's tag, or where a    *)
(* published component's tag does not target the commit it is listed at.   *)
(***************************************************************************)
BeginCatalogOnly(p, c) ==
    /\ p \notin Fresh
    /\ Begin(p, c)
    /\ Started(p, c, "catalog")
    /\ Spend /\ Remember(p, c, manual \union {c}) /\ UNCHANGED adopted

PublishedAt(S, s) ==
    {[tag |-> t.name, at |-> s] : t \in {u \in ComponentsAt(S, s) : u.name.of \in Plugins}}
        \union UNION {t.lists : t \in TriggersAt(S, s)}

CatalogOnly(p, s) ==
    /\ At(p, "catalog")
    /\ s <= run[p].head
    /\ \A t \in ComponentsAt(local[p], s) : t.name.of \in Plugins
    /\ PublishedAt(local[p], s) # {}
    /\ \A e \in PublishedAt(local[p], s) : \E t \in Named(local[p], e.tag) : t.commit = e.at
    /\ TriggerMade(p, {}, FALSE)

(***************************************************************************)
(* --resume: one component at its merge commit, under names that do not    *)
(* change from run to run.  The trigger is settled before any tag is made. *)
(***************************************************************************)
\* Mutant: an attempt before counts as a release.
NotSupersededByAny(S, k, c) == k \in Plugins => NewerThanAll(S, k, c)

\* its own tag, from an attempt before, does not make it superseded
NotSuperseded(S, k, c) ==
    k \in Plugins => NewerThanAll({t \in S : t.name # ComponentTag(k, c)}, k, c)

\* the one trigger at the commit, which for a plugin must list exactly that
\* plugin, or else the resume trigger
MayUse(S, k, c) ==
    /\ Cardinality(TriggersAt(S, c)) <= 1
    /\ \A t \in TriggersAt(S, c) : t.marker /\ (k \in Plugins => t.lists = {Entry(k, c)})
\* Mutant: a resume does not look for a trigger that is there.
TriggerForResume(S, k, c) == ResumeTrigger(k, c)

TriggerFor(S, k, c) ==
    IF TriggersAt(S, c) = {} THEN ResumeTrigger(k, c) ELSE (CHOOSE t \in TriggersAt(S, c) : TRUE).name

BeginResume(p, c, k) ==
    /\ Begin(p, c)
    /\ NotSuperseded(Fetched(p), k, c)
    /\ MayUse(Fetched(p), k, c)
    /\ run' = [run EXCEPT ![p] = [Idle EXCEPT !.pc = "tag", !.head = c, !.entries = {Entry(k, c)},
                                              !.trigger = TriggerFor(Fetched(p), k, c)]]
    /\ Remember(p, c, manual)
    /\ adopted' = adopted \union {t \in TriggersAt(Fetched(p), c) \ remote : k \in Packs}

WorkflowResumes(p, c, k) ==
    /\ p \in Fresh /\ <<c, k>> \in Requests
    /\ BeginResume(p, c, k)
    /\ UNCHANGED budget

MaintainerResumes(p, c, k) ==
    /\ p \notin Fresh
    /\ BeginResume(p, c, k)
    /\ Spend

\* ensure_resumable_signed_tag_listing: a tag to make, a tag to push, or a tag
\* that is there; anything else is refused
Missing(p, n) == ~Present(local[p], n) /\ ~Present(remote, n)
Kept(p, n) == \E t \in Named(local[p], n) : t.commit = run[p].head
ToPush(p, n) == Kept(p, n) /\ ~Present(remote, n)
Settled(p, n) == Kept(p, n) /\ Named(remote, n) = Named(local[p], n)

Ensure(p, n, lists, marker, next) ==
    /\ \/ Missing(p, n) /\ Sign(p, Signed(p, n, run[p].head, lists, marker))
       \/ (ToPush(p, n) \/ Settled(p, n)) /\ UNCHANGED local
    /\ run' = [run EXCEPT ![p].pc = next, ![p].push = IF Settled(p, n) THEN @ ELSE @ \union {n}]
    /\ UNCHANGED <<remote, serial, manual, raced, adopted, budget>>

EnsureTag(p) ==
    /\ At(p, "tag")
    /\ \E e \in run[p].entries : Ensure(p, e.tag, {}, FALSE, "trigger")

EnsureTrigger(p) ==
    /\ At(p, "trigger")
    /\ Ensure(p, run[p].trigger, {e \in run[p].entries : e.tag.of \in Plugins}, TRUE, "push")

EnsureRefuses(p) ==
    /\ \/ At(p, "tag") /\ \E e \in run[p].entries :
                             ~(Missing(p, e.tag) \/ ToPush(p, e.tag) \/ Settled(p, e.tag))
       \/ At(p, "trigger") /\ ~(Missing(p, run[p].trigger) \/ ToPush(p, run[p].trigger)
                                                           \/ Settled(p, run[p].trigger))
    /\ End(p, remote)
    /\ UNCHANGED <<manual, raced, adopted, budget>>

\* the trigger, or git push --atomic of what a resume found missing
Pushing(p) == {t \in local[p] : t.name \in run[p].push}
\* Mutants: without --atomic, and with --force.
PushEach(p) ==
    /\ At(p, "push")
    /\ \E S \in SUBSET Pushing(p) : ~Clashes(S, remote) /\ End(p, remote \union S)
    /\ UNCHANGED <<manual, raced, adopted, budget>>
PushForced(p) ==
    /\ At(p, "push")
    /\ End(p, remote \union Pushing(p))
    /\ UNCHANGED <<manual, raced, adopted, budget>>
Push(p) ==
    /\ At(p, "push")
    /\ End(p, IF Clashes(Pushing(p), remote) THEN remote ELSE remote \union Pushing(p))
    /\ UNCHANGED <<manual, raced, adopted, budget>>

Interrupt(p) ==
    /\ Active(p)
    /\ Interrupted
    /\ End(p, remote)
    /\ UNCHANGED <<manual, raced, adopted>>

Step(p) ==
    \/ At(p, "verify") /\ \E E \in SUBSET Selectable(local[p], run[p].head) : Verify(p, E)
    \/ Refused(p)
    \/ \E e \in run[p].entries : CreateTag(p, e)
    \/ PushTags(p) \/ CreateTrigger(p)
    \/ \E s \in Commits : CatalogOnly(p, s)
    \/ EnsureTag(p) \/ EnsureTrigger(p) \/ EnsureRefuses(p)
    \/ Push(p)

Next ==
    \E p \in Clones :
        \/ \E c \in Commits : BeginPublish(p, c) \/ BeginCatalogOnly(p, c)
        \/ \E c \in Commits, k \in Components : WorkflowResumes(p, c, k) \/ MaintainerResumes(p, c, k)
        \/ Step(p)
        \/ \E S \in SUBSET Created(p) : PushTagsPartly(p, S)
        \/ Interrupt(p)

\* A failed workflow run is started again, and a run that works goes on.
Fairness ==
    /\ \A p \in Fresh : WF_vars(Step(p))
    /\ \A p \in Fresh : \A q \in Requests : SF_vars(WorkflowResumes(p, q[1], q[2]))

Spec == Init /\ [][Next]_vars /\ Fairness

-----------------------------------------------------------------------------
Names == [kind : {"component", "release", "resume", "none"}, of : Components \union Clones \union {"none"},
          number : Nat, at : Nat]
Entries == [tag : Names, at : Commits]
Objects == [name : Names, commit : Commits, lists : SUBSET Entries, marker : BOOLEAN,
            by : Clones \X Nat]

Publication ==
    [pc : {"idle", "verify", "create", "announce", "catalog", "tag", "trigger", "push"},
     head : Commits \union {0}, entries : SUBSET Entries, trigger : Names, push : SUBSET Names]

\* Types, and that a ref names one object in every clone and on origin.
TypeOK ==
    /\ local \in [Clones -> SUBSET Objects]
    /\ remote \in SUBSET Objects
    /\ run \in [Clones -> Publication]
    /\ serial \in [Clones -> Nat]
    /\ manual \subseteq Commits /\ raced \subseteq manual /\ adopted \subseteq Objects
    /\ budget \in [runs : 0..MaxRuns, interrupts : 0..MaxInterrupts]
    /\ ~Clashes(remote, remote)
    /\ \A p \in Clones : ~Clashes(local[p], local[p])

\* The tag that t lists as e is left behind: a rule pack's resume pushed t from
\* the clone that signed both, and the tag has not followed.
LeftBehind(t, e) ==
    /\ t \in adopted
    /\ \E u \in Named(local[t.by[1]], e.tag) : u.commit = e.at /\ u \notin remote

\* A trigger that reaches origin starts a release that builds every component
\* its body lists, each from the listed commit and its tag.  Whatever is
\* interrupted, and whoever else publishes, those tags are on origin and target
\* those commits; only a resumed rule pack, which does not look at what the
\* trigger it takes over lists, can leave one of them behind in its clone.
TriggerComplete ==
    \A t \in Triggers(remote) : \A e \in t.lists :
        \/ \E u \in Named(remote, e.tag) : u.commit = e.at
        \/ LeftBehind(t, e)

\* A plugin version is released by one trigger, dated or a resume's, even where
\* runs race: there it gets at most one of either.  It gets both only if a
\* maintainer published at its commit while another run was at work there, if
\* one of them took it from an earlier commit than its own, or if a rule pack's
\* resume left the tag behind that would have told the later run.
SingleRelease ==
    \A t, u \in Triggers(remote) : \A e \in t.lists \intersect u.lists :
        /\ t.name.kind = u.name.kind => t = u
        /\ \/ t = u \/ e.at \in raced
           \/ t.commit # e.at \/ u.commit # e.at
           \/ LeftBehind(t, e) \/ LeftBehind(u, e)

\* "An existing trigger at the commit must list exactly those" components that
\* are resumed (resume_signed_tags): what a run pushes lists what it publishes.
PushesItsOwn ==
    \A p \in Clones : At(p, "push") =>
        \A t \in Triggers(Pushing(p)) : t.lists = {e \in run[p].entries : e.tag.of \in Plugins}

\* What the workflow resumes is on origin at last, tag and trigger, however
\* often it was interrupted; unless a newer version is there, its tag names
\* another commit, or its commit has other triggers.
Published(k, c) ==
    /\ \E t \in Named(remote, ComponentTag(k, c)) : t.commit = c
    /\ \E t \in TriggersAt(remote, c) : k \in Plugins => Entry(k, c) \in t.lists
Superseded(k, c) == k \in Plugins /\ \E v \in Versions(remote, k) : v > Version[k][c]
Diverted(k, c) ==
    \/ \E t \in Named(remote, ComponentTag(k, c)) : t.commit # c
    \/ ~MayUse(remote, k, c)
ResumeConverges ==
    <>(\A q \in Requests :
          Published(q[2], q[1]) \/ Superseded(q[2], q[1]) \/ Diverted(q[2], q[1]))
=============================================================================
