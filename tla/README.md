# Formal models of scryer-plugins

TLA+ models of the parts of this repository whose correctness rests on
interleavings, retries, crashes and restarts, with TLC runs on small instances
and TLAPS proofs for every instance. Paths below are relative to the
repository's root; line numbers are those `PROJECT.json` lists under `map`.

## 1. Inventory

The repository holds Scryer's plugins (Rust, compiled to WebAssembly
components), the SDK they are written with (`pdk/`), and the tooling that
releases them into a signed central catalog (`xtask/`, `.github/`).

| Component | State it keeps | Operations | What makes it correct |
|---|---|---|---|
| PDK pacing runtime (`pdk/scryer-plugin-pdk/src/runtime.rs` 470-670) | one host state cell per gate or quota, changed only by `state_cas`; host clocks | `StartRateGate::acquire`, `CooldownGate::wait` / `defer_for`, `WindowQuota::reserve`, `sleep_until_deadline` | starts spaced, cooldowns never shortened or lost, quotas held, every call ends |
| Newznab hit budget (`indexers/newznab-common/src/lib.rs` 171-207, 3236-3337) | one cell: hour, hourly count, day, daily count | `reserve_hit_budget_uses`, `hit_budget_retry_after_seconds` | neither allowance overrun, honest retry hint |
| Newznab polite HTTP (same file, 2949-3212) | locals of one request; the cells above | `polite_http_get_redacting` and its retry loop | every send paced and paid for, retries bounded, backoff kept |
| Catalog publication (`xtask/src/catalog_publish.rs`, `.github/workflows/release-plugin-v3.yml` 748-1080, `catalog-v3-preparation.sh`, `catalog-v3-merge-base.sh`) | R2 bucket, generation releases, redirect on R2 / CDN / mirror, saved preparation, the job queue | restore, resolve the merge base, prepare and sign, save, five publication phases, rerun | nothing incomplete is served, nothing published is lost, reruns succeed |
| Catalog preparation and merge (`xtask/src/main.rs` 6493-7308) | the catalog | `catalog prepare-v3` | published history is kept |
| Release tags (`xtask/src/main.rs` 2560-3905, `.github/workflows/rule-pack-publish.yml`) | signed git tags, in each clone and on origin | `release-publish-tags`: publish, `--plugin-source`, `--catalog-only-from`, `--resume` | a trigger never names a tag that is not there, one release per version, an interrupted resume converges |
| Cardigann engine (`indexers/cardigann-engine/src/runtime.rs`) | the context of one operation; the persisted cookie session, shared by the operations of one indexer | connection test, CAPTCHA check, search, grab, each logging in first and once more when the session is lost | no result lost to a re-login, cookies stay on the site, the session is stored before it is used and expires, chains of requests end |
| Indexer-specific pacing (`indexers/tsukihime`, `subtitles/tsukihime`, `indexers/eztv`) | PDK cells, or counters without compare-and-set | `reserve_api_request` | quotas held |
| Adapters: other indexers, download clients, lists, notifications, subtitles, archive extractors | none, or the state of the service behind them | translate one call into requests and back | parsing and mapping, not concurrency |

**Interaction.** Operations of one plugin run concurrently as guest futures, and
they share the plugin's state cells through the host (`state_get`,
`state_cas`). A polite request calls the cooldown gate, the start gate and the
hit budget, sends, and writes the cooldown back; another operation moves in
between any two of those host calls. The Cardigann engine takes its turn at a start gate
before each tracker request, and keeps what the tracker set in a session cell
that every operation of the indexer loads once and overwrites whole. A pushed
trigger tag starts a release run. Release runs share the two stores and the
redirect; they are serialised by a GitHub concurrency group, and a run that
died is started again by hand, on whatever its earlier attempts left behind.

**What is hard here**: unlocked read / clock / compare-and-set loops; waiting
under a deadline while others move the instant waited for; two windows rolling
over on one cell; retries that must pay again; a job that may die at every
step, whose redirect moves in several writes; a merge base read from a cache
long before it is compared; signatures that differ each time the same bytes are
signed; tags pushed from several clones that see each other only when they
fetch; a login that may be lost at any response of an untrusted tracker.
`PROJECT.json` lists each hazard at its line under `hazards`.

## 2. Plan

Done, in this order: the three PDK primitives, the hit budget, the polite
request that composes them, the catalog publication and the atomic pointer it
implements, the Cardigann engine, the release tags; then the proofs, until every
invariant and action property of the passing runs but `GroupMoves`, and the
refinement, had its theorem.

Next, in order of importance:

1. `CatalogMerge`: merging plugin and rule-pack release histories, allowed
   removals, constraints (`main.rs` 6493-6624, 7032-7076), as pure operators
   checked against a reference definition ("append-only but for the allowed
   removals"), to be used by `CatalogPublish` in place of its sets of runs.
2. `TsukihimePacing`: two cooldowns, a quota and a gate in the order of
   `reserve_api_request`, and the subtitle plugin's counter without
   compare-and-set.
3. Proofs: what each history merge of `CatalogMerge` keeps, once it is modelled;
   and, from `ComponentsHold` and `EverySendPaid`, a bound on the requests of a day
   rather than on the allowance that pays for them.

## 3. Modules

| Module | Models | Used by |
|---|---|---|
| `HostRuntime` | u64 arithmetic and `sleep_until_deadline` | the four below |
| `StartRateGate`, `CooldownGate`, `WindowQuota` | one PDK primitive each | `PoliteHttp` (the first two) |
| `HitBudget` | the hourly and daily allowance | `PoliteHttp` |
| `PoliteHttp` | one upstream GET with its retry loop | |
| `CatalogPublish` | the publication job and its environment | |
| `CatalogPointer` | what publishing promises: one atomic pointer | refined by `CatalogPublish` |
| `CardigannEngine` | one indexer's operations and their shared session | |
| `ReleaseTags` | `release-publish-tags` in several clones of one origin | |
| `...Proofs` | theorems about the module of that name | |
| `MC...` | constants for TLC | |

**Gates, quota and budget.** `call[c]` is one operation's call: a program
counter and the locals that survive to the next host call. Each host call is an
action (`Get` is `state_get`, `Clock` a clock reading and the decision it feeds,
`Cas` is `state_cas`, `Budget` the second clock reading inside
`sleep_until_deadline`, `Wake` the end of the sleep), so callers and the clock
interleave between any two. `Cancel` drops a future at its await point. History
variables (`starts`, `owed`, `granted`, `hourly`, `daily`) record what the
properties speak of and are never read by a guard.

**Polite HTTP.** `PoliteHttp` instantiates the two gates and the budget on
variables of its own and gives each request a program counter (`req`). Where the
code calls a primitive, the action that gets there also begins the call; where
the call returns, the next action reads its outcome. A response is a status,
the delay its headers carry and whether its remaining-requests header is 0.
One clock stands for the monotonic and the wall clock.

**Catalog.** `job[r]` is run `r`'s job on its runner: the step it is at and what
lies on its disk; the disk is gone when the job ends. Stores map an asset to its
bytes, of which only this matters: data is right or damaged, a signature is
named after the run that signed it. `Preflight` models both passes of
`preflight_store` with the adoption of published signatures; `PutAsset` uploads
one asset in the order of the plan; the redirect's JSON and bundle are separate
writes to R2, while the CDN and the mirror may each hold an older or torn pair.
`Fail` ends a job at any step. `Enqueue` is the concurrency group: one run
works, one waits, and a newcomer cancels the waiting one or is cancelled. The
abstract `CatalogPointer` moves in one step from the master it names to a run's
master merged onto it; a master that an operator's override merged onto an older
one is marked `repair`, so that leaving out what came in between cannot pass
unmarked.

**Cardigann engine.** `op[o]` holds `drive_operation`'s locals: whether it waits for
a response (`waiting`) or writes the session (`saving` reads the cell, `swapping`
compares and sets it), how many steps it took, the session it loaded and keeps,
and the context (`ctx`) with the step in hand (`ctx.to`, a `Continuation` or an
end). Each arm of `resume` is an operator that maps a context and a response to
the next context; the `On...` actions are the driver receiving a response for
that arm, merging its cookies, and going on with what the arm returned. The
tracker is unconstrained: any response of a class may answer any request. A
`Definition` is the part of an indexer definition (and its settings) that decides
control: login method, login test, CAPTCHA, redirects, paths, download block.

**Release tags.** `local[p]` are the tag objects of clone `p`, `remote` those of
origin; a tag object is its name, target, the components its body lists, and who
signed it when, so that two tags of one name signed at different times differ.
`run[p]` is the command under way. `Begin` is the fetch; `Verify`, `CreateTag`,
`PushTags`, `CreateTrigger` and `Push` are an ordinary publication in order,
`CatalogOnly` a republication, and `BeginResume`, `EnsureTag`, `EnsureTrigger` and
`Push` a resume. `PushTagsPartly` is a push that is not `--atomic` and stops or is
partly refused. `Interrupt` ends a run anywhere; a runner's disk is gone with it,
a maintainer's clone keeps its tags.

**Abstractions.**
- One rule-pack asset stands for a pack's two encodings, one signature for the
  `.bundle.zst` and `.sigstore.json` companions; the third file of the
  mirror's redirect (the sigstore copy) is left out.
- A master is named after the run that prepared it, since its name carries the
  digest of content that differs between runs.
- A pack release has the same bytes in every run (they come from one commit's
  file and `rule_pack_release_identity` refuses anything else).
- An operator's override names a master that has been served.
- State cells are written by this code only, so their decoding never fails.
- Cardigann: one session cookie stands for the jar; addresses stand for their
  hosts; login, CAPTCHA and submit requests go to one login address; whether a
  stored session's 30 days are over is a free choice at each load instead of a
  clock; a path is wanted by a search or not (the category filter); templates,
  filters and row extraction do not appear. The start gate is `StartRateGate`'s
  business: its refusal is an `Abort`. The `cookies` of a login block are left
  out. Any response may set or delete the cookie; page classes that an arm does not
  tell apart are asked of it once.
- Release tags: the commits of `main` are numbers in order; the signature of a tag
  is valid (the tags on origin are protected); a run reads the remote refs it
  tests in one step; tags of one run may be created in any order; a refused
  `Begin` changes nothing and is no step; `Refused` may end any selection, as an
  operator may name what is not publishable; pre-release versions are left out.
- The wall clock does not step back.

## 4. Runs

| Run | Question | Bounds |
|---|---|---|
| `StartRateGate` | spacing, the rate, termination | 2 callers, 2 starts per 5 ms (gap 3, rounded up), clock to 9 |
| `CooldownGate` | no shortening, no lost deferral, sound and terminating waits | 2 callers, delays 1 and 3, deadlines 2 and 6, clock to 6, no deferral after 2 |
| `WindowQuota` | no overrun, exact hint, termination | 2 callers, 1 or 2 uses of 3 per 2 ms, two boundaries |
| `HitBudget` | neither allowance overrun, honest hint | 2 callers, hours of 2, days of 4, clock into the second day |
| `PoliteHttp` | paid sends, bounded retries, backoff, every request ends | 2 operations, 2 attempts each within the retry budget, 6 kinds of response, start slots 2 apart, 1 request an hour, clock into the second hour |
| `PoliteHttpCooldown` | *expected violation*, section 6 | as `PoliteHttp` |
| `CatalogPublish` | completeness, no lost publish, immutability, reruns, repairs, a queue that moves | 2 runs of one pack (symmetric: safety only), 2 failures, 2 reruns, 1 damaged upload or expired preparation |
| `CatalogCancelled` | *expected violation*, section 6 | 3 runs, 1 failure, 1 rerun |
| `CardigannEngine` | results, cookies, session, length of chains | 9 definitions; 2 operations at once behind a cookie setting and in the open, 1 elsewhere; 5 addresses, redirects of 1 hop, 1 tracker cookie, 2 write attempts |
| `CardigannReissue` | *expected violation*, section 6 | a search behind a form whose redirects are followed |
| `ReleaseTags` | complete triggers, one release, convergence | a maintainer's clone and a runner; 1 plugin with a version at each of 2 commits, 1 pack; 2 runs by the maintainer, 1 interruption, runs of the workflow unbounded |
| `ReleaseTagsPack` | *expected violation*, section 6 | as `ReleaseTags` |

**Why the bounds are enough.** Every race in the gates is between one caller's
read and its compare-and-set and another's compare-and-set, so two callers show
it; the clocks run over at least two slots, windows or cooldowns, so that a
second round meets what the first left. The proofs lift every safety property
below but `GroupMoves`, in every module, to all constants: here to any number of callers, rates,
windows, responses and clocks. For the catalog, two
runs of the same pack meet in every store; a half-finished run, a newer run and
a rerun of the first is the shortest way to lose or take back a publish, and
needs two failures and two reruns at most; the third run exists to be cancelled.
For the Cardigann engine, every branch of the state machine is taken by one of
the definitions; a redirect off the site and back, a re-login in the middle of a
search, and two operations that overwrite each other's session all fit in. The
limits of 5 hops and 8 write attempts are constants, 1 and 2 in the run, since the
code treats every hop and every attempt alike; the step limit of 64 keeps its
value and is not reached, which is what `StepsBounded` says. The theorems hold
for every limit. For the release tags, an interruption leaves either local tags
(the maintainer) or part of a push; a second commit brings the newer version and
another component's trigger; the maintainer's two runs race the workflow's or
resume its own, a rule pack's over an interrupted plugin's included. Two refresh
branches that are resumed by two runners at once, a second maintainer's clone, a
second plugin and a second interruption are beyond the run's time; the theorems on
`TriggerComplete` and `SingleRelease` cover them, for `ResumeConverges` nothing does.

**Action coverage.** `CatalogPublish` is the run that takes the override, stores
damaged bytes and lets a preparation expire; a waiting run is cancelled where there
are three runs, in `CatalogCancelled` and in the proofs. All other actions fire in each passing run of their module.

**Fairness.** In the pacing modules: the host polls every future that is ready
(`WF(Step(c))`), its clock advances (`WF(Tick)`), and its HTTP call returns, if
only with a timeout. `reserve()` has no await point, so `WindowQuota` does not
even need the clock. Nobody is assumed to begin or cancel anything.
`CatalogPublish` states no fairness: `GroupMoves` says that a waiting run can start
or that the run it waits for has a next step, and every step of a job moves on to a
later one or uploads one of finitely many assets; so the queue drains if GitHub
starts the waiting run of a free group and runs started jobs to their end.
The Cardigann engine states no fairness: a tracker owes nobody an answer, and
`StepsBounded` is the safety half of termination. In `ReleaseTags` a workflow run
that works goes on (`WF(Step)`), and a workflow run that failed is started again
as long as it can do anything (`SF(WorkflowResumes)`): `rule-pack-publish.yml` 7-12
and `rule_packs/refresh/README.md` 81-82 tell the operator to do just that. The
number of interruptions is bounded, a maintainer owes nothing.

**Deadlock** is checked in every run but `ReleaseTags`. Every state can go on, since
a call that has returned may be made again and the CDN may always refresh.
`ReleaseTags` really stops: once the maintainer has used the runs of the bound and
the workflow's requests can no longer begin (superseded or diverted), nothing is
left to do.

## 5. Proofs

TLAPS checks these for every value of the constants, under the named
assumptions of the modules (naturals, a sentinel outside the naturals, a clock
far from 2^64). Each inductive invariant was first checked by TLC on the run of
its module.

- **`StartRateGateProofs`**: `TypeCorrect`, `StartsAreSpaced`, `RateIsHonoured`.
  `Spacing` alone is not inductive: a start about to be recorded must be known to
  lie a gap after the stamp it is compared with. `SpacingInv` adds `LatestStamp`
  (the cell holds the latest start) and `CasReady` (a caller at its compare-and-set
  has seen the clock at least a gap after the stamp it expects); when the
  compare-and-set succeeds, the expected stamp is the latest one. The rate follows
  from the spacing: the starts of a window fall into different slots of one gap
  (`SlotsDiffer`), a window has as many slots as the policy allows starts
  (`GapCovers`, where the gap is rounded up), and an injection bounds the number.
- **`CooldownGateProofs`**: `TypeCorrect`, `CooldownNeverShortened` (an action
  property), `DeferIsDurable`, `WaitIsSound`. `CooldownInv` adds `OwedKept`: from
  its last await point a `wait()` holds a value no earlier than what it owed.
  Monotonicity of the cell is a lemma the other two rest on.
- **`WindowQuotaProofs`**: `TypeCorrect`, `QuotaIsHeld`, `RetryIsExact`. `QuotaInv`
  adds `CellCounts` (the cell counts exactly what its window granted, and nothing
  was granted in a later window) and `CasPrepared` (a caller about to write has a
  window no older than the cell it read, and a count within the limit). The hint is
  exact because the next window starts where the quotient by the window length
  changes, a fact about division that is proved apart.
- **`HitBudgetProofs`**: `TypeCorrect`, `BudgetIsHeld`, `RetrySuffices`. `BudgetInv`
  is the same argument for the hour and the day, which roll over at different
  instants but are written together: `CellCounts` and `CasPrepared` hold of both
  counters, and one lemma about a counter (`CounterKept`) serves the two. The hint
  needs that hours divide days: whoever waits for the day has waited for the hour.
- **`PoliteHttpProofs`**: `TypeCorrect`, `ComponentsStayTrue`, `RetriesAreBounded`,
  `BackoffIsHonoured`, `SendsArePaid`. The three proof modules above are
  instantiated on the loop's variables (`GateAlone`, `CoolAlone`, `BudgetAlone`):
  a step inside a component is a step of that component alone (`GateAgrees`,
  `CoolAgrees`, `BudgetAgrees`), so its invariant is kept by its own theorem; only
  a call that the loop forgets has to be looked at here. `ComponentsStayTrue`
  says the result: what the components' runs check of them alone (spacing, waits,
  deferrals, allowances) they keep in the loop. `LoopInv` adds `Fits`,
  what a request in its retry loop has left of attempts, of the retry budget and
  of its backoff. `PaidInv` adds `Charging`: a reservation in flight belongs to an
  operation that is paying, and counts one use in a day of the calendar.
  `EverySendPaid` sums over the days. The sum is a recursion over subsets which no
  induction theorem is available for; the lemmas on sums argue with a smallest
  subset for which the claim would fail, which exists as strict inclusion is well
  founded (`Smallest`): the recursion has a solution (`Summable`), adds up zeros to
  zero and grows by one where the function does (`TotalOfOneMore`).
- **`CatalogPublishProofs`**: `TypeCorrect`, `ServedIsComplete`,
  `AbsentIsUntouched`, `NeverSelfConflicts`, `OwnRerunIsAccepted`, the action
  properties `HashedStay` and `MirrorFollowing`, and `Refinement`. The inductive
  invariant `IInv` says: one run works at a time (`Exclusive`, the lemma everything
  rests on); a saved preparation is what merging onto a served master gives
  (`Preparations`); whatever a client can be sent to was live, is saved and complete,
  and was not merged onto the master that is live now (`Redirects`, so that the
  pointer never returns); a run that has saved nothing has left nothing, not even a
  signature that another could adopt (`Unsaved`); data goes up before its signature,
  and undamaged stores agree (`Agree`); and at each step of a job, what the steps
  before it have done (`JobFits`). A step of the job then maps to a step of
  `CatalogPointer` when the redirect's JSON reaches R2 and to a stutter otherwise
  (`StepPoints`); a master that was live keeps its entry (`EntryKept`), because a
  saved preparation may expire but is never replaced by another (`SavedOnce`).
- **`CardigannEngineProofs`**: `TypeCorrect`, `CookiesStayOnSite`,
  `SentWasPersisted`, `StoredExpires`, `SearchesAnswered`, `StepsAreBounded`. None is
  inductive: what an operation sends next comes from its context's jar, not from
  the session it stores. `EngineInv` adds `Sound` for every operation: the context's
  jar, its settings and the cookie of its request are a setting, were stored, or are
  the cookie of the session it keeps, which while it waits has been stored; that
  session is dated if it holds a tracker's cookie; the address of its request is on
  the site whenever a cookie goes with it. Each operator of an arm is shown once to
  take a context that fits to one that fits and takes no cookie from elsewhere
  (`StepOf`; `AskStep`, `FollowStep`, `LoginStep` and so on), so that an `On...`
  action is one citation. `CourseInv` adds where an operation is on its course: the
  paths a search has passed over, and the addresses it has asked for but the one in
  hand, were answered (`Passed`, `Caught`, `Asking`); and `Left` bounds the requests
  it may still ask for, those of a re-login included, so that
  `(MaxHops + 1) * Left - hops` falls with every step and with every hop. What each
  operator asks for (`Leads`) and each arm moves on to (`Moves`) is again one lemma.
- **`ReleaseTagsProofs`**: `TypeCorrect`, `TriggersComplete`, `SinglyReleased`, from
  the assumptions of the module alone. `TypeInv` needs that a ref names one object in
  a clone and on origin, which rests on the fetch and the push refusing to clobber.
  `IInv` adds, for every clone and each stage of its run, what the next push relies
  on: the tags to push target the commits that the trigger will list (`CreateFits`),
  they are on origin once the trigger is made (`AnnounceFits`), a resume's trigger
  lists nothing but the resumed component unless it is complete already or was taken
  over by a rule pack (`ResumeFits`), and what is pushed together is complete together
  (`TagFits`, `PushFits`). Tags never leave origin, so none of it is undone by another
  clone (`HasGrows`). A trigger that was taken over (`adopted`) may lack its tag on
  origin; then whoever signed it has it: what a clone holds it signed or fetched
  (`HeldFits`), what it signed it keeps (`KeptFits`), and a trigger it signed finds
  there what it lists (`BackedFits`). That is the `LeftBehind` of both properties, the
  one case the code lets through, and section 6 tells of it.
  `SingleInv` adds what tells two triggers of one version apart: a resume's trigger is
  named after what it lists (`Identified`), a dated one is kept by the clone that
  signed it, in one run, whose component tags reached origin (`DatedFits`,
  `SignedOnce`). So there is at most one of each kind, raced or not (`OneOfAKind`).
  For one of either kind, runs that meet where a maintainer publishes have raced
  (`MeetFits`); the tags an ordinary run makes are on origin only once it pushes them
  (`Unpushed`); and what a run is about to push is released by no other trigger yet,
  save one whose tag was left behind (`Orderly`, `Alone`), which it stays, as origin
  has another tag of its name by then (`BehindStays`).

Model-checked only: the liveness properties, which are out of the prover's
reach (`AcquireReturns`, `CallReturns`, `ReserveReturns`, `RequestReturns`,
`ResumeConverges`), `GroupMoves`, which needs ENABLED, and the four expected violations. The only
bounds the proofs keep are those of the models themselves: the clock ends somewhere
(`Horizon`, below 2^64), the days it runs through are finitely many, and one response
of a tracker passes over at most one download selector that finds nothing.

## 6. Where code and comments disagree

- **A request can leave during a cooldown** (`PoliteHttpCooldown`). The comment on
  `CooldownGate::wait` (`runtime.rs` 587) promises to delay a request until any
  recorded cooldown has elapsed. `polite_http_get_redacting` waits for the
  cooldown first and for its start slot after it, and does not look again. While
  one operation sleeps for its slot, another receives a 429 and records a
  cooldown; the first then sends during it.
- **A cancelled run may have saved a preparation** (`CatalogCancelled`). The
  comment on the concurrency group (`release-plugin-v3.yml` 752-755) says a
  cancelled run published nothing and saved no preparation. A rerun waits in the
  same group and can be cancelled there, after its first attempt saved one;
  started once more it restores that preparation instead of preparing afresh.
- **A redirected search is not reissued after a re-login** (`CardigannReissue`). The
  comment in `retry_login_if_needed` (`runtime.rs` 2860-2862) says the request that
  provoked the re-login must not count as asked for, since it is reissued. The
  code takes the URL of the current request out of `seen_get_urls`; once a
  redirect was followed, that is the redirect's target, which never was in the
  set. The path's own URL stays there, `next_search` passes the path over, and the
  search completes without its results. `UnfollowedSearchAnswered` shows that
  without followed redirects no answer is lost.

- **A resumed rule pack takes over any trigger at its commit** (`ReleaseTagsPack`).
  The comment on `resume_signed_tags` (`main.rs` 3756-3757) says an existing trigger
  must list exactly the given components; for a rule pack, which has none, the list is
  not compared (3767). A clone whose `--resume --plugin-id` was interrupted after it
  made its tag and trigger, and which then resumes a rule pack at the same commit,
  pushes that trigger without the plugin's tag. The release workflow then starts for a
  component whose tag is not on origin, and another clone, which sees no tag, may
  publish the version once more. `TriggerComplete` and `SingleRelease` name this case
  (`LeftBehind`: a trigger a rule pack took over, whose tag is still in the clone that
  signed both and not on origin) and hold in all others. A workflow's checkout has no
  such trigger, so it takes a maintainer's clone.

Two more observations, which no run of the project states:

- A rule pack resumed where a trigger is already on origin gets its tag, but no
  new trigger and so no new release run.
- A resume looks for triggers at its own commit only: a plugin that was published
  from an ancestor (`--plugin-source`, trigger at a later commit) and is then resumed
  at its own commit gets a second trigger. A maintainer's publication that races the
  workflow's at one commit may do the same. In both cases `SingleRelease` allows for
  one dated and one resume trigger, and for no more.

## 7. Not modelled

Of the Cardigann engine: templates, filters, selectors, date and category mapping
(`template.rs`, `filters.rs`, `definition.rs`, most of `runtime.rs` after 1610), which
evaluate a definition on a page and share no state. Of the releases: computing
version bumps and release pull requests (`release-prepare`), and the component plan
of the release workflow (`release-plugin-v3-components.sh`), which reads one trigger.

Adapters that translate one call into requests and parse the answers (indexers,
download clients, lists, notifications, subtitles), archive decoding, signal
processing, error wording and redaction, WIT glue, build workflows, retired
plugins and data files: they keep no state that several actors share, and their
correctness is about strings and bytes. `PROJECT.json` gives the reason for each
component. The older sequence of redirects for clients before the modern one
and the backfill workflow are not on the publication path any more.
