------------------------- MODULE ReleaseTagsProofs --------------------------
(***************************************************************************)
(* What every interleaving of publications, resumed publications and       *)
(* interruptions keeps, for any clones, commits, components and versions:  *)
(* the types, that a trigger on origin finds the tags it lists there, and  *)
(* that a plugin version has one trigger; with the exceptions the two      *)
(* invariants name.                                                        *)
(***************************************************************************)
EXTENDS ReleaseTags, FiniteSetTheorems, TLAPS

Has(S, e) == \E u \in Named(S, e.tag) : u.commit = e.at
\* S has all that t lists, or t is in A, the triggers that were taken over.
Whole(S, A, t) == t \in A \/ \A e \in t.lists : Has(S, e)

\* A resume trigger targets the commit its name carries.
NameFits(t) == t.name.kind = "resume" => t.commit = t.name.at

\* A run that is under way has its merge commit.
HeadFits(p) == Active(p) => run[p].head \in Commits

\* What the run in the clone p relies on at each of its steps.
RunFits(p) ==
    /\ p \in Fresh /\ At(p, "idle") => local[p] = {}
    /\ \A e \in run[p].entries : e.tag.kind = "component"

CreateFits(p) ==
    At(p, "create") =>
        /\ \A e, f \in run[p].entries : e.tag = f.tag => e = f
        /\ \A e \in run[p].entries : \A t \in Named(local[p], e.tag) : t.commit = e.at

AnnounceFits(p) ==
    At(p, "announce") => \A e \in run[p].entries : Has(remote, e) /\ Has(local[p], e)

\* a resume has one component, and a trigger that lists nothing else unless
\* it is complete already or was taken over
ResumeFits(p) ==
    At(p, "tag") \/ At(p, "trigger") =>
        /\ \A e \in run[p].entries : e.at = run[p].head
        /\ \A e, f \in run[p].entries : e = f
        /\ \A n \in run[p].push : n.kind = "component"
        /\ run[p].trigger.kind # "component"
        /\ run[p].trigger.kind = "resume" => run[p].trigger.at = run[p].head
        /\ \A t \in Named(local[p], run[p].trigger) : Whole(remote, adopted, t) \/ t.lists \subseteq run[p].entries

TagFits(p) ==
    At(p, "trigger") => \A e \in run[p].entries : Has(remote \union Pushing(p), e) /\ Has(local[p], e)

PushFits(p) ==
    At(p, "push") => \A t \in Triggers(Pushing(p)) : Whole(remote \union Pushing(p), adopted, t)

\* What a clone holds came from origin or was signed in it, and a trigger that
\* was signed in it finds there what it lists.
HeldFits(p) == \A t \in local[p] : t \in remote \/ t.by[1] = p
BackedFits(p) ==
    p \notin Fresh => \A t \in Triggers(local[p]) : t.by[1] = p => \A e \in t.lists : Has(local[p], e)

CloneFits(p) ==
    /\ RunFits(p)
    /\ HeldFits(p)
    /\ BackedFits(p)
    /\ \A t \in local[p] : NameFits(t)
    /\ CreateFits(p)
    /\ AnnounceFits(p)
    /\ ResumeFits(p)
    /\ TagFits(p)
    /\ PushFits(p)

\* Who signed a tag keeps it, and a trigger that was taken over stays with who
\* signed it.
KeptFits == \A t \in remote : t.by[1] \notin Fresh => t \in local[t.by[1]]
AdoptedFits == \A t \in adopted : t.by[1] \in Clones \ Fresh /\ t \in Triggers(local[t.by[1]])

\* A trigger on origin is complete there unless it was taken over.
Complete == \A t \in Triggers(remote) : Whole(remote, adopted, t)

\* The inductive invariants: of the types alone, and of what is released.
TypeInv == TypeOK /\ \A p \in Clones : HeadFits(p)

IInv ==
    /\ TypeInv
    /\ \A t \in remote : NameFits(t)
    /\ KeptFits /\ AdoptedFits /\ Complete
    /\ \A p \in Clones : CloneFits(p)

-----------------------------------------------------------------------------
(***************************************************************************)
(* Objects and names.                                                      *)
(***************************************************************************)
\* More tags never take an entry away.
LEMMA HasGrows ==
    ASSUME NEW S, NEW T, S \subseteq T, NEW e, Has(S, e)
    PROVE  Has(T, e)
BY DEF Has, Named

LEMMA WholeGrows ==
    ASSUME NEW S, NEW T, S \subseteq T, NEW A, NEW B, A \subseteq B, NEW t, Whole(S, A, t)
    PROVE  Whole(T, B, t)
BY HasGrows DEF Whole

\* The names the code builds, and the objects it signs, are of their types.
LEMMA NameTypes ==
    ASSUME NEW k \in Components, NEW c \in Commits, NEW p \in Clones, TypeOK
    PROVE  /\ ComponentTag(k, c) \in Names /\ ResumeTrigger(k, c) \in Names
           /\ DatedTrigger(p, c) \in Names /\ NoName \in Names
           /\ Entry(k, c) \in Entries
BY ReleaseAssumption DEF TypeOK, ComponentTag, ResumeTrigger, DatedTrigger, NoName, Names, Entry, Entries

LEMMA SignedType ==
    ASSUME NEW p \in Clones, NEW n \in Names, NEW c \in Commits, NEW lists \in SUBSET Entries,
           NEW marker \in BOOLEAN, serial \in [Clones -> Nat]
    PROVE  Signed(p, n, c, lists, marker) \in Objects
BY DEF Signed, Objects

\* A new name keeps a clone's refs apart; so do a fetch and a push that meet
\* no other object of the same name.
LEMMA SignedApart ==
    ASSUME NEW S, NEW t, ~Clashes(S, S), ~Present(S, t.name)
    PROVE  ~Clashes(S \union {t}, S \union {t})
BY DEF Clashes, Present, Named

LEMMA UnionApart ==
    ASSUME NEW S, NEW T, ~Clashes(S, S), ~Clashes(T, T), ~Clashes(S, T)
    PROVE  ~Clashes(T \union S, T \union S)
BY DEF Clashes

LEMMA FetchedApart ==
    ASSUME NEW p \in Clones, TypeOK
    PROVE  /\ Fetched(p) \in SUBSET Objects
           /\ ~Clashes(Fetched(p), Fetched(p))
BY DEF TypeOK, Clashes, Fetched, Present, Named

-----------------------------------------------------------------------------
(***************************************************************************)
(* Types.                                                                  *)
(***************************************************************************)
LEMMA EndTypes ==
    ASSUME TypeOK, NEW p \in Clones, NEW S \in SUBSET Objects, ~Clashes(S, S), End(p, S),
           manual' = manual, raced' = raced, adopted' = adopted,
           budget' \in [runs : 0..MaxRuns, interrupts : 0..MaxInterrupts]
    PROVE  TypeOK'
<1>1. Idle \in Publication
  BY DEF Idle, NoName, Names, Publication
<1>2. ~Clashes({}, {})
  BY DEF Clashes
<1>3. /\ local' \in [Clones -> SUBSET Objects] /\ remote' \in SUBSET Objects
      /\ run' \in [Clones -> Publication] /\ serial' \in [Clones -> Nat]
  BY <1>1 DEF TypeOK, End
<1>4. ~Clashes(remote', remote') /\ \A q \in Clones : ~Clashes(local'[q], local'[q])
  BY <1>2 DEF TypeOK, End
<1> QED
  BY <1>3, <1>4 DEF TypeOK

\* A run that begins takes what was fetched.
LEMMA BeginTypes ==
    ASSUME TypeOK, NEW p \in Clones, NEW c \in Commits, Begin(p, c),
           run' \in [Clones -> Publication],
           NEW M, M \in SUBSET Commits, manual \subseteq M, Remember(p, c, M), adopted' \in SUBSET Objects,
           budget' \in [runs : 0..MaxRuns, interrupts : 0..MaxInterrupts]
    PROVE  TypeOK'
<1>1. local' \in [Clones -> SUBSET Objects] /\ \A q \in Clones : ~Clashes(local'[q], local'[q])
  BY FetchedApart DEF TypeOK, Begin
<1>2. manual' \in SUBSET Commits /\ raced' \subseteq manual'
  BY DEF TypeOK, Remember
<1> QED
  BY <1>1, <1>2 DEF TypeOK, Begin

\* A tag that is signed has a name the clone did not know.
LEMMA SignTypes ==
    ASSUME TypeOK, NEW p \in Clones, NEW t \in Objects, Sign(p, t), ~Present(local[p], t.name),
           run' \in [Clones -> Publication], UNCHANGED <<remote, serial, manual, raced, adopted, budget>>
    PROVE  TypeOK'
<1>1. local' \in [Clones -> SUBSET Objects] /\ \A q \in Clones : ~Clashes(local'[q], local'[q])
  BY SignedApart DEF TypeOK, Sign
<1> QED
  BY <1>1 DEF TypeOK

LEMMA BudgetTypes ==
    ASSUME TypeOK, Spend \/ Interrupted
    PROVE  budget' \in [runs : 0..MaxRuns, interrupts : 0..MaxInterrupts]
BY ReleaseAssumption DEF TypeOK, Spend, Interrupted

LEMMA TypeStep ==
    ASSUME TypeInv, [Next]_vars
    PROVE  TypeOK'
<1> USE DEF TypeInv
<1>1. CASE UNCHANGED vars
  BY <1>1 DEF TypeOK, vars
<1>2. ASSUME NEW p \in Clones, NEW c \in Commits, BeginPublish(p, c)
      PROVE  TypeOK'
  <2>1. run' \in [Clones -> Publication]
    BY <1>2 DEF BeginPublish, Started, Idle, NoName, Names, Publication, TypeOK
  <2> QED
    BY <1>2, <2>1, BudgetTypes, BeginTypes DEF BeginPublish, TypeOK
<1>3. ASSUME NEW p \in Clones, NEW c \in Commits, BeginCatalogOnly(p, c)
      PROVE  TypeOK'
  <2>1. run' \in [Clones -> Publication]
    BY <1>3 DEF BeginCatalogOnly, Started, Idle, NoName, Names, Publication, TypeOK
  <2> QED
    BY <1>3, <2>1, BudgetTypes, BeginTypes DEF BeginCatalogOnly, TypeOK
<1>4. ASSUME NEW p \in Clones, NEW c \in Commits, NEW k \in Components, BeginResume(p, c, k),
             budget' \in [runs : 0..MaxRuns, interrupts : 0..MaxInterrupts]
      PROVE  TypeOK'
  <2>1. TriggerFor(Fetched(p), k, c) \in Names
    <3> DEFINE T == TriggersAt(Fetched(p), c)
    <3>1. ResumeTrigger(k, c) \in Names /\ Fetched(p) \in SUBSET Objects
      BY NameTypes, FetchedApart
    <3>2. \A t \in T : t.name \in Names
      BY <3>1 DEF TriggersAt, Triggers, Objects
    <3>3. T # {} => (CHOOSE t \in T : TRUE) \in T
      OBVIOUS
    <3> HIDE DEF T
    <3>4. TriggerFor(Fetched(p), k, c) = IF T = {} THEN ResumeTrigger(k, c) ELSE (CHOOSE t \in T : TRUE).name
      BY DEF TriggerFor, T
    <3> QED
      BY <3>1, <3>2, <3>3, <3>4
  <2>2. run' \in [Clones -> Publication]
    <3> DEFINE n == TriggerFor(Fetched(p), k, c)
               r == [Idle EXCEPT !.pc = "tag", !.head = c, !.entries = {Entry(k, c)}, !.trigger = n]
    <3>1. {Entry(k, c)} \in SUBSET Entries
      BY NameTypes
    <3>2. run' = [run EXCEPT ![p] = r]
      BY <1>4 DEF BeginResume
    <3> HIDE DEF n
    <3>3. r \in Publication
      BY <2>1, <3>1 DEF Idle, Publication, n
    <3> QED
      BY <3>2, <3>3 DEF TypeOK
  <2>3. adopted' \in SUBSET Objects
    BY <1>4, FetchedApart DEF BeginResume, TriggersAt, Triggers, TypeOK
  <2> QED
    BY <1>4, <2>2, <2>3, BeginTypes DEF BeginResume, TypeOK
<1>5. ASSUME NEW p \in Clones, Step(p)
      PROVE  TypeOK'
  <2>1. HeadFits(p)
    OBVIOUS
  <2>2. ASSUME NEW E \in SUBSET Selectable(local[p], run[p].head), Verify(p, E)
        PROVE  TypeOK'
    <3>1. E \in SUBSET Entries
      BY NameTypes DEF Selectable
    <3>2. run[p] \in Publication /\ [run[p] EXCEPT !.pc = "create", !.entries = E] \in Publication
      BY <3>1 DEF TypeOK, Publication
    <3>3. run' \in [Clones -> Publication]
      BY <2>2, <3>2 DEF Verify, TypeOK
    <3> QED
      BY <2>2, <3>3 DEF Verify, TypeOK
  <2>3. ASSUME Refused(p)
        PROVE  TypeOK'
    BY <2>3, EndTypes DEF Refused, TypeOK
  <2>4. ASSUME NEW e \in run[p].entries, CreateTag(p, e)
        PROVE  TypeOK'
    <3>1. e \in Entries
      BY DEF TypeOK, Publication
    <3>2. Signed(p, e.tag, e.at, {}, FALSE) \in Objects /\ Signed(p, e.tag, e.at, {}, FALSE).name = e.tag
      BY <3>1, SignedType DEF Entries, Signed, TypeOK
    <3> QED
      BY <2>4, <3>2, SignTypes DEF CreateTag, TypeOK
  <2>5. ASSUME PushTags(p)
        PROVE  TypeOK'
    <3>1. Created(p) \subseteq local[p] /\ ~Clashes(Created(p), Created(p))
      BY DEF Created, TypeOK, Clashes
    <3>2. ~Clashes(remote', remote') /\ remote' \in SUBSET Objects
      BY <2>5, <3>1, UnionApart DEF PushTags, TypeOK
    <3> QED
      BY <2>5, <3>2 DEF PushTags, Goto, TypeOK, Publication
  <2>6. ASSUME NEW lists \in SUBSET Entries, NEW marker \in BOOLEAN, TriggerMade(p, lists, marker),
               Active(p)
        PROVE  TypeOK'
    <3> DEFINE n == DatedTrigger(p, run[p].head)
    <3>1. run[p].head \in Commits
      BY <2>1, <2>6 DEF HeadFits
    <3>2. /\ n \in Names
          /\ Signed(p, n, run[p].head, lists, marker) \in Objects
          /\ Signed(p, n, run[p].head, lists, marker).name = n
      <4>1. n \in Names
        BY <3>1, ReleaseAssumption DEF DatedTrigger, Names, TypeOK
      <4> QED
        BY <4>1, <3>1, SignedType DEF Signed, TypeOK
    <3> DEFINE r == [run[p] EXCEPT !.pc = "push", !.push = {n}]
    <3>3. run' \in [Clones -> Publication]
      <4>1. {n} \in SUBSET Names
        BY <3>2
      <4>2. run[p] \in Publication /\ r \in Publication
        <5> HIDE DEF n
        <5> QED
          BY <4>1 DEF TypeOK, Publication
      <4>3. run' = [run EXCEPT ![p] = r]
        BY <2>6 DEF TriggerMade
      <4> QED
        BY <4>2, <4>3 DEF TypeOK
    <3> QED
      BY <2>6, <3>2, <3>3, SignTypes DEF TriggerMade, TypeOK
  <2>7. ASSUME CreateTrigger(p)
        PROVE  TypeOK'
    <3>1. {e \in run[p].entries : e.tag.of \in Plugins} \in SUBSET Entries
      BY DEF TypeOK, Publication
    <3> QED
      BY <2>6, <2>7, <3>1 DEF CreateTrigger, Active, At
  <2>8. ASSUME NEW s \in Commits, CatalogOnly(p, s)
        PROVE  TypeOK'
    BY <2>6, <2>8 DEF CatalogOnly, Active, At
  <2>9. ASSUME NEW n \in Names, NEW lists \in SUBSET Entries, NEW marker \in BOOLEAN,
               NEW next \in {"trigger", "push"}, Ensure(p, n, lists, marker, next), Active(p)
        PROVE  TypeOK'
    <3> DEFINE P == IF Settled(p, n) THEN run[p].push ELSE run[p].push \union {n}
               r == [run[p] EXCEPT !.pc = next, !.push = P]
    <3>1. run' \in [Clones -> Publication]
      <4>1. P \in SUBSET Names
        BY DEF TypeOK, Publication
      <4>2. run[p] \in Publication /\ r \in Publication
        <5> HIDE DEF P
        <5> QED
          BY <4>1 DEF TypeOK, Publication
      <4>3. run' = [run EXCEPT ![p] = r]
        BY <2>9 DEF Ensure
      <4> QED
        BY <4>2, <4>3 DEF TypeOK
    <3>2. run[p].head \in Commits
      BY <2>1, <2>9 DEF HeadFits
    <3>3. /\ Signed(p, n, run[p].head, lists, marker) \in Objects
          /\ Signed(p, n, run[p].head, lists, marker).name = n
      BY <3>2, SignedType DEF Signed, TypeOK
    <3>4. CASE Missing(p, n) /\ Sign(p, Signed(p, n, run[p].head, lists, marker))
      BY <2>9, <3>1, <3>3, <3>4, SignTypes DEF Ensure, Missing, TypeOK
    <3>5. CASE UNCHANGED local
      BY <2>9, <3>1, <3>5 DEF Ensure, TypeOK
    <3> QED
      BY <2>9, <3>4, <3>5 DEF Ensure
  <2>10. ASSUME EnsureTag(p)
         PROVE  TypeOK'
    <3>1. PICK e \in run[p].entries : Ensure(p, e.tag, {}, FALSE, "trigger")
      BY <2>10 DEF EnsureTag
    <3>2. e.tag \in Names
      BY DEF TypeOK, Publication, Entries
    <3> QED
      BY <2>9, <2>10, <3>1, <3>2 DEF EnsureTag, Active, At
  <2>11. ASSUME EnsureTrigger(p)
         PROVE  TypeOK'
    <3>1. /\ {e \in run[p].entries : e.tag.of \in Plugins} \in SUBSET Entries
          /\ run[p].trigger \in Names
      BY DEF TypeOK, Publication
    <3> QED
      BY <2>9, <2>11, <3>1 DEF EnsureTrigger, Active, At
  <2>12. ASSUME EnsureRefuses(p)
         PROVE  TypeOK'
    BY <2>12, EndTypes DEF EnsureRefuses, TypeOK
  <2>13. ASSUME Push(p)
         PROVE  TypeOK'
    <3> DEFINE S == IF Clashes(Pushing(p), remote) THEN remote ELSE remote \union Pushing(p)
    <3>1. Pushing(p) \subseteq local[p] /\ ~Clashes(Pushing(p), Pushing(p))
      BY DEF Pushing, TypeOK, Clashes
    <3>2. S \in SUBSET Objects /\ ~Clashes(S, S)
      BY <3>1, UnionApart DEF TypeOK
    <3> QED
      BY <2>13, <3>2, EndTypes DEF Push, TypeOK
  <2> QED
    BY <1>5, <2>2, <2>3, <2>4, <2>5, <2>7, <2>8, <2>10, <2>11, <2>12, <2>13 DEF Step
<1>6. ASSUME NEW p \in Clones, NEW S \in SUBSET Created(p), PushTagsPartly(p, S)
      PROVE  TypeOK'
  <2>1. S \subseteq local[p] /\ ~Clashes(S, S)
    BY DEF Created, TypeOK, Clashes
  <2>2. (remote \union S) \in SUBSET Objects /\ ~Clashes(remote \union S, remote \union S)
    BY <1>6, <2>1, UnionApart DEF PushTagsPartly, TypeOK
  <2>3. budget' \in [runs : 0..MaxRuns, interrupts : 0..MaxInterrupts]
    BY <1>6, BudgetTypes DEF PushTagsPartly, TypeOK
  <2> QED
    BY <1>6, <2>2, <2>3, EndTypes DEF PushTagsPartly
<1>7. ASSUME NEW p \in Clones, Interrupt(p)
      PROVE  TypeOK'
  BY <1>7, BudgetTypes, EndTypes DEF Interrupt, TypeOK
<1>8. ASSUME NEW p \in Clones, NEW c \in Commits, NEW k \in Components,
             WorkflowResumes(p, c, k) \/ MaintainerResumes(p, c, k)
      PROVE  TypeOK'
  BY <1>4, <1>8, BudgetTypes DEF WorkflowResumes, MaintainerResumes, TypeOK
<1> QED
  BY <1>1, <1>2, <1>3, <1>5, <1>6, <1>7, <1>8 DEF Next

LEMMA HeadStep ==
    ASSUME TypeInv, [Next]_vars
    PROVE  \A p \in Clones : HeadFits(p)'
<1> SUFFICES ASSUME NEW q \in Clones
             PROVE  HeadFits(q)'
  OBVIOUS
<1>1. HeadFits(q) /\ run \in [Clones -> Publication]
  BY DEF TypeInv, TypeOK
<1>2. ASSUME NEW p \in Clones, NEW S, End(p, S)
      PROVE  HeadFits(q)'
  BY <1>1, <1>2 DEF End, HeadFits, Active, At, Idle
<1>3. ASSUME NEW p \in Clones, Step(p)
      PROVE  HeadFits(q)'
  <2>1. ASSUME run'[p].head = run[p].head, Active(p), \A o \in Clones \ {p} : run'[o] = run[o]
        PROVE  HeadFits(q)'
    BY <1>1, <2>1 DEF TypeInv, HeadFits, Active, At
  <2>2. ASSUME NEW E \in SUBSET Selectable(local[p], run[p].head), Verify(p, E)
        PROVE  HeadFits(q)'
    BY <1>1, <2>1, <2>2 DEF Verify, Publication, Active, At
  <2>3. ASSUME NEW lists, NEW marker, TriggerMade(p, lists, marker), Active(p)
        PROVE  HeadFits(q)'
    BY <1>1, <2>1, <2>3 DEF TriggerMade, Publication
  <2>4. ASSUME NEW n, NEW lists, NEW marker, NEW next, Ensure(p, n, lists, marker, next), Active(p)
        PROVE  HeadFits(q)'
    <3> DEFINE P == IF Settled(p, n) THEN run[p].push ELSE run[p].push \union {n}
    <3>1. run' = [run EXCEPT ![p] = [run[p] EXCEPT !.pc = next, !.push = P]]
      BY <2>4 DEF Ensure
    <3> HIDE DEF P
    <3> QED
      BY <1>1, <2>1, <2>4, <3>1 DEF Publication
  <2>5. ASSUME PushTags(p) \/ \E e \in run[p].entries : CreateTag(p, e)
        PROVE  HeadFits(q)'
    BY <1>1, <2>1, <2>5 DEF PushTags, CreateTag, Goto, Publication, Active, At
  <2>6. ASSUME EnsureTag(p) \/ EnsureTrigger(p)
        PROVE  HeadFits(q)'
    BY <2>4, <2>6 DEF EnsureTag, EnsureTrigger, Active, At
  <2>7. ASSUME CreateTrigger(p) \/ \E s \in Commits : CatalogOnly(p, s)
        PROVE  HeadFits(q)'
    BY <2>3, <2>7 DEF CreateTrigger, CatalogOnly, Active, At
  <2> QED
    BY <1>2, <1>3, <2>2, <2>5, <2>6, <2>7 DEF Step, Refused, EnsureRefuses, Push
<1>4. ASSUME NEW p \in Clones, NEW c \in Commits, BeginPublish(p, c) \/ BeginCatalogOnly(p, c)
      PROVE  HeadFits(q)'
  BY <1>1, <1>4 DEF BeginPublish, BeginCatalogOnly, Started, Idle, HeadFits, Active, At
<1>5. ASSUME NEW p \in Clones, NEW c \in Commits, NEW k \in Components,
             WorkflowResumes(p, c, k) \/ MaintainerResumes(p, c, k)
      PROVE  HeadFits(q)'
  BY <1>1, <1>5 DEF WorkflowResumes, MaintainerResumes, BeginResume, Idle, HeadFits, Active, At
<1>6. CASE UNCHANGED vars
  BY <1>1, <1>6 DEF vars, HeadFits, Active, At
<1> QED
  BY <1>2, <1>3, <1>4, <1>5, <1>6 DEF Next, Interrupt, PushTagsPartly

-----------------------------------------------------------------------------
(***************************************************************************)
(* The invariant.                                                          *)
(***************************************************************************)
\* What a step of the clone p may do to the tags: origin takes some of its, and
\* nothing is lost but on a runner's disk.
Moves(p) ==
    /\ remote \subseteq remote' /\ remote' \subseteq remote \union local[p]
    /\ adopted \subseteq adopted'
    /\ p \notin Fresh => local[p] \subseteq local'[p]
    /\ \A q \in Clones \ {p} : local'[q] = local[q] /\ run'[q] = run[q]

\* What other clones do only adds tags to origin: it disturbs no run.
LEMMA OthersFit ==
    ASSUME NEW q \in Clones, CloneFits(q), remote \subseteq remote', adopted \subseteq adopted',
           local'[q] = local[q], run'[q] = run[q]
    PROVE  CloneFits(q)'
<1>1. Pushing(q)' = Pushing(q)
  BY DEF Pushing
<1>2. remote \union Pushing(q) \subseteq (remote \union Pushing(q))'
  BY <1>1
<1>3. RunFits(q)' /\ HeldFits(q)' /\ (\A t \in local[q] : NameFits(t))' /\ CreateFits(q)'
  BY DEF CloneFits, RunFits, HeldFits, CreateFits, At, Active
<1>4. AnnounceFits(q)'
  BY HasGrows DEF CloneFits, AnnounceFits, At
<1>5. ResumeFits(q)'
  BY WholeGrows DEF CloneFits, ResumeFits, At
<1>6. TagFits(q)'
  BY <1>1, <1>2, HasGrows DEF CloneFits, TagFits, At
<1>7. PushFits(q)'
  BY <1>1, <1>2, WholeGrows DEF CloneFits, PushFits, At
<1>8. BackedFits(q)'
  BY DEF CloneFits, BackedFits, Has, Named, Triggers
<1> QED
  BY <1>3, <1>4, <1>5, <1>6, <1>7, <1>8 DEF CloneFits

\* Origin stays complete when what is added is component tags, or triggers
\* whose lists are met with them.
LEMMA AddedComplete ==
    ASSUME Complete, NEW T, \A t \in Triggers(T) : Whole(remote \union T, adopted, t),
           remote' = remote \union T, adopted \subseteq adopted'
    PROVE  Complete'
<1>1. ASSUME NEW t \in Triggers(remote')
      PROVE  Whole(remote', adopted', t)
  <2>1. CASE t \in remote
    <3>1. Whole(remote, adopted, t) /\ remote \subseteq remote'
      BY <1>1, <2>1 DEF Complete, Triggers
    <3> QED
      BY <3>1, WholeGrows
  <2>2. CASE t \in T
    <3>1. Whole(remote', adopted, t)
      BY <1>1, <2>2 DEF Triggers
    <3> QED
      BY <3>1, WholeGrows
  <2> QED
    BY <1>1, <2>1, <2>2 DEF Triggers
<1> QED
  BY <1>1 DEF Complete

\* What a step of the clone p must leave behind, for the invariant to hold.
LEMMA StepFits ==
    ASSUME IInv, TypeInv', NEW p \in Clones, Moves(p), Complete', CloneFits(p)',
           \A t \in adopted' \ adopted : p \notin Fresh /\ t.by[1] = p /\ t \in Triggers(local'[p])
    PROVE  IInv'
<1>1. \A q \in Clones \ {p} : CloneFits(q)'
  BY OthersFit DEF IInv, Moves
<1>2. \A t \in remote' : NameFits(t)
  BY DEF Moves, IInv, CloneFits
<1>3. \A o \in Clones \ Fresh : local[o] \subseteq local'[o]
  BY DEF Moves
<1>4. KeptFits'
  <2>1. SUFFICES ASSUME NEW t \in remote', t.by[1] \notin Fresh
                 PROVE  t \in local'[t.by[1]]
    BY DEF KeptFits
  <2>2. t.by[1] \in Clones
    BY <2>1 DEF TypeInv, TypeOK, Objects
  <2>3. CASE t \in remote
    BY <1>3, <2>1, <2>2, <2>3 DEF IInv, KeptFits
  <2>4. CASE t \notin remote
    <3>1. t \in local[p]
      BY <2>1, <2>4 DEF Moves
    <3>2. t.by[1] = p
      BY <2>4, <3>1 DEF IInv, CloneFits, HeldFits
    <3> QED
      BY <1>3, <2>1, <3>1, <3>2
  <2> QED
    BY <2>3, <2>4
<1>5. AdoptedFits'
  <2>1. SUFFICES ASSUME NEW t \in adopted'
                 PROVE  t.by[1] \in Clones \ Fresh /\ t \in Triggers(local'[t.by[1]])
    BY DEF AdoptedFits
  <2>2. CASE t \in adopted
    BY <1>3, <2>2 DEF IInv, AdoptedFits, Triggers
  <2>3. CASE t \notin adopted
    BY <2>1, <2>3
  <2> QED
    BY <2>2, <2>3
<1> QED
  BY <1>1, <1>2, <1>4, <1>5 DEF IInv, NameFits

\* A run that ends, whatever component tags or complete triggers it pushed.
LEMMA EndFits ==
    ASSUME IInv, TypeInv', NEW p \in Clones, NEW T, T \subseteq local[p], adopted' = adopted,
           \A t \in Triggers(T) : Whole(remote \union T, adopted, t), End(p, remote \union T)
    PROVE  IInv'
<1>1. /\ remote' = remote \union T /\ run'[p] = Idle /\ local'[p] \subseteq local[p]
      /\ p \notin Fresh => local'[p] = local[p]
  BY DEF End, IInv, TypeInv, TypeOK
<1>2. Moves(p)
  BY DEF Moves, End, IInv, TypeInv, TypeOK
<1>3. p \in Fresh => local'[p] = {}
  BY DEF End, IInv, TypeInv, TypeOK
<1>4. CloneFits(p)'
  <2>1. RunFits(p)' /\ (\A t \in local[p] : NameFits(t))' /\ HeldFits(p)'
    BY <1>1, <1>3 DEF RunFits, HeldFits, Active, At, Idle, IInv, CloneFits, NameFits
  <2>2. BackedFits(p)'
    BY <1>1 DEF BackedFits, IInv, CloneFits, Has, Named, Triggers
  <2> QED
    BY <1>1, <2>1, <2>2 DEF CloneFits, CreateFits, AnnounceFits, ResumeFits, TagFits, PushFits, At, Idle
<1>5. Complete'
  BY <1>1, AddedComplete DEF IInv
<1> QED
  BY <1>2, <1>4, <1>5, StepFits

\* A run that stops without a push.
LEMMA StopFits ==
    ASSUME IInv, TypeInv', NEW p \in Clones, End(p, remote), adopted' = adopted
    PROVE  IInv'
<1>1. Triggers({}) = {} /\ remote \union {} = remote
  BY DEF Triggers
<1> QED
  BY <1>1, EndFits, Zenon

\* A step that leaves origin alone.
LEMMA QuietFits ==
    ASSUME IInv, TypeInv', NEW p \in Clones, remote' = remote, adopted' = adopted, CloneFits(p)',
           p \notin Fresh => local[p] \subseteq local'[p],
           \A q \in Clones \ {p} : local'[q] = local[q] /\ run'[q] = run[q]
    PROVE  IInv'
<1>1. Complete'
  BY DEF IInv, Complete, Whole, Has, Named, Triggers
<1> QED
  BY <1>1, StepFits DEF Moves

\* A fetch keeps the names of a clone's tags, and gives a fresh clone what
\* origin has.
LEMMA FetchFits ==
    ASSUME IInv, NEW p \in Clones, NEW c \in Commits, Begin(p, c)
    PROVE  /\ local'[p] = Fetched(p) /\ remote' = remote /\ local[p] \subseteq Fetched(p)
           /\ \A q \in Clones \ {p} : local'[q] = local[q]
           /\ \A t \in Fetched(p) : NameFits(t)
           /\ p \in Fresh => Fetched(p) \subseteq remote
           /\ HeldFits(p)' /\ BackedFits(p)'
<1>1. At(p, "idle") /\ CloneFits(p)
  BY DEF IInv, Begin
<1>2. local'[p] = Fetched(p) /\ remote' = remote
  BY DEF IInv, TypeInv, TypeOK, Begin
<1>3. local[p] \subseteq Fetched(p) /\ Fetched(p) \subseteq local[p] \union remote
  BY DEF Fetched
<1>4. HeldFits(p)'
  BY <1>1, <1>2, <1>3 DEF CloneFits, HeldFits
<1>5. BackedFits(p)'
  <2>1. SUFFICES ASSUME p \notin Fresh, NEW t \in Triggers(Fetched(p)), t.by[1] = p, NEW e \in t.lists
                 PROVE  Has(Fetched(p), e)
    BY <1>2 DEF BackedFits
  <2>2. t \in Triggers(local[p])
    BY <1>3, <2>1 DEF IInv, KeptFits, Triggers
  <2>3. Has(local[p], e)
    BY <1>1, <2>1, <2>2 DEF CloneFits, BackedFits
  <2> QED
    BY <1>3, <2>3, HasGrows
<1> QED
  BY <1>1, <1>2, <1>3, <1>4, <1>5 DEF IInv, TypeInv, TypeOK, Begin, CloneFits, RunFits

LEMMA BeginInv ==
    ASSUME IInv, TypeInv', NEW p \in Clones, NEW c \in Commits,
           BeginPublish(p, c) \/ BeginCatalogOnly(p, c)
    PROVE  IInv'
<1>1. Begin(p, c) /\ (Started(p, c, "verify") \/ Started(p, c, "catalog")) /\ adopted' = adopted
  BY DEF BeginPublish, BeginCatalogOnly
<1>2. /\ run'[p].pc \in {"verify", "catalog"} /\ run'[p].head = c /\ run'[p].entries = {}
      /\ \A q \in Clones \ {p} : run'[q] = run[q]
  <2>1. run \in [Clones -> Publication]
    BY DEF IInv, TypeInv, TypeOK
  <2> QED
    BY <1>1, <2>1 DEF Started, Idle
<1>3. CloneFits(p)'
  BY <1>1, <1>2, FetchFits
     DEF CloneFits, RunFits, NameFits, CreateFits, AnnounceFits, ResumeFits, TagFits, PushFits, At, Active
<1> QED
  BY <1>1, <1>2, <1>3, FetchFits, QuietFits

\* A resume settles on a trigger that lists nothing but its component, that
\* origin already has, or that a pack takes over: one its own clone signed.
LEMMA ResumeInv ==
    ASSUME IInv, TypeInv', NEW p \in Clones, NEW c \in Commits, NEW k \in Components,
           WorkflowResumes(p, c, k) \/ MaintainerResumes(p, c, k)
    PROVE  IInv'
<1> DEFINE F == Fetched(p)
           n == TriggerFor(F, k, c)
           N == {t \in TriggersAt(F, c) \ remote : k \in Packs}
<1>1. /\ BeginResume(p, c, k) /\ Begin(p, c) /\ MayUse(F, k, c)
      /\ adopted' = adopted \union N
  BY DEF WorkflowResumes, MaintainerResumes, BeginResume
<1>2. /\ run'[p].pc = "tag" /\ run'[p].head = c /\ run'[p].entries = {Entry(k, c)}
      /\ run'[p].trigger = n /\ run'[p].push = {}
      /\ \A q \in Clones \ {p} : run'[q] = run[q]
  BY <1>1 DEF BeginResume, Idle, IInv, TypeInv, TypeOK
<1>3. /\ n.kind # "component" /\ (n.kind = "resume" => n.at = c)
      /\ \A t \in Named(F, n) : Whole(remote, adopted', t) \/ t.lists \subseteq {Entry(k, c)}
  <2>1. CASE TriggersAt(F, c) = {}
    <3>1. n = ResumeTrigger(k, c)
      BY <2>1 DEF TriggerFor
    <3>2. n.kind = "resume" /\ n.at = c
      BY <3>1 DEF ResumeTrigger
    <3>3. \A t \in Named(F, n) : t \in TriggersAt(F, c)
      BY <1>1, <3>2, FetchFits DEF Named, NameFits, TriggersAt, Triggers
    <3> QED
      BY <2>1, <3>2, <3>3
  <2>2. CASE TriggersAt(F, c) # {}
    <3> DEFINE u == CHOOSE t \in TriggersAt(F, c) : TRUE
    <3>1. u \in TriggersAt(F, c) /\ n = u.name
      BY <2>2 DEF TriggerFor
    <3>2. u \in F /\ n.kind # "component" /\ (n.kind = "resume" => n.at = c)
      BY <1>1, <3>1, FetchFits DEF TriggersAt, Triggers, NameFits
    <3> HIDE DEF u, n, F
    <3>3. \A t \in Named(F, n) : t = u
      BY <3>1, <3>2, FetchedApart DEF Named, Clashes, IInv, TypeInv, F
    <3>4. CASE k \in Plugins
      BY <1>1, <3>1, <3>2, <3>3, <3>4 DEF MayUse
    <3>5. CASE k \in Packs /\ u \notin remote
      BY <1>1, <3>1, <3>2, <3>3, <3>5 DEF Whole
    <3>6. CASE u \in remote
      <4>1. u \in Triggers(remote)
        BY <3>1, <3>6 DEF TriggersAt, Triggers
      <4>2. Whole(remote, adopted', u)
        BY <1>1, <4>1, WholeGrows DEF IInv, Complete
      <4> QED
        BY <3>2, <3>3, <4>2
    <3> QED
      BY <3>4, <3>5, <3>6 DEF Components
  <2> QED
    BY <2>1, <2>2
<1>4. \A t \in adopted' \ adopted : p \notin Fresh /\ t.by[1] = p /\ t \in Triggers(local'[p])
  <2>1. SUFFICES ASSUME NEW t \in N
                 PROVE  p \notin Fresh /\ t.by[1] = p /\ t \in Triggers(local'[p])
    BY <1>1
  <2>2. t \in Triggers(F) /\ t \notin remote
    BY DEF TriggersAt
  <2> QED
    BY <1>1, <2>2, FetchFits DEF HeldFits, Triggers
<1> HIDE DEF F, n, N
<1>5. Entry(k, c).at = c /\ Entry(k, c).tag.kind = "component"
  BY DEF Entry, ComponentTag
<1>6. RunFits(p)' /\ (\A t \in local[p] : NameFits(t))'
  BY <1>1, <1>2, <1>5, FetchFits DEF RunFits, Active, At, NameFits
<1>7. ResumeFits(p)'
  BY <1>1, <1>2, <1>3, <1>5, FetchFits DEF ResumeFits, F, Whole, Has, At
<1>8. CloneFits(p)'
  BY <1>1, <1>2, <1>6, <1>7, FetchFits DEF CloneFits, CreateFits, AnnounceFits, TagFits, PushFits, At
<1>9. Complete'
  <2>1. remote' = remote /\ adopted \subseteq adopted'
    BY <1>1, FetchFits
  <2> QED
    BY <2>1, WholeGrows DEF IInv, Complete
<1>10. Moves(p)
  BY <1>1, <1>2, FetchFits DEF Moves
<1> QED
  BY <1>4, <1>8, <1>9, <1>10, StepFits

\* What is selected exists nowhere yet.
LEMMA VerifyInv ==
    ASSUME IInv, TypeInv', NEW p \in Clones, NEW E \in SUBSET Selectable(local[p], run[p].head),
           Verify(p, E)
    PROVE  IInv'
<1>1. /\ run'[p] = [run[p] EXCEPT !.pc = "create", !.entries = E]
      /\ local' = local /\ remote' = remote /\ adopted' = adopted
      /\ \A q \in Clones \ {p} : run'[q] = run[q]
  BY DEF Verify, IInv, TypeInv, TypeOK
<1>2. run'[p].pc = "create" /\ run'[p].entries = E /\ run'[p].head = run[p].head
  BY <1>1 DEF IInv, TypeInv, TypeOK, Publication
<1>3. \A e \in E : e.tag.kind = "component"
  BY DEF Selectable, Entry, ComponentTag
<1>4. /\ At(p, "verify") /\ \A e \in E : Named(local[p], e.tag) = {}
      /\ \A e, f \in E : e.tag = f.tag => e = f
  BY DEF Verify, Present, Named
<1>5. CloneFits(p)'
  BY <1>1, <1>2, <1>3, <1>4
     DEF IInv, CloneFits, RunFits, HeldFits, BackedFits, CreateFits, AnnounceFits, ResumeFits, TagFits,
         PushFits, At, Active, NameFits
<1> QED
  BY <1>1, <1>5, QuietFits

LEMMA CreateInv ==
    ASSUME IInv, TypeInv', NEW p \in Clones, NEW e \in run[p].entries, CreateTag(p, e)
    PROVE  IInv'
<1> DEFINE u == Signed(p, e.tag, e.at, {}, FALSE)
<1>1. /\ local'[p] = local[p] \union {u} /\ run' = run /\ remote' = remote /\ adopted' = adopted
      /\ \A q \in Clones \ {p} : local'[q] = local[q]
  BY DEF CreateTag, Sign, IInv, TypeInv, TypeOK
<1>2. u.name = e.tag /\ u.commit = e.at /\ u.by[1] = p
  BY DEF Signed
<1> HIDE DEF u
<1>3. /\ At(p, "create") /\ CloneFits(p) /\ e.tag.kind = "component"
      /\ \A f \in run[p].entries : f.tag = e.tag => f.at = e.at
  BY DEF CreateTag, IInv, CloneFits, RunFits, CreateFits
<1>4. CreateFits(p)'
  BY <1>1, <1>2, <1>3 DEF CreateFits, CloneFits, Named, At
<1>5. HeldFits(p)' /\ BackedFits(p)'
  BY <1>1, <1>2, <1>3 DEF CloneFits, HeldFits, BackedFits, Has, Named, Triggers
<1>6. CloneFits(p)'
  BY <1>1, <1>2, <1>3, <1>4, <1>5
     DEF CloneFits, RunFits, AnnounceFits, ResumeFits, TagFits, PushFits, At, Active, NameFits
<1> QED
  BY <1>1, <1>6, QuietFits

\* The tags made for the entries are component tags, at the entries' commits.
LEMMA CreatedFit ==
    ASSUME IInv, NEW p \in Clones, At(p, "create")
    PROVE  /\ Created(p) \subseteq local[p] /\ Triggers(Created(p)) = {}
           /\ AllCreated(p) => \A e \in run[p].entries : Has(Created(p), e)
<1>1. CloneFits(p)
  BY DEF IInv
<1>2. \A e \in run[p].entries : e.tag.kind = "component"
  BY <1>1 DEF CloneFits, RunFits
<1>3. \A e \in run[p].entries : \A t \in Named(local[p], e.tag) : t.commit = e.at /\ t \in Created(p)
  BY <1>1 DEF CloneFits, CreateFits, Created, Named
<1>4. \A e \in run[p].entries : Present(local[p], e.tag) => Has(Created(p), e)
  BY <1>3 DEF Present, Has, Named
<1> QED
  BY <1>2, <1>4 DEF Created, Triggers, AllCreated

LEMMA PushTagsInv ==
    ASSUME IInv, TypeInv', NEW p \in Clones, PushTags(p)
    PROVE  IInv'
<1>1. /\ At(p, "create") /\ AllCreated(p) /\ remote' = remote \union Created(p) /\ local' = local
      /\ adopted' = adopted
      /\ run'[p] = [run[p] EXCEPT !.pc = "announce"]
      /\ \A q \in Clones \ {p} : run'[q] = run[q]
  BY DEF PushTags, Goto, IInv, TypeInv, TypeOK
<1>2. run'[p].pc = "announce" /\ run'[p].entries = run[p].entries /\ run'[p].head = run[p].head
  BY <1>1 DEF IInv, TypeInv, TypeOK, Publication
<1>3. AnnounceFits(p)'
  <2>1. Created(p) \subseteq remote'
    BY <1>1
  <2>2. Created(p) \subseteq local'[p]
    BY <1>1, CreatedFit
  <2>3. \A e \in run[p].entries : Has(remote', e) /\ Has(local'[p], e)
    BY <1>1, <2>1, <2>2, CreatedFit, HasGrows
  <2> QED
    BY <1>2, <2>3 DEF AnnounceFits, Has
<1>4. CloneFits(p)'
  BY <1>1, <1>2, <1>3
     DEF IInv, CloneFits, RunFits, HeldFits, BackedFits, CreateFits, ResumeFits, TagFits, PushFits, At,
         Active, NameFits
<1>5. Complete'
  BY <1>1, CreatedFit, AddedComplete DEF IInv
<1>6. Moves(p)
  BY <1>1, CreatedFit DEF Moves
<1> QED
  BY <1>1, <1>4, <1>5, <1>6, StepFits

LEMMA PushPartlyInv ==
    ASSUME IInv, TypeInv', NEW p \in Clones, NEW S \in SUBSET Created(p), PushTagsPartly(p, S)
    PROVE  IInv'
<1>1. At(p, "create") /\ End(p, remote \union S) /\ adopted' = adopted
  BY DEF PushTagsPartly
<1>2. S \subseteq local[p] /\ Triggers(S) = {}
  BY <1>1, CreatedFit DEF Triggers
<1> QED
  BY <1>1, <1>2, EndFits

\* A new trigger goes alone, and what it lists is on origin.
LEMMA TriggerInv ==
    ASSUME IInv, TypeInv', NEW p \in Clones, NEW lists \in SUBSET Entries, NEW marker \in BOOLEAN,
           Active(p), TriggerMade(p, lists, marker),
           \A e \in lists : Has(remote, e) /\ Has(local[p], e)
    PROVE  IInv'
<1> DEFINE n == DatedTrigger(p, run[p].head)
           u == Signed(p, n, run[p].head, lists, marker)
<1>1. /\ local'[p] = local[p] \union {u} /\ remote' = remote /\ ~Present(local[p], n)
      /\ adopted' = adopted
      /\ run'[p] = [run[p] EXCEPT !.pc = "push", !.push = {n}]
      /\ \A q \in Clones \ {p} : local'[q] = local[q] /\ run'[q] = run[q]
  BY DEF TriggerMade, Sign, IInv, TypeInv, TypeOK
<1>2. /\ run'[p].pc = "push" /\ run'[p].push = {n}
      /\ run'[p].entries = run[p].entries /\ run'[p].head = run[p].head
  BY <1>1 DEF IInv, TypeInv, TypeOK, Publication
<1>3. u.name = n /\ u.lists = lists /\ NameFits(u) /\ u.by[1] = p
  BY DEF Signed, NameFits, DatedTrigger
<1> HIDE DEF n, u
<1>4. Pushing(p)' = {u}
  BY <1>1, <1>2, <1>3 DEF Pushing, Present, Named
<1>5. PushFits(p)'
  <2>1. Whole(remote, adopted, u) /\ remote \subseteq (remote \union Pushing(p))'
    BY <1>1, <1>3 DEF Whole
  <2>2. Whole((remote \union Pushing(p))', adopted', u)
    BY <1>1, <2>1, WholeGrows
  <2> QED
    BY <1>4, <2>2 DEF PushFits, Triggers, Whole, Has
<1>6. HeldFits(p)' /\ BackedFits(p)'
  BY <1>1, <1>3 DEF IInv, CloneFits, HeldFits, BackedFits, Has, Named, Triggers
<1>7. CloneFits(p)'
  <2>1. CloneFits(p)
    BY DEF IInv
  <2>2. \A t \in local'[p] : NameFits(t)
    BY <1>1, <1>3, <2>1 DEF CloneFits
  <2>3. RunFits(p)' /\ CreateFits(p)' /\ AnnounceFits(p)' /\ ResumeFits(p)' /\ TagFits(p)'
    BY <1>2, <2>1 DEF CloneFits, RunFits, CreateFits, AnnounceFits, ResumeFits, TagFits, At
  <2> QED
    BY <1>5, <1>6, <2>2, <2>3 DEF CloneFits, NameFits
<1> QED
  BY <1>1, <1>7, QuietFits

\* A component whose tag is missing, to be pushed or there: pushing makes it
\* complete.
LEMMA EnsureTagInv ==
    ASSUME IInv, TypeInv', NEW p \in Clones, EnsureTag(p)
    PROVE  IInv'
<1>1. PICK e \in run[p].entries : Ensure(p, e.tag, {}, FALSE, "trigger")
  BY DEF EnsureTag
<1> DEFINE u == Signed(p, e.tag, run[p].head, {}, FALSE)
           P == IF Settled(p, e.tag) THEN run[p].push ELSE run[p].push \union {e.tag}
<1>2. /\ At(p, "tag") /\ CloneFits(p) /\ e.tag.kind = "component" /\ e.at = run[p].head
      /\ \A f \in run[p].entries : f = e
      /\ \A n \in run[p].push : n.kind = "component"
      /\ run[p].trigger.kind # "component"
      /\ run[p].trigger.kind = "resume" => run[p].trigger.at = run[p].head
  BY DEF EnsureTag, IInv, CloneFits, RunFits, ResumeFits
<1>3. /\ remote' = remote /\ adopted' = adopted
      /\ run'[p] = [run[p] EXCEPT !.pc = "trigger", !.push = P]
      /\ \A q \in Clones \ {p} : local'[q] = local[q] /\ run'[q] = run[q]
      /\ local'[p] = local[p] \union {u} \/ local'[p] = local[p]
  BY <1>1 DEF Ensure, Sign, IInv, TypeInv, TypeOK
<1>4. u.name = e.tag /\ u.commit = run[p].head /\ NameFits(u) /\ u.by[1] = p
  BY <1>2 DEF Signed, NameFits
<1>5. /\ run'[p].pc = "trigger" /\ run'[p].push = P /\ run'[p].entries = run[p].entries
      /\ run'[p].head = run[p].head /\ run'[p].trigger = run[p].trigger
  <2> HIDE DEF P
  <2> QED
    BY <1>3 DEF IInv, TypeInv, TypeOK, Publication
<1>6. Named(local'[p], run[p].trigger) = Named(local[p], run[p].trigger)
  <2> HIDE DEF u
  <2> QED
    BY <1>2, <1>3, <1>4 DEF Named
<1>7. Has((remote \union Pushing(p))', e) /\ Has(local'[p], e)
  <2>1. CASE Missing(p, e.tag) /\ Sign(p, u)
    <3>1. u \in local'[p] /\ e.tag \in P
      BY <2>1 DEF Missing, Settled, Kept, Present, Named, Sign, IInv, TypeInv, TypeOK
    <3> HIDE DEF u, P
    <3>2. u \in (remote \union Pushing(p))'
      BY <1>4, <1>5, <3>1 DEF Pushing
    <3> QED
      BY <1>2, <1>4, <3>1, <3>2 DEF Has, Named
  <2>2. CASE ToPush(p, e.tag) /\ local' = local
    <3>1. PICK t \in Named(local[p], e.tag) : t.commit = run[p].head
      BY <2>2 DEF ToPush, Kept
    <3>2. e.tag \in P
      BY <2>2, <3>1 DEF ToPush, Settled, Present, Named
    <3> HIDE DEF P
    <3>3. t \in (remote \union Pushing(p))'
      BY <1>5, <2>2, <3>1, <3>2 DEF Pushing, Named
    <3> QED
      BY <1>2, <2>2, <3>1, <3>3 DEF Has, Named
  <2>3. CASE Settled(p, e.tag)
    BY <1>2, <1>3, <2>3 DEF Settled, Kept, Has, Named
  <2> QED
    BY <1>1, <2>1, <2>2, <2>3 DEF Ensure
<1>8. TagFits(p)'
  BY <1>2, <1>5, <1>7 DEF TagFits, Has
<1>9. ResumeFits(p)'
  <2>1. \A n \in P : n.kind = "component"
    BY <1>2
  <2> HIDE DEF P
  <2> QED
    BY <1>2, <1>3, <1>5, <1>6, <2>1 DEF ResumeFits, CloneFits, Whole, Has, At
<1> HIDE DEF u, P
<1>10. HeldFits(p)' /\ BackedFits(p)'
  BY <1>2, <1>3, <1>4 DEF CloneFits, HeldFits, BackedFits, Has, Named, Triggers
<1>11. CloneFits(p)'
  BY <1>2, <1>3, <1>4, <1>5, <1>8, <1>9, <1>10
     DEF CloneFits, RunFits, CreateFits, AnnounceFits, PushFits, At, Active, NameFits
<1> QED
  BY <1>3, <1>11, QuietFits

\* The trigger that is pushed with the tag, or after it, lists no more.
LEMMA EnsureTriggerInv ==
    ASSUME IInv, TypeInv', NEW p \in Clones, EnsureTrigger(p)
    PROVE  IInv'
<1> DEFINE n == run[p].trigger
           lists == {e \in run[p].entries : e.tag.of \in Plugins}
           u == Signed(p, n, run[p].head, lists, TRUE)
           P == IF Settled(p, n) THEN run[p].push ELSE run[p].push \union {n}
<1>1. Ensure(p, n, lists, TRUE, "push") /\ At(p, "trigger")
  BY DEF EnsureTrigger
<1>2. /\ CloneFits(p)
      /\ \A m \in run[p].push : m.kind = "component"
      /\ \A t \in Named(local[p], n) : Whole(remote, adopted, t) \/ t.lists \subseteq run[p].entries
      /\ \A e \in run[p].entries : Has(remote \union Pushing(p), e) /\ Has(local[p], e)
  BY <1>1 DEF IInv, CloneFits, ResumeFits, TagFits
<1>3. /\ remote' = remote /\ adopted' = adopted
      /\ run'[p] = [run[p] EXCEPT !.pc = "push", !.push = P]
      /\ \A q \in Clones \ {p} : local'[q] = local[q] /\ run'[q] = run[q]
      /\ local'[p] = local[p] \/ (local'[p] = local[p] \union {u} /\ Missing(p, n))
  BY <1>1 DEF Ensure, Sign, IInv, TypeInv, TypeOK
<1>4. u.name = n /\ u.lists = lists /\ u.commit = run[p].head /\ u.by[1] = p
  BY DEF Signed
<1>5. /\ run'[p].pc = "push" /\ run'[p].push = P
      /\ run'[p].entries = run[p].entries /\ run'[p].head = run[p].head
  <2> HIDE DEF P
  <2> QED
    BY <1>3 DEF IInv, TypeInv, TypeOK, Publication
<1>6. remote \union Pushing(p) \subseteq (remote \union Pushing(p))'
  <2>1. run[p].push \subseteq P /\ local[p] \subseteq local'[p]
    BY <1>3
  <2> HIDE DEF P
  <2> QED
    BY <1>3, <1>5, <2>1 DEF Pushing
<1>7. \A t \in Triggers(Pushing(p)') : t.name = n
  <2>1. \A m \in P : m.kind = "component" \/ m = n
    BY <1>2
  <2> HIDE DEF P
  <2> QED
    BY <1>5, <2>1 DEF Pushing, Triggers
<1>8. ASSUME NEW t \in Triggers(Pushing(p)')
      PROVE  Whole((remote \union Pushing(p))', adopted', t)
  <2>1. t \in local'[p] /\ t.name = n
    BY <1>7, <1>8 DEF Triggers, Pushing
  <2>2. CASE Whole(remote, adopted, t)
    BY <1>3, <2>2, WholeGrows
  <2>3. CASE t.lists \subseteq run[p].entries
    <3>1. \A e \in t.lists : Has((remote \union Pushing(p))', e)
      BY <1>2, <1>6, <2>3, HasGrows
    <3> QED
      BY <3>1 DEF Whole
  <2>4. t \in local[p] \/ t = u
    BY <1>3, <2>1
  <2> HIDE DEF u
  <2> QED
    BY <1>2, <1>4, <2>1, <2>2, <2>3, <2>4 DEF Named
<1>9. PushFits(p)'
  BY <1>8 DEF PushFits, Triggers, Whole, Has
<1>10. \A t \in local'[p] : NameFits(t)
  <2>1. n.kind # "resume" \/ n.at = run[p].head
    BY <1>1, <1>2 DEF CloneFits, ResumeFits
  <2> HIDE DEF u
  <2> QED
    BY <1>2, <1>3, <1>4, <2>1 DEF CloneFits, NameFits
<1>11. HeldFits(p)' /\ BackedFits(p)'
  <2>1. u.lists \subseteq run[p].entries
    BY <1>4
  <2> HIDE DEF u
  <2> QED
    BY <1>2, <1>3, <1>4, <2>1 DEF CloneFits, HeldFits, BackedFits, Has, Named, Triggers
<1> HIDE DEF u, P
<1>12. CloneFits(p)'
  BY <1>2, <1>5, <1>9, <1>10, <1>11
     DEF CloneFits, RunFits, CreateFits, AnnounceFits, ResumeFits, TagFits, At, Active, NameFits
<1> QED
  BY <1>3, <1>12, QuietFits

LEMMA PushInv ==
    ASSUME IInv, TypeInv', NEW p \in Clones, Push(p)
    PROVE  IInv'
<1>1. At(p, "push") /\ CloneFits(p) /\ adopted' = adopted
  BY DEF Push, IInv
<1>2. CASE Clashes(Pushing(p), remote)
  BY <1>1, <1>2, StopFits DEF Push
<1>3. CASE ~Clashes(Pushing(p), remote)
  <2>1. End(p, remote \union Pushing(p)) /\ Pushing(p) \subseteq local[p]
    BY <1>3 DEF Push, Pushing
  <2>2. \A t \in Triggers(Pushing(p)) : Whole(remote \union Pushing(p), adopted, t)
    BY <1>1 DEF CloneFits, PushFits
  <2> QED
    BY <1>1, <2>1, <2>2, EndFits
<1> QED
  BY <1>2, <1>3

-----------------------------------------------------------------------------
(***************************************************************************)
(* Theorems.                                                               *)
(***************************************************************************)
LEMMA InitInv == Init => IInv
<1> SUFFICES ASSUME Init PROVE IInv
  OBVIOUS
<1>1. Idle \in Publication
  BY DEF Idle, NoName, Names, Publication
<1>2. TypeInv
  BY <1>1, ReleaseAssumption DEF Init, TypeInv, TypeOK, Clashes, HeadFits, Active, At, Idle
<1>3. \A p \in Clones : run[p] = Idle /\ local[p] = {}
  BY DEF Init
<1>4. \A p \in Clones : CloneFits(p)
  BY <1>3 DEF CloneFits, RunFits, CreateFits, HeldFits, BackedFits, AnnounceFits, ResumeFits,
              TagFits, PushFits, Triggers, At, Active, Idle
<1> QED
  BY <1>2, <1>4 DEF Init, IInv, KeptFits, AdoptedFits, Complete, Triggers

LEMMA StepInv ==
    ASSUME IInv, [Next]_vars
    PROVE  IInv'
<1>1. TypeInv'
  BY TypeStep, HeadStep DEF IInv, TypeInv
<1>2. CASE UNCHANGED vars
  <2>1. \A p \in Clones : CloneFits(p)'
    BY <1>2, OthersFit DEF vars, IInv
  <2> QED
    BY <1>1, <1>2, <2>1 DEF vars, IInv, KeptFits, AdoptedFits, Complete, Whole, Has, Triggers, Named, NameFits
<1>3. ASSUME NEW p \in Clones, Step(p)
      PROVE  IInv'
  <2>1. ASSUME CreateTrigger(p)
        PROVE  IInv'
    <3>1. /\ At(p, "announce") /\ \A e \in run[p].entries : Has(remote, e) /\ Has(local[p], e)
          /\ run[p].entries \in SUBSET Entries
      BY <2>1 DEF CreateTrigger, IInv, CloneFits, AnnounceFits, TypeInv, TypeOK, Publication
    <3> QED
      BY <1>1, <2>1, <3>1, TriggerInv DEF CreateTrigger, Active, At
  <2>2. ASSUME NEW s \in Commits, CatalogOnly(p, s)
        PROVE  IInv'
    <3>1. Active(p) /\ TriggerMade(p, {}, FALSE)
      BY <2>2 DEF CatalogOnly, Active, At
    <3> DEFINE L == {}
               m == FALSE
    <3>2. /\ L \in SUBSET Entries /\ m \in BOOLEAN /\ TriggerMade(p, L, m)
          /\ \A e \in L : Has(remote, e) /\ Has(local[p], e)
      BY <3>1
    <3> HIDE DEF L, m
    <3> QED
      BY <1>1, <3>1, <3>2, TriggerInv
  <2> QED
    BY <1>1, <1>3, <2>1, <2>2, VerifyInv, CreateInv, PushTagsInv, EnsureTagInv, EnsureTriggerInv, PushInv,
       StopFits DEF Step, Refused, EnsureRefuses
<1> QED
  BY <1>1, <1>2, <1>3, BeginInv, ResumeInv, PushPartlyInv, StopFits DEF Next, Interrupt

\* Every clone and origin hold well-formed tags, and no name stands for two
\* objects in one place, whatever is fetched, made, pushed or refused.
THEOREM TypeCorrect == Spec => []TypeOK
<1>1. Init => TypeInv
  BY InitInv DEF IInv
<1>2. TypeInv /\ [Next]_vars => TypeInv'
  BY TypeStep, HeadStep DEF TypeInv
<1>3. TypeInv => TypeOK
  BY DEF TypeInv
<1> QED
  BY <1>1, <1>2, <1>3, PTL DEF Spec

\* A trigger that is listed on origin without its tag was taken over: whoever
\* signed it has the tag.
LEMMA CompleteFits ==
    ASSUME IInv
    PROVE  TriggerComplete
<1> SUFFICES ASSUME NEW t \in Triggers(remote), NEW e \in t.lists, ~Has(remote, e)
             PROVE  LeftBehind(t, e)
  BY DEF TriggerComplete, Has
<1>1. t \in adopted
  BY DEF IInv, Complete, Whole
<1>2. Has(local[t.by[1]], e)
  BY <1>1 DEF IInv, AdoptedFits, CloneFits, BackedFits
<1> QED
  BY <1>1, <1>2 DEF LeftBehind, Has, Named

\* A release trigger on origin finds on origin every component tag its body
\* lists, at the listed commit, for any number of clones, runs and
\* interruptions; if not, a rule pack's resume took the trigger over, and the
\* tag is in the clone that signed it.
THEOREM TriggersComplete == Spec => []TriggerComplete
<1>1. IInv /\ [Next]_vars => IInv'
  BY StepInv
<1>2. IInv => TriggerComplete
  BY CompleteFits
<1> QED
  BY InitInv, <1>1, <1>2, PTL DEF Spec

-----------------------------------------------------------------------------
(***************************************************************************)
(* One trigger per plugin version.  A dated trigger lists what its own run *)
(* was the one to put on origin, so no two of them list the same.  A       *)
(* resume trigger is named after what it lists, so origin takes one of     *)
(* them.  A dated and a resume trigger at one commit need two runs: the    *)
(* later one sees what the earlier left on origin, unless they overlap or  *)
(* the earlier one left its tag behind.                                    *)
(***************************************************************************)
Tags == remote \union UNION {local[p] : p \in Clones}
Releases(t, e) == e \in t.lists /\ t.commit = e.at
ResumeName(e) == [kind |-> "resume", of |-> e.tag.of, number |-> e.tag.number, at |-> e.at]

\* A dated trigger is kept by the clone that signed it, in one run, which put
\* the tags it lists on origin.
DatedFits(t) ==
    LET p == t.by[1]
    IN  /\ p \notin Fresh /\ t \in local[p]
        /\ t.by[2] <= serial[p]
        /\ t.by[2] = serial[p] => At(p, "push")
        /\ t.commit \in manual
        /\ \A e \in t.lists : \E w \in Named(remote, e.tag) : w.by = t.by

Identified(t) ==
    /\ t.name.kind # "none"
    /\ t.name.kind = "resume" => \A e \in t.lists : t.name = ResumeName(e)
    /\ t.name.kind = "release" => DatedFits(t)
NamesFit == \A t \in Tags : Identified(t)
SignedOnce ==
    \A t, u \in Tags : t.name.kind = "release" /\ u.name.kind = "release" /\ t.by = u.by => t = u

\* Runs that meet at a commit a maintainer published at have raced.
MeetFits ==
    \A p, q \in Clones :
        p # q /\ run[p].head = run[q].head /\ run[p].head \in manual => run[p].head \in raced

WillPush(p) == run[p].push \union (IF At(p, "tag") \/ At(p, "trigger") THEN {run[p].trigger} ELSE {})
Pending(p) == {t \in Triggers(local[p]) : t.name \in WillPush(p)}
Ordinary(p) == run[p].pc \in {"verify", "create", "announce", "catalog"}

\* What the run in p has made so far, and what it will push.
Orderly(p) ==
    /\ Ordinary(p) => p \notin Fresh /\ run[p].head \in manual /\ run[p].push = {}
    /\ At(p, "create") =>
         \A e \in run[p].entries : \A t \in Named(local[p], e.tag) : t.by = <<p, serial[p]>>
    /\ At(p, "announce") =>
         \A e \in run[p].entries : \E w \in Named(remote, e.tag) : w.by = <<p, serial[p]>>
    /\ At(p, "tag") \/ At(p, "trigger") =>
         /\ run[p].trigger.kind \in {"release", "resume"}
         /\ \/ Present(local[p], run[p].trigger)
            \/ /\ run[p].trigger.kind = "resume"
               /\ \A e \in run[p].entries : run[p].trigger = ResumeName(e)
    /\ \A t \in Pending(p) : t.commit = run[p].head
    /\ \A m, n \in WillPush(p) : m.kind # "component" /\ n.kind # "component" => m = n

\* Unless a run raced, what it releases is released by no other trigger yet,
\* save one whose tag was left behind when the run put its own on origin.
Unmatched(p, u, e) ==
    /\ \A t \in Pending(p) :
          Releases(t, e) => t.name = u.name \/ (t.name.kind = "release" /\ LeftBehind(u, e))
    /\ At(p, "announce") /\ e \in run[p].entries /\ run[p].head = e.at => LeftBehind(u, e)
    /\ (At(p, "tag") \/ At(p, "trigger")) /\ e \in run[p].entries /\ ~Present(local[p], run[p].trigger)
         => u.name = run[p].trigger
Alone(p) ==
    \A u \in Triggers(remote) : \A e \in u.lists :
        u.commit = e.at /\ e.at \notin raced => Unmatched(p, u, e)

\* The tags a run makes are not on origin yet, and no trigger that its own
\* clone signed lists them there.
Unpushed(p) ==
    At(p, "create") => \A e \in run[p].entries :
        /\ \A v \in Named(local[p], e.tag) : v \notin remote
        /\ \A u \in Triggers(remote) : e \in u.lists => u.by[1] # p

FiniteTags == IsFiniteSet(remote) /\ \A p \in Clones : IsFiniteSet(local[p])

SingleInv ==
    /\ IInv /\ FiniteTags
    /\ NamesFit /\ SignedOnce /\ MeetFits /\ SingleRelease
    /\ \A p \in Clones : Orderly(p) /\ Alone(p) /\ Unpushed(p)

LEMMA TagType ==
    ASSUME TypeOK, NEW t \in Tags
    PROVE  /\ t \in Objects /\ t.by[1] \in Clones /\ t.by[2] \in Nat /\ t.by = <<t.by[1], t.by[2]>>
           /\ t.name.kind \in {"component", "release", "resume", "none"}
<1>1. t \in Objects
  BY DEF Tags, TypeOK
<1>2. t.by \in Clones \X Nat /\ t.name \in Names
  BY <1>1 DEF Objects
<1>3. t.name.kind \in {"component", "release", "resume", "none"}
  BY <1>2 DEF Names
<1> QED
  BY <1>1, <1>2, <1>3

\* What a dated trigger lists is on origin,
LEMMA DatedFound ==
    ASSUME SingleInv, NEW t \in Tags, t.name.kind = "release", NEW e \in t.lists
    PROVE  Named(remote, e.tag) # {}
BY DEF SingleInv, NamesFit, Identified, DatedFits

\* and of either kind of trigger one lists a component.
OneEach ==
    \A t, u \in Triggers(remote) : \A e \in t.lists \intersect u.lists :
        t.name.kind = u.name.kind => t = u

LEMMA OneOfAKind == TypeOK /\ NamesFit /\ SignedOnce => OneEach
<1> SUFFICES ASSUME TypeOK, NamesFit, SignedOnce, NEW t \in Triggers(remote), NEW u \in Triggers(remote),
                    NEW e \in t.lists \intersect u.lists, t.name.kind = u.name.kind
             PROVE  t = u
  BY DEF OneEach
<1>1. t \in Tags /\ u \in Tags /\ Identified(t) /\ Identified(u)
  BY DEF Tags, Triggers, NamesFit
<1>2. t.name.kind \in {"release", "resume"}
  BY <1>1, TagType DEF Triggers, Identified
<1>3. CASE t.name.kind = "resume"
  <2>1. t.name = u.name
    BY <1>1, <1>3 DEF Identified
  <2> QED
    BY <2>1 DEF TypeOK, Clashes, Triggers
<1>4. CASE t.name.kind = "release"
  <2>1. PICK w \in Named(remote, e.tag) : w.by = t.by
    BY <1>1, <1>4 DEF Identified, DatedFits
  <2>2. PICK x \in Named(remote, e.tag) : x.by = u.by
    BY <1>1, <1>4 DEF Identified, DatedFits
  <2>3. w = x
    BY DEF TypeOK, Clashes, Named
  <2> QED
    BY <1>1, <1>4, <2>1, <2>2, <2>3 DEF SignedOnce
<1> QED
  BY <1>2, <1>3, <1>4

\* A tag stays behind once origin has another of its name.
LEMMA BehindStays ==
    ASSUME SingleInv, TypeOK', NEW p \in Clones, Moves(p), NEW u, NEW e, LeftBehind(u, e),
           Named(remote, e.tag) # {}
    PROVE  LeftBehind(u, e)'
<1> DEFINE o == u.by[1]
<1>1. u \in adopted /\ u \in adopted' /\ o \in Clones \ Fresh
  BY DEF LeftBehind, Moves, SingleInv, IInv, AdoptedFits
<1>2. PICK w \in Named(local[o], e.tag) : w.commit = e.at /\ w \notin remote
  BY DEF LeftBehind
<1>3. w \in local'[o]
  BY <1>1, <1>2 DEF Moves, Named
<1>4. w \notin remote'
  <2>1. PICK x \in remote : x.name = e.tag
    BY DEF Named
  <2>2. w # x /\ w.name = x.name /\ x \in remote'
    BY <1>2, <2>1 DEF Moves, Named
  <2> QED
    BY <2>2 DEF TypeOK, Clashes
<1> QED
  BY <1>1, <1>2, <1>3, <1>4 DEF LeftBehind, Named

\* So of two triggers that list a component one stays the one that releases it.
Once(t, u, e) ==
    /\ t.name.kind = u.name.kind => t = u
    /\ \/ t = u \/ e.at \in raced
       \/ t.commit # e.at \/ u.commit # e.at
       \/ LeftBehind(t, e) \/ LeftBehind(u, e)

LEMMA OnceStays ==
    ASSUME SingleInv, TypeOK', NEW p \in Clones, Moves(p), raced \subseteq raced',
           NEW t \in Triggers(remote), NEW u \in Triggers(remote), NEW e \in t.lists \intersect u.lists
    PROVE  Once(t, u, e)'
<1>1. Once(t, u, e)
  BY DEF Once, SingleInv, SingleRelease
<1>2. CASE LeftBehind(t, e) \/ LeftBehind(u, e)
  <2>1. CASE t = u
    BY <2>1 DEF Once
  <2>2. CASE t # u
    <3>1. t \in Tags /\ u \in Tags
      BY DEF Tags, Triggers
    <3>2. t.name.kind = "release" \/ u.name.kind = "release"
      BY <1>1, <2>2, <3>1, TagType DEF Once, Triggers, SingleInv, NamesFit, Identified, IInv, TypeInv
    <3>3. Named(remote, e.tag) # {}
      BY <3>1, <3>2, DatedFound
    <3>4. LeftBehind(t, e)' \/ LeftBehind(u, e)'
      BY <1>2, <3>3, BehindStays
    <3> QED
      BY <1>1, <3>4 DEF Once
  <2> QED
    BY <2>1, <2>2
<1>3. CASE ~(LeftBehind(t, e) \/ LeftBehind(u, e))
  BY <1>1, <1>3 DEF Once
<1> QED
  BY <1>2, <1>3

\* What a run is alone in stays so when another clone moves.
LEMMA UnmatchedStays ==
    ASSUME SingleInv, TypeOK', NEW p \in Clones, Moves(p), NEW q \in Clones \ {p}, NEW u, NEW e,
           Unmatched(q, u, e)
    PROVE  Unmatched(q, u, e)'
<1>1. run'[q] = run[q] /\ local'[q] = local[q]
  BY DEF Moves
<1>2. Pending(q)' = Pending(q) /\ (Present(local[q], run[q].trigger))' = Present(local[q], run[q].trigger)
  BY <1>1 DEF Pending, WillPush, At, Present, Named
<1>3. ASSUME NEW t \in Pending(q), Releases(t, e)
      PROVE  t.name = u.name \/ (t.name.kind = "release" /\ LeftBehind(u, e)')
  <2>1. CASE t.name = u.name
    BY <2>1
  <2>2. CASE t.name # u.name
    <3>1. t.name.kind = "release" /\ LeftBehind(u, e)
      BY <1>3, <2>2 DEF Unmatched
    <3>2. t \in Tags /\ e \in t.lists
      BY <1>3 DEF Pending, Triggers, Tags, Releases
    <3>3. Named(remote, e.tag) # {}
      BY <3>1, <3>2, DatedFound
    <3> QED
      BY <3>1, <3>3, BehindStays
  <2> QED
    BY <2>1, <2>2
<1>4. ASSUME At(q, "announce"), e \in run[q].entries, run[q].head = e.at
      PROVE  LeftBehind(u, e)'
  <2>1. LeftBehind(u, e)
    BY <1>4 DEF Unmatched
  <2>2. Named(remote, e.tag) # {}
    BY <1>4 DEF SingleInv, IInv, CloneFits, AnnounceFits, Has
  <2> QED
    BY <2>1, <2>2, BehindStays
<1> QED
  BY <1>1, <1>2, <1>3, <1>4 DEF Unmatched, Releases, At

\* Nobody else pushes what a clone signed.
LEMMA UnpushedStays ==
    ASSUME SingleInv, NEW p \in Clones, Moves(p), NEW q \in Clones \ {p}
    PROVE  Unpushed(q)'
<1>1. run'[q] = run[q] /\ local'[q] = local[q] /\ remote' \subseteq remote \union local[p]
  BY DEF Moves
<1>2. \A t \in remote' : t \in remote \/ t.by[1] = p
  BY <1>1 DEF SingleInv, IInv, CloneFits, HeldFits
<1>3. SUFFICES ASSUME At(q, "create"), NEW e \in run[q].entries
               PROVE  /\ \A v \in Named(local[q], e.tag) : v \notin remote'
                      /\ \A u \in Triggers(remote') : e \in u.lists => u.by[1] # q
  BY <1>1 DEF Unpushed, At
<1>4. /\ \A v \in Named(local[q], e.tag) : v \notin remote /\ v.by[1] = q
      /\ \A u \in Triggers(remote) : e \in u.lists => u.by[1] # q
  BY <1>3 DEF SingleInv, Unpushed, Orderly
<1> QED
  BY <1>2, <1>4 DEF Triggers

\* In a finite set of at most one element, any two elements are the same.
LEMMA AtMostOne ==
    ASSUME NEW S, IsFiniteSet(S), Cardinality(S) <= 1, NEW x \in S, NEW y \in S
    PROVE  x = y
<1> SUFFICES ASSUME x # y PROVE FALSE
  OBVIOUS
<1>1. IsFiniteSet({x}) /\ Cardinality({x}) = 1
  BY FS_Singleton
<1>2. IsFiniteSet({x} \union {y}) /\ Cardinality({x} \union {y}) = Cardinality({x}) + 1
  BY <1>1, FS_AddElement
<1>3. Cardinality({x} \union {y}) <= Cardinality(S)
  BY FS_Subset
<1>4. Cardinality(S) \in Nat
  BY FS_CardinalityType
<1> QED
  BY <1>1, <1>2, <1>3, <1>4

\* A step that is no end of a run, and signs the tags N.
LEMMA NamesKept ==
    ASSUME SingleInv, NEW p \in Clones, ~At(p, "push"), serial' = serial, NEW N,
           Tags' \subseteq Tags \union N, remote \subseteq remote', manual \subseteq manual',
           \A q \in Clones : local[q] \subseteq local'[q],
           \A q \in Clones \ {p} : run'[q] = run[q],
           \A v \in N : Identified(v)',
           \A v \in N, t \in Tags \union N :
               v.name.kind = "release" /\ t.name.kind = "release" /\ v.by = t.by => v = t
    PROVE  NamesFit' /\ SignedOnce'
<1>1. ASSUME NEW t \in Tags
      PROVE  Identified(t)'
  <2>1. Identified(t)
    BY DEF SingleInv, NamesFit
  <2>2. ASSUME t.name.kind = "release"
        PROVE  DatedFits(t)'
    <3> DEFINE o == t.by[1]
    <3>1. DatedFits(t) /\ o \in Clones
      BY <2>1, <2>2, TagType DEF Identified, SingleInv, IInv, TypeInv
    <3>2. t.by[2] = serial'[o] => At(o, "push")'
      BY <3>1 DEF DatedFits, At
    <3>3. \A e \in t.lists : \E w \in Named(remote', e.tag) : w.by = t.by
      BY <3>1 DEF DatedFits, Named
    <3> QED
      BY <3>1, <3>2, <3>3 DEF DatedFits, Named
  <2> QED
    BY <2>1, <2>2 DEF Identified, ResumeName
<1>2. NamesFit'
  BY <1>1 DEF NamesFit
<1>3. SignedOnce'
  BY DEF SignedOnce, SingleInv
<1> QED
  BY <1>2, <1>3

\* A new tag that is no dated trigger,
LEMMA NamesSigned ==
    ASSUME SingleInv, NEW p \in Clones, ~At(p, "push"), serial' = serial, NEW v,
           Tags' \subseteq Tags \union {v}, remote \subseteq remote', manual \subseteq manual',
           \A q \in Clones : local[q] \subseteq local'[q],
           \A q \in Clones \ {p} : run'[q] = run[q],
           Identified(v)', v.name.kind # "release"
    PROVE  NamesFit' /\ SignedOnce'
<1> DEFINE N == {v}
<1>1. Tags' \subseteq Tags \union N
  OBVIOUS
<1>2. \A x \in N : Identified(x)'
  OBVIOUS
<1>3. \A x \in N, t \in Tags \union N :
          x.name.kind = "release" /\ t.name.kind = "release" /\ x.by = t.by => x = t
  OBVIOUS
<1> HIDE DEF N
<1> QED
  BY <1>1, <1>2, <1>3, NamesKept

\* or none at all.
LEMMA NamesHeld ==
    ASSUME SingleInv, NEW p \in Clones, ~At(p, "push"), serial' = serial,
           Tags' \subseteq Tags, remote \subseteq remote', manual \subseteq manual',
           \A q \in Clones : local[q] \subseteq local'[q],
           \A q \in Clones \ {p} : run'[q] = run[q]
    PROVE  NamesFit' /\ SignedOnce'
<1> DEFINE N == {}
<1>1. Tags' \subseteq Tags \union N
  OBVIOUS
<1>2. \A v \in N : Identified(v)'
  OBVIOUS
<1>3. \A v \in N, t \in Tags \union N :
          v.name.kind = "release" /\ t.name.kind = "release" /\ v.by = t.by => v = t
  OBVIOUS
<1> HIDE DEF N
<1> QED
  BY <1>1, <1>2, <1>3, NamesKept

\* An end of a run: whoever signed a dated trigger keeps it, and signs the next
\* one under another serial.
LEMMA NamesEnd ==
    ASSUME SingleInv, NEW p \in Clones, NEW T, T \subseteq local[p], End(p, remote \union T),
           manual' = manual
    PROVE  NamesFit' /\ SignedOnce' /\ Tags' \subseteq Tags
<1>0. /\ remote' = remote \union T
      /\ run' = [run EXCEPT ![p] = Idle]
      /\ local' = [local EXCEPT ![p] = IF p \in Fresh THEN {} ELSE local[p]]
      /\ serial' = [serial EXCEPT ![p] = IF Settles(p, remote \union T) THEN serial[p] ELSE serial[p] + 1]
      /\ local \in [Clones -> SUBSET Objects] /\ serial \in [Clones -> Nat]
      /\ run \in [Clones -> Publication] /\ TypeOK
  BY DEF End, SingleInv, IInv, TypeInv, TypeOK
<1>1. Tags' \subseteq Tags
  BY <1>0 DEF Tags
<1>2. ASSUME NEW t \in Tags
      PROVE  Identified(t)'
  <2>1. Identified(t)
    BY DEF SingleInv, NamesFit
  <2>2. ASSUME t.name.kind = "release"
        PROVE  DatedFits(t)'
    <3> DEFINE o == t.by[1]
    <3>1. DatedFits(t) /\ o \in Clones /\ t.by[2] \in Nat /\ t.by = <<o, t.by[2]>>
      BY <1>0, <2>1, <2>2, TagType DEF Identified
    <3>2. t \in local'[o]
      BY <1>0, <3>1 DEF DatedFits
    <3>3. t.by[2] <= serial'[o]
      BY <1>0, <3>1 DEF DatedFits
    <3>4. t.by[2] = serial'[o] => At(o, "push")'
      <4>1. CASE o # p
        BY <1>0, <3>1, <4>1 DEF DatedFits, At
      <4>2. CASE o = p
        <5>1. CASE Settles(p, remote \union T)
          <6>1. t.by # <<p, serial[p]>>
            BY <3>1, <4>2, <5>1 DEF Settles, DatedFits
          <6> QED
            BY <1>0, <3>1, <4>2, <5>1, <6>1
        <5>2. CASE ~Settles(p, remote \union T)
          BY <1>0, <3>1, <4>2, <5>2 DEF DatedFits
        <5> QED
          BY <5>1, <5>2
      <4> QED
        BY <4>1, <4>2
    <3>5. \A e \in t.lists : \E w \in Named(remote', e.tag) : w.by = t.by
      BY <1>0, <3>1 DEF DatedFits, Named
    <3> QED
      BY <3>1, <3>2, <3>3, <3>4, <3>5 DEF DatedFits, Named
  <2> QED
    BY <2>1, <2>2 DEF Identified, ResumeName
<1> QED
  BY <1>1, <1>2 DEF NamesFit, SignedOnce, SingleInv

\* Tags stay finitely many.
LEMMA FiniteStep ==
    ASSUME SingleInv, [Next]_vars
    PROVE  FiniteTags'
<1> USE DEF SingleInv, FiniteTags, IInv, TypeInv, TypeOK
<1>1. ASSUME NEW p \in Clones, NEW S, IsFiniteSet(S), End(p, S)
      PROVE  FiniteTags'
  BY <1>1, FS_EmptySet DEF End
<1>2. ASSUME NEW p \in Clones, NEW T, T \subseteq local[p]
      PROVE  IsFiniteSet(remote \union T)
  BY <1>2, FS_Subset, FS_Union
<1>3. ASSUME NEW p \in Clones, NEW t, Sign(p, t), remote' = remote
      PROVE  FiniteTags'
  BY <1>3, FS_AddElement DEF Sign
<1>4. ASSUME NEW p \in Clones, NEW c, Begin(p, c)
      PROVE  FiniteTags'
  <2>1. {t \in remote : ~Present(local[p], t.name)} \subseteq remote
    OBVIOUS
  <2>2. IsFiniteSet(Fetched(p))
    BY <2>1, FS_Subset, FS_Union DEF Fetched
  <2> QED
    BY <1>4, <2>2 DEF Begin
<1>5. ASSUME remote' = remote, local' = local
      PROVE  FiniteTags'
  BY <1>5
<1>6. ASSUME NEW p \in Clones, PushTags(p)
      PROVE  FiniteTags'
  <2>1. Created(p) \subseteq local[p]
    BY DEF Created
  <2> QED
    BY <1>2, <1>6, <2>1 DEF PushTags
<1>7. ASSUME NEW p \in Clones, Push(p) \/ Refused(p) \/ EnsureRefuses(p) \/ Interrupt(p)
      PROVE  FiniteTags'
  <2>1. Pushing(p) \subseteq local[p]
    BY DEF Pushing
  <2>2. IsFiniteSet(remote \union Pushing(p))
    BY <1>2, <2>1
  <2> QED
    BY <1>1, <1>7, <2>2 DEF Push, Refused, EnsureRefuses, Interrupt
<1>8. ASSUME NEW p \in Clones, NEW S \in SUBSET Created(p), PushTagsPartly(p, S)
      PROVE  FiniteTags'
  <2>1. S \subseteq local[p]
    BY DEF Created
  <2> QED
    BY <1>1, <1>2, <1>8, <2>1 DEF PushTagsPartly
<1>9. ASSUME NEW p \in Clones, Step(p)
      PROVE  FiniteTags'
  <2>1. ASSUME EnsureTag(p) \/ EnsureTrigger(p)
        PROVE  FiniteTags'
    BY <1>3, <1>5, <2>1 DEF EnsureTag, EnsureTrigger, Ensure
  <2>2. ASSUME CreateTrigger(p) \/ \E s \in Commits : CatalogOnly(p, s)
        PROVE  FiniteTags'
    BY <1>3, <2>2 DEF CreateTrigger, CatalogOnly, TriggerMade
  <2>3. ASSUME NEW e, CreateTag(p, e)
        PROVE  FiniteTags'
    BY <1>3, <2>3 DEF CreateTag
  <2>4. ASSUME NEW E, Verify(p, E)
        PROVE  FiniteTags'
    BY <1>5, <2>4 DEF Verify
  <2> QED
    BY <1>6, <1>7, <1>9, <2>1, <2>2, <2>3, <2>4 DEF Step
<1>10. CASE UNCHANGED vars
  BY <1>5, <1>10 DEF vars
<1> QED
  BY <1>4, <1>7, <1>8, <1>9, <1>10
     DEF Next, BeginPublish, BeginCatalogOnly, WorkflowResumes, MaintainerResumes, BeginResume


-----------------------------------------------------------------------------
(***************************************************************************)
(* The steps inside a run: no trigger reaches origin and no head moves.    *)
(***************************************************************************)
\* What a clone relies on is not disturbed by the others.
LEMMA OthersKept ==
    ASSUME NEW q, Orderly(q), run'[q] = run[q], local'[q] = local[q], serial'[q] = serial[q],
           remote \subseteq remote', manual \subseteq manual'
    PROVE  Orderly(q)'
<1>1. /\ \A c : At(q, c)' <=> At(q, c)
      /\ Ordinary(q)' <=> Ordinary(q)
      /\ WillPush(q)' = WillPush(q)
      /\ Pending(q)' = Pending(q)
      /\ \A n : Present(local[q], n)' <=> Present(local[q], n)
  BY DEF At, Ordinary, WillPush, Pending, Triggers, Present, Named
<1>2. \A e \in run[q].entries : (\E w \in Named(remote, e.tag) : w.by = <<q, serial[q]>>)
                                  => \E w \in Named(remote', e.tag) : w.by = <<q, serial[q]>>
  BY DEF Named
<1>3. \A e : ResumeName(e)' = ResumeName(e)
  BY DEF ResumeName
<1> QED
  BY <1>1, <1>2 DEF Orderly, Named, Present, ResumeName

LEMMA InnerSingle ==
    ASSUME SingleInv, IInv', FiniteTags', NEW p \in Clones,
           UNCHANGED <<serial, manual, raced, adopted>>,
           remote \subseteq remote', remote' \subseteq remote \union local[p],
           Triggers(remote') = Triggers(remote), local[p] \subseteq local'[p],
           \A q \in Clones \ {p} : run'[q] = run[q] /\ local'[q] = local[q],
           run'[p].head = run[p].head,
           NamesFit', SignedOnce', Orderly(p)', Alone(p)', Unpushed(p)'
    PROVE  SingleInv'
<1>0. Moves(p) /\ TypeOK'
  BY DEF Moves, IInv, TypeInv
<1>1. ASSUME NEW q \in Clones \ {p}
      PROVE  Orderly(q)' /\ Alone(q)' /\ Unpushed(q)'
  <2>1. Orderly(q)'
    BY <1>1, OthersKept DEF SingleInv
  <2>2. Alone(q)'
    BY <1>0, <1>1, UnmatchedStays DEF Alone, SingleInv
  <2>3. Unpushed(q)'
    BY <1>0, <1>1, UnpushedStays
  <2> QED
    BY <2>1, <2>2, <2>3
<1>2. MeetFits'
  BY DEF MeetFits, SingleInv
<1>3. SingleRelease'
  BY <1>0, OnceStays DEF SingleRelease, Once
<1> QED
  BY <1>1, <1>2, <1>3 DEF SingleInv

\* The ordinary publication, up to its trigger.
LEMMA VerifySingle ==
    ASSUME SingleInv, IInv', FiniteTags', NEW p \in Clones, NEW E, Verify(p, E)
    PROVE  SingleInv'
<1>1. /\ At(p, "verify") /\ ~At(p, "push")
      /\ run' = [run EXCEPT ![p].pc = "create", ![p].entries = E]
      /\ UNCHANGED <<local, remote, serial, manual, raced, adopted>>
      /\ run \in [Clones -> Publication] /\ Orderly(p) /\ TriggerComplete
      /\ \A e \in E : ~Present(local[p] \union remote, e.tag)
  BY CompleteFits DEF Verify, At, SingleInv, IInv, TypeInv, TypeOK
<1>2. /\ run'[p].pc = "create" /\ run'[p].entries = E /\ run'[p].push = {}
      /\ run'[p].head = run[p].head /\ run[p].head \in manual /\ p \notin Fresh
      /\ \A q \in Clones \ {p} : run'[q] = run[q]
  BY <1>1 DEF Publication, Orderly, Ordinary, At
<1>3. Pending(p)' = {} /\ WillPush(p)' = {}
  BY <1>2 DEF Pending, WillPush, At
<1>4. Orderly(p)'
  BY <1>1, <1>2, <1>3 DEF Orderly, Ordinary, At, Named, Present
<1>5. Alone(p)'
  BY <1>1, <1>2, <1>3 DEF Alone, Unmatched, At
<1>6. Unpushed(p)'
  <2>1. \A e \in E : Named(local[p], e.tag) = {} /\ Named(remote, e.tag) = {}
    BY <1>1 DEF Present, Named
  <2>2. ASSUME NEW u \in Triggers(remote), NEW e \in E, e \in u.lists
        PROVE  u.by[1] # p
    <3>1. LeftBehind(u, e)
      BY <1>1, <2>1, <2>2 DEF TriggerComplete
    <3> QED
      BY <2>1, <3>1 DEF LeftBehind
  <2> QED
    BY <1>1, <1>2, <2>1, <2>2 DEF Unpushed, At
<1>7. NamesFit' /\ SignedOnce'
  <2>1. Tags' \subseteq Tags
    BY <1>1 DEF Tags
  <2> QED
    BY <1>1, <1>2, <2>1, NamesHeld
<1> QED
  BY <1>1, <1>2, <1>4, <1>5, <1>6, <1>7, InnerSingle

LEMMA CreateTagSingle ==
    ASSUME SingleInv, IInv', FiniteTags', NEW p \in Clones, NEW e \in run[p].entries, CreateTag(p, e)
    PROVE  SingleInv'
<1>0. PICK v : v = Signed(p, e.tag, e.at, {}, FALSE)
  OBVIOUS
<1>1. /\ At(p, "create") /\ ~At(p, "push")
      /\ local' = [local EXCEPT ![p] = @ \union {v}]
      /\ UNCHANGED <<run, remote, serial, manual, raced, adopted>>
      /\ local \in [Clones -> SUBSET Objects] /\ Orderly(p) /\ Alone(p) /\ Unpushed(p)
      /\ ~Present(local[p], e.tag)
  BY <1>0 DEF CreateTag, Sign, At, SingleInv, IInv, TypeInv, TypeOK
<1>2. v.name = e.tag /\ v.name.kind = "component" /\ v.by = <<p, serial[p]>>
  BY <1>0 DEF Signed, SingleInv, IInv, CloneFits, RunFits
<1>3. /\ local'[p] = local[p] \union {v}
      /\ \A q \in Clones \ {p} : local'[q] = local[q]
  BY <1>1
<1>4. Pending(p)' = {} /\ WillPush(p)' = {} /\ WillPush(p) = {}
  BY <1>1 DEF Pending, WillPush, At, Orderly, Ordinary
<1>5. Orderly(p)'
  BY <1>1, <1>2, <1>3, <1>4 DEF Orderly, Ordinary, At, Named, Present
<1>6. Alone(p)'
  BY <1>1, <1>4 DEF Alone, Unmatched, At
<1>7. NamesFit' /\ SignedOnce'
  <2>1. Tags' \subseteq Tags \union {v}
    BY <1>1, <1>3 DEF Tags
  <2>2. Identified(v)'
    BY <1>2 DEF Identified
  <2>3. /\ ~At(p, "push") /\ serial' = serial /\ remote \subseteq remote' /\ manual \subseteq manual'
        /\ \A q \in Clones : local[q] \subseteq local'[q]
        /\ \A q \in Clones \ {p} : run'[q] = run[q]
    BY <1>1, <1>3
  <2> QED
    BY <1>2, <2>1, <2>2, <2>3, NamesSigned
<1>8. Unpushed(p)'
  <2>1. v \notin remote
    BY <1>1, <1>2 DEF SingleInv, IInv, KeptFits, Orderly, Ordinary, At, Present, Named
  <2> QED
    BY <1>1, <1>3, <2>1 DEF Unpushed, At, Named
<1> QED
  BY <1>1, <1>3, <1>5, <1>6, <1>7, <1>8, InnerSingle

LEMMA PushTagsSingle ==
    ASSUME SingleInv, IInv', FiniteTags', NEW p \in Clones, PushTags(p)
    PROVE  SingleInv'
<1>1. /\ At(p, "create") /\ ~At(p, "push") /\ AllCreated(p)
      /\ run' = [run EXCEPT ![p].pc = "announce"] /\ remote' = remote \union Created(p)
      /\ UNCHANGED <<local, serial, manual, raced, adopted>> /\ ~Clashes(Created(p), remote)
      /\ run \in [Clones -> Publication] /\ Orderly(p) /\ Alone(p) /\ Unpushed(p)
  BY DEF PushTags, Goto, At, SingleInv, IInv, TypeInv, TypeOK
<1>2. /\ run'[p].pc = "announce" /\ run'[p].entries = run[p].entries /\ run'[p].push = {}
      /\ run'[p].head = run[p].head /\ run[p].head \in manual /\ p \notin Fresh
      /\ \A q \in Clones \ {p} : run'[q] = run[q]
  BY <1>1 DEF Publication, Orderly, Ordinary, At
<1>3. Pending(p)' = {} /\ WillPush(p)' = {}
  BY <1>2 DEF Pending, WillPush, At
<1>4. Created(p) \subseteq local[p] /\ \A t \in Created(p) : t.name.kind = "component"
  BY DEF Created, SingleInv, IInv, CloneFits, RunFits
<1>5. Triggers(remote') = Triggers(remote)
  BY <1>1, <1>4 DEF Triggers
<1>6. Orderly(p)'
  <2>1. ASSUME NEW e \in run[p].entries
        PROVE  \E w \in Named(remote', e.tag) : w.by = <<p, serial[p]>>
    <3>1. PICK w \in Named(local[p], e.tag) : TRUE
      BY <1>1, <2>1 DEF AllCreated, Present
    <3>2. w.by = <<p, serial[p]>>
      BY <1>1, <3>1 DEF Orderly
    <3>3. w \in Created(p) /\ w.name = e.tag
      BY <3>1 DEF Named, Created
    <3> QED
      BY <1>1, <3>2, <3>3 DEF Named
  <2> QED
    <3>1. \A e \in run'[p].entries : \E w \in Named(remote', e.tag) : w.by = <<p, serial'[p]>>
      BY <1>1, <1>2, <2>1
    <3>2. At(p, "announce")' /\ ~At(p, "create")' /\ ~At(p, "tag")' /\ ~At(p, "trigger")'
      BY <1>2 DEF At
    <3>3. p \notin Fresh /\ run'[p].head \in manual' /\ run'[p].push = {}
      BY <1>1, <1>2
    <3> QED
      BY <1>3, <3>1, <3>2, <3>3 DEF Orderly
<1>7. Alone(p)'
  <2>1. ASSUME NEW u \in Triggers(remote), NEW e \in u.lists, e \in run[p].entries
        PROVE  LeftBehind(u, e)'
    <3> DEFINE o == u.by[1]
    <3>1. PICK v \in Named(local[p], e.tag) : v \notin remote
      BY <1>1, <2>1 DEF AllCreated, Present, Unpushed
    <3>2. v \in Created(p) /\ v.name = e.tag
      BY <2>1, <3>1 DEF Created, Named
    <3>3. Named(remote, e.tag) = {}
      BY <1>1, <3>1, <3>2 DEF Clashes, Named
    <3>4. u \in adopted /\ \E w \in Named(local[o], e.tag) : w.commit = e.at /\ w \notin remote
      BY <2>1, <3>3, CompleteFits DEF SingleInv, TriggerComplete, LeftBehind
    <3>5. PICK w \in Named(local[o], e.tag) : w.commit = e.at /\ w \notin remote
      BY <3>4
    <3>6. o # p /\ o \in Clones
      BY <1>1, <2>1, <3>4 DEF Unpushed, SingleInv, IInv, AdoptedFits
    <3>7. w.by[1] = o
      BY <3>5, <3>6 DEF SingleInv, IInv, CloneFits, HeldFits, Named
    <3>8. w \notin Created(p)
      BY <1>1, <1>4, <2>1, <3>5, <3>6, <3>7 DEF Orderly, Named
    <3> QED
      BY <1>1, <3>4, <3>5, <3>8 DEF LeftBehind
  <2> QED
    BY <1>1, <1>2, <1>3, <1>5, <2>1 DEF Alone, Unmatched, At
<1>8. NamesFit' /\ SignedOnce'
  <2>1. Tags' \subseteq Tags
    BY <1>1, <1>4 DEF Tags
  <2> QED
    BY <1>1, <1>2, <2>1, NamesHeld
<1>9. Unpushed(p)'
  BY <1>2 DEF Unpushed, At
<1> QED
  BY <1>1, <1>2, <1>4, <1>5, <1>6, <1>7, <1>8, <1>9, InnerSingle


\* A dated trigger lists what its run put on origin, and so nobody else's.
LEMMA DatedSingle ==
    ASSUME SingleInv, IInv', FiniteTags', NEW p \in Clones, NEW lists, NEW marker,
           TriggerMade(p, lists, marker), Ordinary(p),
           \A e \in lists : At(p, "announce") /\ e \in run[p].entries
    PROVE  SingleInv'
<1>0. PICK n, v : n = DatedTrigger(p, run[p].head) /\ v = Signed(p, n, run[p].head, lists, marker)
  OBVIOUS
<1>1. /\ ~At(p, "push") /\ ~Present(local[p], n)
      /\ local' = [local EXCEPT ![p] = @ \union {v}]
      /\ run' = [run EXCEPT ![p].pc = "push", ![p].push = {n}]
      /\ UNCHANGED <<remote, serial, manual, raced, adopted>>
      /\ local \in [Clones -> SUBSET Objects] /\ run \in [Clones -> Publication]
      /\ serial \in [Clones -> Nat] /\ Orderly(p) /\ Alone(p)
      /\ p \notin Fresh /\ run[p].head \in manual
  BY <1>0 DEF TriggerMade, Sign, At, Ordinary, Orderly, SingleInv, IInv, TypeInv, TypeOK
<1>2. /\ v.name = n /\ n.kind = "release" /\ v.by = <<p, serial[p]>>
      /\ v.commit = run[p].head /\ v.lists = lists
  BY <1>0 DEF Signed, DatedTrigger
<1>3. /\ local'[p] = local[p] \union {v}
      /\ \A q \in Clones \ {p} : local'[q] = local[q] /\ run'[q] = run[q]
  BY <1>1
<1>4. /\ run'[p].pc = "push" /\ run'[p].push = {n} /\ run'[p].head = run[p].head
      /\ run'[p].entries = run[p].entries
  BY <1>1 DEF Publication
<1>5. WillPush(p)' = {n} /\ Pending(p)' \subseteq {v}
  BY <1>1, <1>2, <1>3, <1>4 DEF WillPush, Pending, At, Triggers, Present, Named
<1>6. Orderly(p)'
  BY <1>2, <1>4, <1>5 DEF Orderly, Ordinary, At
<1>7. Alone(p)'
  <2>1. ASSUME NEW u \in Triggers(remote), NEW e \in u.lists, u.commit = e.at, e.at \notin raced,
               Releases(v, e)
        PROVE  LeftBehind(u, e)'
    <3>1. LeftBehind(u, e)
      BY <1>1, <1>2, <2>1 DEF Alone, Unmatched, Releases, At
    <3>2. u.by[1] \in Clones /\ local[u.by[1]] \subseteq local'[u.by[1]]
      BY <1>1, <1>3, <3>1 DEF LeftBehind, SingleInv, IInv, AdoptedFits
    <3> QED
      BY <1>1, <3>1, <3>2 DEF LeftBehind, Named
  <2>2. v.name.kind = "release"
    BY <1>2
  <2> QED
    BY <1>1, <1>4, <1>5, <2>1, <2>2 DEF Alone, Unmatched, Releases, At
<1>8. NamesFit' /\ SignedOnce'
  <2>1. Tags' \subseteq Tags \union {v}
    BY <1>1, <1>3 DEF Tags
  <2>2. DatedFits(v)'
    <3>1. \A e \in v.lists : \E w \in Named(remote', e.tag) : w.by = v.by
      BY <1>1, <1>2 DEF Orderly
    <3>2. v.by[1] = p /\ v.by[2] = serial[p] /\ serial[p] \in Nat
      BY <1>1, <1>2
    <3>3. v \in local'[p] /\ v.commit \in manual' /\ p \notin Fresh /\ At(p, "push")'
      BY <1>1, <1>2, <1>3, <1>4 DEF At
    <3> QED
      BY <1>1, <3>1, <3>2, <3>3 DEF DatedFits, Named
  <2>3. Identified(v)'
    BY <1>2, <2>2 DEF Identified
  <2>4. ASSUME NEW t \in Tags, t.name.kind = "release"
        PROVE  v.by # t.by
    BY <1>1, <1>2, <2>4 DEF DatedFits, Identified, NamesFit, SingleInv
  <2>5. ASSUME NEW t \in Tags \union {v}, t.name.kind = "release", v.by = t.by
        PROVE  v = t
    BY <2>4, <2>5
  <2>6. /\ ~At(p, "push") /\ serial' = serial /\ remote \subseteq remote' /\ manual \subseteq manual'
        /\ \A q \in Clones : local[q] \subseteq local'[q]
        /\ \A q \in Clones \ {p} : run'[q] = run[q]
    BY <1>1, <1>3
  <2> QED
    BY <2>1, <2>3, <2>5, <2>6, NamesKept
<1>9. Unpushed(p)'
  BY <1>4 DEF Unpushed, At
<1> QED
  BY <1>1, <1>3, <1>4, <1>6, <1>7, <1>8, <1>9, InnerSingle

\* A resume makes its tag, or finds it,
LEMMA EnsureTagSingle ==
    ASSUME SingleInv, IInv', FiniteTags', NEW p \in Clones, EnsureTag(p)
    PROVE  SingleInv'
<1>1. /\ At(p, "tag") /\ ~At(p, "push") /\ run[p] \in Publication /\ run \in [Clones -> Publication]
      /\ local \in [Clones -> SUBSET Objects] /\ Orderly(p) /\ Alone(p)
  BY DEF EnsureTag, At, SingleInv, IInv, TypeInv, TypeOK
<1>2. PICK e \in run[p].entries : Ensure(p, e.tag, {}, FALSE, "trigger")
  BY DEF EnsureTag
<1>0. PICK v, P : /\ v = Signed(p, e.tag, run[p].head, {}, FALSE)
                   /\ P = IF Settled(p, e.tag) THEN run[p].push ELSE run[p].push \union {e.tag}
  OBVIOUS
<1>3. v.name = e.tag /\ e.tag.kind = "component"
  BY <1>0 DEF Signed, SingleInv, IInv, CloneFits, RunFits
<1>4. /\ run' = [run EXCEPT ![p].pc = "trigger", ![p].push = P]
      /\ UNCHANGED <<remote, serial, manual, raced, adopted>>
      /\ local' = [local EXCEPT ![p] = @ \union {v}] \/ UNCHANGED local
  BY <1>0, <1>2 DEF Ensure, Sign
<1>5. P \subseteq run[p].push \union {e.tag}
  BY <1>0
<1>6. /\ run'[p].pc = "trigger" /\ run'[p].push = P /\ run'[p].head = run[p].head
      /\ run'[p].entries = run[p].entries /\ run'[p].trigger = run[p].trigger
      /\ \A q \in Clones \ {p} : run'[q] = run[q] /\ local'[q] = local[q]
      /\ local[p] \subseteq local'[p] /\ local'[p] \subseteq local[p] \union {v}
  BY <1>1, <1>4 DEF Publication
<1>7. \A n \in WillPush(p)' : n \in WillPush(p) \/ n = e.tag
  BY <1>1, <1>5, <1>6 DEF WillPush, At
<1>8. Pending(p)' \subseteq Pending(p)
  BY <1>3, <1>6, <1>7 DEF Pending, Triggers
<1>9. \A n : Present(local[p], n) => Present(local'[p], n)
  BY <1>6 DEF Present, Named
<1>10. Orderly(p)'
  <2>1. \A m, k \in WillPush(p)' : m.kind # "component" /\ k.kind # "component" => m = k
    BY <1>1, <1>3, <1>7 DEF Orderly
  <2>2. \A t \in Pending(p)' : t.commit = run'[p].head
    BY <1>1, <1>6, <1>8 DEF Orderly
  <2> QED
    BY <1>1, <1>6, <1>9, <2>1, <2>2 DEF Orderly, Ordinary, At, ResumeName
<1>11. Alone(p)'
  <2>1. ASSUME NEW u \in Triggers(remote), NEW e2 \in u.lists, LeftBehind(u, e2)
        PROVE  LeftBehind(u, e2)'
    BY <1>4, <1>6, <2>1 DEF LeftBehind, SingleInv, IInv, AdoptedFits, Named
  <2> QED
    BY <1>1, <1>4, <1>6, <1>8, <1>9, <2>1 DEF Alone, Unmatched, Releases, At
<1>12. NamesFit' /\ SignedOnce'
  <2>1. Tags' \subseteq Tags \union {v}
    BY <1>4, <1>6 DEF Tags
  <2>2. Identified(v)'
    BY <1>3 DEF Identified
  <2>3. /\ ~At(p, "push") /\ serial' = serial /\ remote \subseteq remote' /\ manual \subseteq manual'
        /\ \A q \in Clones : local[q] \subseteq local'[q]
        /\ \A q \in Clones \ {p} : run'[q] = run[q]
    BY <1>1, <1>4, <1>6
  <2> QED
    BY <1>3, <2>1, <2>2, <2>3, NamesSigned
<1>13. Unpushed(p)'
  BY <1>6 DEF Unpushed, At
<1> QED
  BY <1>4, <1>6, <1>10, <1>11, <1>12, <1>13, InnerSingle

\* and its trigger, under the name of what it lists unless it is there already.
LEMMA EnsureTriggerSingle ==
    ASSUME SingleInv, IInv', FiniteTags', NEW p \in Clones, EnsureTrigger(p)
    PROVE  SingleInv'
<1>0. PICK n, v, P :
         /\ n = run[p].trigger
         /\ v = Signed(p, n, run[p].head, {e \in run[p].entries : e.tag.of \in Plugins}, TRUE)
         /\ P = IF Settled(p, n) THEN run[p].push ELSE run[p].push \union {n}
  OBVIOUS
<1>1. /\ At(p, "trigger") /\ ~At(p, "push") /\ run \in [Clones -> Publication]
      /\ local \in [Clones -> SUBSET Objects] /\ Orderly(p) /\ Alone(p) /\ ResumeFits(p)
  BY DEF EnsureTrigger, At, SingleInv, IInv, TypeInv, TypeOK, CloneFits
<1>2. v.name = n /\ v.commit = run[p].head /\ v.lists \subseteq run[p].entries
      /\ n = run[p].trigger
  BY <1>0 DEF Signed
<1>3. /\ run' = [run EXCEPT ![p].pc = "push", ![p].push = P]
      /\ UNCHANGED <<remote, serial, manual, raced, adopted>>
      /\ \/ ~Present(local[p], n) /\ local' = [local EXCEPT ![p] = @ \union {v}]
         \/ UNCHANGED local
  BY <1>0 DEF EnsureTrigger, Ensure, Sign, Missing
<1>4. P \subseteq run[p].push \union {n}
  BY <1>0
<1>5. /\ run'[p].pc = "push" /\ run'[p].push = P /\ run'[p].head = run[p].head
      /\ run'[p].entries = run[p].entries
      /\ \A q \in Clones \ {p} : run'[q] = run[q] /\ local'[q] = local[q]
      /\ local[p] \subseteq local'[p] /\ local'[p] \subseteq local[p] \union {v}
      /\ ~Present(local[p], n) \/ local' = local
  BY <1>1, <1>3 DEF Publication
<1>6. WillPush(p)' \subseteq WillPush(p)
  BY <1>1, <1>2, <1>4, <1>5 DEF WillPush, At
<1>7. Pending(p)' \subseteq Pending(p) \union {v}
  BY <1>5, <1>6 DEF Pending, Triggers
<1>8. Orderly(p)'
  BY <1>1, <1>2, <1>5, <1>6, <1>7 DEF Orderly, Ordinary, At
<1>9. Alone(p)'
  <2>1. ASSUME NEW u \in Triggers(remote), NEW e \in u.lists, u.commit = e.at, e.at \notin raced,
               NEW t \in Pending(p)', Releases(t, e)
        PROVE  t.name = u.name \/ (t.name.kind = "release" /\ LeftBehind(u, e)')
    <3>1. Unmatched(p, u, e)
      BY <1>1, <2>1 DEF Alone
    <3>2. CASE t \in Pending(p)
      <4>1. LeftBehind(u, e) => LeftBehind(u, e)'
        BY <1>3, <1>5 DEF LeftBehind, SingleInv, IInv, AdoptedFits, Named
      <4> QED
        BY <2>1, <3>1, <3>2, <4>1 DEF Unmatched
    <3>3. CASE t \notin Pending(p)
      <4>1. t = v /\ t \in local'[p] /\ t \in Triggers(local'[p])
        BY <1>7, <3>3 DEF Pending, Triggers
      <4>2. t \notin local[p]
        BY <1>2, <1>1, <3>3, <4>1 DEF Pending, Triggers, WillPush, At
      <4>3. ~Present(local[p], n) /\ e \in run[p].entries
        BY <1>2, <1>5, <2>1, <4>1, <4>2 DEF Releases
      <4> QED
        BY <1>1, <1>2, <3>1, <4>1, <4>3 DEF Unmatched
    <3> QED
      BY <3>2, <3>3
  <2> QED
    BY <1>3, <1>5, <2>1 DEF Alone, Unmatched, At
<1>10. NamesFit' /\ SignedOnce'
  <2>0. /\ ~At(p, "push") /\ serial' = serial /\ remote \subseteq remote' /\ manual \subseteq manual'
        /\ \A q \in Clones : local[q] \subseteq local'[q]
        /\ \A q \in Clones \ {p} : run'[q] = run[q]
    BY <1>1, <1>3, <1>5
  <2>1. CASE local' = local
    <3>1. Tags' \subseteq Tags
      BY <1>3, <2>1 DEF Tags
    <3> QED
      BY <2>0, <3>1, NamesHeld
  <2>2. CASE local' # local
    <3>1. n.kind = "resume" /\ \A e \in run[p].entries : n = ResumeName(e)
      BY <1>1, <1>2, <1>5, <2>2 DEF Orderly
    <3>2. Tags' \subseteq Tags \union {v}
      BY <1>3, <1>5 DEF Tags
    <3>3. Identified(v)'
      BY <1>2, <3>1 DEF Identified, ResumeName
    <3> QED
      BY <1>2, <2>0, <3>1, <3>2, <3>3, NamesSigned
  <2> QED
    BY <2>1, <2>2
<1>11. Unpushed(p)'
  BY <1>5 DEF Unpushed, At
<1> QED
  BY <1>3, <1>5, <1>8, <1>9, <1>10, <1>11, InnerSingle


-----------------------------------------------------------------------------
(***************************************************************************)
(* The end of a run, which may put triggers on origin.                     *)
(***************************************************************************)
\* Two runs at a commit that no maintainer published at resume it, and give
\* what they list the same name.
LEMMA PendingMet ==
    ASSUME SingleInv, NEW p \in Clones, NEW q \in Clones, p # q, NEW u \in Pending(p), NEW e,
           Releases(u, e), e.at \notin raced
    PROVE  Unmatched(q, u, e)
<1>1. u \in Tags /\ u.name.kind # "component" /\ Identified(u) /\ u.name.kind # "none"
  BY DEF Pending, Triggers, Tags, SingleInv, NamesFit, Identified
<1>2. run[p].head = e.at
  BY DEF SingleInv, Orderly, Releases
<1>3. ASSUME run[q].head = e.at
      PROVE  e.at \notin manual /\ u.name = ResumeName(e)
  <2>1. e.at \notin manual
    BY <1>2, <1>3 DEF SingleInv, MeetFits
  <2>2. u.name.kind # "release"
    BY <1>1, <2>1 DEF Identified, DatedFits, Releases
  <2>3. u.name.kind = "resume"
    BY <1>1, <2>2, TagType DEF SingleInv, IInv, TypeInv
  <2> QED
    BY <1>1, <2>1, <2>3 DEF Identified, Releases
<1>4. ASSUME NEW t \in Pending(q), Releases(t, e)
      PROVE  t.name = u.name
  <2>1. t \in Tags /\ t.name.kind # "component" /\ Identified(t) /\ t.name.kind # "none"
    BY DEF Pending, Triggers, Tags, SingleInv, NamesFit, Identified
  <2>2. run[q].head = e.at
    BY <1>4 DEF SingleInv, Orderly, Releases
  <2>3. t.name.kind # "release"
    BY <1>3, <1>4, <2>1, <2>2 DEF Identified, DatedFits, Releases
  <2>4. t.name.kind = "resume"
    BY <2>1, <2>3, TagType DEF SingleInv, IInv, TypeInv
  <2> QED
    BY <1>3, <1>4, <2>1, <2>2, <2>4 DEF Identified, Releases
<1>5. At(q, "announce") => ~(e \in run[q].entries /\ run[q].head = e.at)
  BY <1>3 DEF SingleInv, Orderly, Ordinary, At
<1>6. ASSUME At(q, "tag") \/ At(q, "trigger"), e \in run[q].entries, ~Present(local[q], run[q].trigger)
      PROVE  u.name = run[q].trigger
  <2>1. run[q].head = e.at
    BY <1>6 DEF SingleInv, IInv, CloneFits, ResumeFits
  <2>2. run[q].trigger = ResumeName(e)
    BY <1>6 DEF SingleInv, Orderly
  <2> QED
    BY <1>3, <2>1, <2>2
<1> QED
  BY <1>4, <1>5, <1>6 DEF Unmatched

LEMMA EndSingle ==
    ASSUME SingleInv, IInv', FiniteTags', NEW p \in Clones, NEW T, T \subseteq local[p],
           Triggers(T) \subseteq Pending(p), End(p, remote \union T), UNCHANGED <<manual, raced, adopted>>
    PROVE  SingleInv'
<1>1. /\ remote' = remote \union T
      /\ run' = [run EXCEPT ![p] = Idle]
      /\ \A q \in Clones \ {p} : run'[q] = run[q] /\ local'[q] = local[q] /\ serial'[q] = serial[q]
      /\ run'[p] = Idle
      /\ TypeOK' /\ manual \subseteq Commits
  BY DEF End, SingleInv, IInv, TypeInv, TypeOK
<1>2. NamesFit' /\ SignedOnce' /\ Moves(p)
  BY NamesEnd DEF Moves, End, SingleInv, IInv, TypeInv, TypeOK
<1>3. /\ run'[p].pc = "idle" /\ run'[p].push = {} /\ run'[p].head = 0
      /\ WillPush(p)' = {} /\ Pending(p)' = {}
  BY <1>1 DEF Idle, WillPush, Pending, At
<1>4. Orderly(p)' /\ Alone(p)' /\ Unpushed(p)'
  BY <1>3 DEF Orderly, Alone, Unmatched, Unpushed, Ordinary, At
<1>5. ASSUME NEW q \in Clones \ {p}
      PROVE  Orderly(q)' /\ Alone(q)' /\ Unpushed(q)'
  <2>1. Orderly(q)'
    BY <1>1, <1>5, OthersKept DEF SingleInv
  <2>2. ASSUME NEW u \in Triggers(remote'), NEW e \in u.lists, u.commit = e.at, e.at \notin raced
        PROVE  Unmatched(q, u, e)
    <3>1. CASE u \in remote
      BY <1>5, <2>2, <3>1 DEF Alone, Triggers, SingleInv
    <3>2. CASE u \in T
      <4>1. u \in Pending(p) /\ Releases(u, e)
        BY <2>2, <3>2 DEF Triggers, Releases
      <4> QED
        BY <1>5, <2>2, <4>1, PendingMet
    <3> QED
      BY <1>1, <2>2, <3>1, <3>2 DEF Triggers
  <2>3. Alone(q)'
    BY <1>1, <1>2, <1>5, <2>2, UnmatchedStays DEF Alone
  <2>4. Unpushed(q)'
    BY <1>2, <1>5, UnpushedStays
  <2> QED
    BY <2>1, <2>3, <2>4
<1>6. MeetFits'
  <2>1. 0 \notin manual
    BY <1>1, ReleaseAssumption
  <2> QED
    BY <1>1, <1>3, <2>1 DEF MeetFits, SingleInv
<1>7. SingleRelease'
  <2>1. SUFFICES ASSUME NEW t \in Triggers(remote'), NEW u \in Triggers(remote'),
                        NEW e \in t.lists \intersect u.lists
                 PROVE  Once(t, u, e)'
    BY DEF SingleRelease, Once
  <2>2. t.name.kind = u.name.kind => t = u
    <3>1. OneEach'
      BY <1>1, <1>2, OneOfAKind, PTL
    <3> QED
      BY <2>1, <3>1 DEF OneEach
  <2>3. t.name = u.name => t = u
    BY <1>1, <2>1 DEF TypeOK, Clashes, Triggers
  <2>4. \A x \in Triggers(remote') : x \in Triggers(remote) \/ x \in Pending(p)
    BY <1>1 DEF Triggers
  <2>5. ASSUME NEW x \in Triggers(remote), NEW y \in Pending(p), e \in x.lists, e \in y.lists,
               x.commit = e.at, y.commit = e.at, e.at \notin raced
        PROVE  x.name = y.name \/ LeftBehind(x, e)'
    <3>1. x.name = y.name \/ (y.name.kind = "release" /\ LeftBehind(x, e))
      BY <2>5 DEF SingleInv, Alone, Unmatched, Releases
    <3>2. CASE y.name.kind = "release" /\ LeftBehind(x, e)
      <4>1. y \in Tags
        BY <2>5 DEF Pending, Triggers, Tags
      <4>2. Named(remote, e.tag) # {}
        BY <2>5, <3>2, <4>1, DatedFound
      <4> QED
        BY <1>1, <1>2, <3>2, <4>2, BehindStays
    <3> QED
      BY <3>1, <3>2
  <2>6. CASE t \in Triggers(remote) /\ u \in Triggers(remote)
    BY <1>1, <1>2, <2>6, OnceStays
  <2>7. CASE t \in Triggers(remote) /\ u \in Pending(p)
    BY <2>1, <2>2, <2>3, <2>5, <2>7 DEF Once
  <2>8. CASE t \in Pending(p) /\ u \in Triggers(remote)
    BY <2>1, <2>2, <2>3, <2>5, <2>8 DEF Once
  <2>9. CASE t \in Pending(p) /\ u \in Pending(p)
    <3>1. t.name \in WillPush(p) /\ u.name \in WillPush(p)
          /\ t.name.kind # "component" /\ u.name.kind # "component"
      BY <2>9 DEF Pending, Triggers
    <3>2. t = u
      BY <2>3, <3>1 DEF SingleInv, Orderly
    <3> QED
      BY <3>2 DEF Once
  <2> QED
    BY <2>4, <2>6, <2>7, <2>8, <2>9
<1> QED
  BY <1>2, <1>4, <1>5, <1>6, <1>7 DEF SingleInv


-----------------------------------------------------------------------------
(***************************************************************************)
(* The beginning of a run, which sees what the runs before it left.        *)
(***************************************************************************)
LEMMA BeginSingle ==
    ASSUME SingleInv, IInv', FiniteTags', NEW p \in Clones, NEW c \in Commits, Begin(p, c),
           NEW M, manual \subseteq M, M \subseteq manual \union {c}, Remember(p, c, M), adopted \subseteq adopted',
           NEW r, run' = [run EXCEPT ![p] = r], r.head = c,
           Orderly(p)', Alone(p)', Unpushed(p)'
    PROVE  SingleInv'
<1>1. /\ ~At(p, "push") /\ run'[p].head = c
      /\ \A q \in Clones \ {p} : run'[q] = run[q] /\ local'[q] = local[q]
      /\ local'[p] = Fetched(p) /\ remote' = remote /\ serial' = serial
      /\ manual' = M /\ raced \subseteq raced'
      /\ c \in M /\ Crowded(p, c) => c \in raced'
  BY DEF Begin, Remember, At, SingleInv, IInv, TypeInv, TypeOK
<1>2. Fetched(p) \subseteq local[p] \union remote /\ local[p] \subseteq Fetched(p)
  BY DEF Fetched
<1>0. Moves(p) /\ TypeOK'
  BY <1>1, <1>2 DEF Moves, IInv, TypeInv
<1>3. NamesFit' /\ SignedOnce'
  <2>1. Tags' \subseteq Tags
    BY <1>1, <1>2 DEF Tags
  <2>2. /\ ~At(p, "push") /\ serial' = serial /\ remote \subseteq remote' /\ manual \subseteq manual'
        /\ \A q \in Clones : local[q] \subseteq local'[q]
        /\ \A q \in Clones \ {p} : run'[q] = run[q]
    BY <1>1, <1>2
  <2> QED
    BY <2>1, <2>2, NamesHeld
<1>4. ASSUME NEW q \in Clones \ {p}
      PROVE  Orderly(q)' /\ Alone(q)' /\ Unpushed(q)'
  <2>1. Orderly(q)'
    BY <1>1, <1>4, OthersKept DEF SingleInv
  <2>2. Alone(q)'
    BY <1>0, <1>1, <1>4, UnmatchedStays DEF Alone, SingleInv
  <2>3. Unpushed(q)'
    BY <1>0, <1>4, UnpushedStays
  <2> QED
    BY <2>1, <2>2, <2>3
<1>5. MeetFits'
  <2>1. SUFFICES ASSUME NEW a \in Clones, NEW b \in Clones, a # b,
                        run'[a].head = run'[b].head, run'[a].head \in manual'
                 PROVE  run'[a].head \in raced'
    BY DEF MeetFits
  <2>2. CASE run'[a].head = c
    <3>1. Crowded(p, c)
      BY <1>1, <2>1, <2>2 DEF Crowded
    <3> QED
      BY <1>1, <2>1, <2>2, <3>1
  <2>3. CASE run'[a].head # c
    BY <1>1, <2>1, <2>3 DEF MeetFits, SingleInv
  <2> QED
    BY <2>2, <2>3
<1>6. SingleRelease'
  BY <1>0, <1>1, OnceStays DEF SingleRelease, Once
<1> QED
  BY <1>3, <1>4, <1>5, <1>6 DEF SingleInv

LEMMA BeginOrdinarySingle ==
    ASSUME SingleInv, IInv', FiniteTags', NEW p \in Clones, NEW c \in Commits,
           BeginPublish(p, c) \/ BeginCatalogOnly(p, c)
    PROVE  SingleInv'
<1>1. PICK pc \in {"verify", "catalog"} : Started(p, c, pc)
  BY DEF BeginPublish, BeginCatalogOnly
<1> DEFINE r == [Idle EXCEPT !.pc = pc, !.head = c]
<1>2. /\ Begin(p, c) /\ p \notin Fresh /\ Remember(p, c, manual \union {c}) /\ adopted' = adopted
      /\ run' = [run EXCEPT ![p] = r] /\ run'[p] = r
  BY <1>1 DEF BeginPublish, BeginCatalogOnly, Started, SingleInv, IInv, TypeInv, TypeOK
<1>3. r.pc = pc /\ r.head = c /\ r.push = {}
  BY DEF Idle
<1> HIDE DEF r
<1>4. WillPush(p)' = {} /\ Pending(p)' = {}
  BY <1>1, <1>2, <1>3 DEF WillPush, Pending, At
<1>5. c \in manual'
  BY <1>2 DEF Remember
<1>6. Orderly(p)' /\ Alone(p)' /\ Unpushed(p)'
  BY <1>1, <1>2, <1>3, <1>4, <1>5 DEF Orderly, Ordinary, Alone, Unmatched, Unpushed, At
<1> QED
  BY <1>2, <1>3, <1>6, BeginSingle

\* A resume takes over the one trigger at its commit, or finds none there.
LEMMA BeginResumeSingle ==
    ASSUME SingleInv, IInv', FiniteTags', NEW p \in Clones, NEW c \in Commits, NEW k \in Components,
           BeginResume(p, c, k)
    PROVE  SingleInv'
<1> DEFINE F == Fetched(p)
           T == TriggersAt(F, c)
           n == TriggerFor(F, k, c)
           r == [Idle EXCEPT !.pc = "tag", !.head = c, !.entries = {Entry(k, c)}, !.trigger = n]
<1>1. /\ Begin(p, c) /\ MayUse(F, k, c) /\ Remember(p, c, manual)
      /\ adopted \subseteq adopted'
      /\ run' = [run EXCEPT ![p] = r]
  BY DEF BeginResume
<1>2. /\ local' = [local EXCEPT ![p] = F] /\ remote' = remote /\ run'[p] = r
      /\ TypeOK /\ ~Clashes(local[p], remote) /\ ~Clashes(F, F)
  BY <1>1, FetchedApart DEF Begin, SingleInv, IInv, TypeInv, TypeOK
<1>3. /\ local'[p] = F /\ F \subseteq local[p] \union remote /\ remote \subseteq F
  BY <1>2 DEF Fetched, TypeOK, Clashes, Present, Named
<1>4. \A t, u \in T : t = u
  <2>1. IsFiniteSet(F) /\ T \subseteq F
    BY <1>3 DEF FiniteTags, TriggersAt, Triggers
  <2>2. IsFiniteSet(T) /\ Cardinality(T) <= 1
    BY <1>1, <2>1, FS_Subset DEF MayUse
  <2> HIDE DEF T
  <2> QED
    BY <2>2, AtMostOne
<1>5. \A t \in F : t \in Tags /\ Identified(t) /\ NameFits(t)
  BY <1>3 DEF Tags, NamesFit, SingleInv, IInv, CloneFits
<1>6. CASE T = {}
  <2>1. n = ResumeTrigger(k, c)
    BY <1>6 DEF TriggerFor
  <2>2. n.kind = "resume" /\ n.at = c /\ n = ResumeName(Entry(k, c))
    BY <2>1 DEF ResumeTrigger, ResumeName, Entry, ComponentTag
  <2>3. r.pc = "tag" /\ r.head = c /\ r.push = {} /\ r.entries = {Entry(k, c)} /\ r.trigger = n
    BY DEF Idle
  <2> HIDE DEF n, r
  <2>4. WillPush(p)' = {n}
    BY <1>2, <2>3 DEF WillPush, At
  <2>5. Pending(p)' = {}
    <3>1. ASSUME NEW t \in Triggers(F), t.name = n
          PROVE  FALSE
      <4>1. t \in F /\ t.commit = c
        BY <1>5, <2>2, <3>1 DEF Triggers, NameFits
      <4> QED
        BY <1>6, <3>1, <4>1 DEF TriggersAt
    <3> QED
      BY <1>3, <2>4, <3>1 DEF Pending
  <2>6. Orderly(p)'
    BY <1>2, <2>2, <2>3, <2>4, <2>5 DEF Orderly, Ordinary, At, ResumeName
  <2>7. Alone(p)'
    <3>1. \A u \in Triggers(remote) : u.commit # c
      BY <1>3, <1>6 DEF TriggersAt, Triggers
    <3>2. Entry(k, c).at = c
      BY DEF Entry
    <3> QED
      BY <1>2, <2>3, <2>5, <3>1, <3>2 DEF Alone, Unmatched, At
  <2>8. Unpushed(p)'
    BY <1>2, <2>3 DEF Unpushed, At
  <2> QED
    BY <1>1, <2>3, <2>6, <2>7, <2>8, BeginSingle
<1>7. CASE T # {}
  <2>1. PICK o \in T : n = o.name
    BY <1>7 DEF TriggerFor
  <2>2. /\ o \in F /\ o.commit = c /\ o.name.kind # "component" /\ Present(F, n)
    BY <2>1 DEF TriggersAt, Triggers, Present, Named
  <2>3. n.kind \in {"release", "resume"}
    BY <1>2, <1>5, <2>1, <2>2, TagType DEF Identified
  <2>4. r.pc = "tag" /\ r.head = c /\ r.push = {} /\ r.entries = {Entry(k, c)} /\ r.trigger = n
    BY DEF Idle
  <2> HIDE DEF n, r
  <2>5. WillPush(p)' = {n}
    BY <1>2, <2>4 DEF WillPush, At
  <2>6. \A t \in Pending(p)' : t = o
    BY <1>2, <1>3, <2>1, <2>2, <2>5 DEF Pending, Triggers, Clashes
  <2>7. Orderly(p)'
    BY <1>2, <1>3, <2>2, <2>3, <2>4, <2>5, <2>6 DEF Orderly, Ordinary, At
  <2>8. Alone(p)'
    <3>1. ASSUME NEW u \in Triggers(remote), u.commit = c
          PROVE  u = o
      BY <1>3, <1>4, <2>1, <3>1 DEF TriggersAt, Triggers
    <3> QED
      BY <1>2, <1>3, <2>2, <2>4, <2>6, <3>1 DEF Alone, Unmatched, Releases, At
  <2>9. Unpushed(p)'
    BY <1>2, <2>4 DEF Unpushed, At
  <2> QED
    BY <1>1, <2>4, <2>7, <2>8, <2>9, BeginSingle
<1> QED
  BY <1>6, <1>7


-----------------------------------------------------------------------------
LEMMA InitSingle == Init => SingleInv
<1> SUFFICES ASSUME Init
             PROVE  SingleInv
  OBVIOUS
<1>1. IInv
  BY InitInv
<1>2. /\ remote = {} /\ local = [p \in Clones |-> {}] /\ run = [p \in Clones |-> Idle]
      /\ manual = {}
  BY DEF Init
<1>3. FiniteTags
  BY <1>2, FS_EmptySet DEF FiniteTags
<1>4. NamesFit /\ SignedOnce /\ MeetFits /\ SingleRelease
  <2>1. Tags = {} /\ Triggers(remote) = {}
    BY <1>2 DEF Tags, Triggers
  <2> QED
    BY <1>2, <2>1 DEF NamesFit, SignedOnce, MeetFits, SingleRelease
<1>5. ASSUME NEW p \in Clones
      PROVE  Orderly(p) /\ Alone(p) /\ Unpushed(p)
  <2>1. run[p].pc = "idle" /\ run[p].push = {}
    BY <1>2 DEF Idle
  <2>2. WillPush(p) = {} /\ Pending(p) = {}
    BY <2>1 DEF WillPush, Pending, At
  <2> QED
    BY <2>1, <2>2 DEF Orderly, Ordinary, Alone, Unmatched, Unpushed, At
<1> QED
  BY <1>1, <1>3, <1>4, <1>5 DEF SingleInv

LEMMA StepSingle ==
    ASSUME SingleInv, [Next]_vars
    PROVE  SingleInv'
<1>1. IInv' /\ FiniteTags'
  BY StepInv, FiniteStep DEF SingleInv
<1>2. CASE UNCHANGED vars
  <2> USE <1>2 DEF vars
  <2>1. NamesFit' /\ SignedOnce' /\ MeetFits' /\ SingleRelease'
    <3>1. Tags' = Tags
      BY DEF Tags
    <3>2. \A t : DatedFits(t)' <=> DatedFits(t)
      BY DEF DatedFits, At, Named
    <3>3. \A t : Identified(t)' <=> Identified(t)
      BY <3>2 DEF Identified, ResumeName
    <3>4. NamesFit' /\ SignedOnce'
      BY <3>1, <3>3 DEF SingleInv, NamesFit, SignedOnce
    <3>5. MeetFits'
      BY DEF SingleInv, MeetFits
    <3>6. SingleRelease'
      BY DEF SingleInv, SingleRelease, LeftBehind
    <3> QED
      BY <3>4, <3>5, <3>6
  <2>2. ASSUME NEW p \in Clones
        PROVE  Orderly(p)' /\ Alone(p)' /\ Unpushed(p)'
    <3>1. Orderly(p)'
      BY OthersKept DEF SingleInv
    <3>2. Pending(p)' = Pending(p)
      BY DEF Pending, WillPush, At
    <3>3. \A u, e : LeftBehind(u, e)' <=> LeftBehind(u, e)
      BY DEF LeftBehind, Named
    <3>4. Alone(p)'
      BY <3>2, <3>3 DEF Alone, Unmatched, Releases, At, Present, Named, Triggers, SingleInv
    <3>5. Unpushed(p)'
      BY DEF Unpushed, At, Named, Triggers, SingleInv
    <3> QED
      BY <3>1, <3>4, <3>5
  <2> QED
    BY <1>1, <2>1, <2>2 DEF SingleInv
<1>3. ASSUME NEW p \in Clones, NEW c \in Commits, BeginPublish(p, c) \/ BeginCatalogOnly(p, c)
      PROVE  SingleInv'
  BY <1>1, <1>3, BeginOrdinarySingle
<1>4. ASSUME NEW p \in Clones, NEW c \in Commits, NEW k \in Components,
             WorkflowResumes(p, c, k) \/ MaintainerResumes(p, c, k)
      PROVE  SingleInv'
  BY <1>1, <1>4, BeginResumeSingle DEF WorkflowResumes, MaintainerResumes
<1>5. ASSUME NEW p \in Clones, Refused(p) \/ EnsureRefuses(p) \/ Interrupt(p)
      PROVE  SingleInv'
  <2>1. End(p, remote \union {}) /\ UNCHANGED <<manual, raced, adopted>>
    BY <1>5 DEF Refused, EnsureRefuses, Interrupt, End, Settles
  <2>2. Triggers({}) = {}
    BY DEF Triggers
  <2> QED
    BY <1>1, <2>1, <2>2, EndSingle
<1>6. ASSUME NEW p \in Clones, Push(p)
      PROVE  SingleInv'
  <2> DEFINE T == IF Clashes(Pushing(p), remote) THEN {} ELSE Pushing(p)
  <2>1. T \subseteq local[p] /\ Triggers(T) \subseteq Pending(p)
    BY <1>6 DEF Push, Pushing, Pending, WillPush, Triggers
  <2>2. End(p, remote \union T) /\ UNCHANGED <<manual, raced, adopted>>
    <3>1. remote \union T = IF Clashes(Pushing(p), remote) THEN remote ELSE remote \union Pushing(p)
      OBVIOUS
    <3> HIDE DEF T
    <3> QED
      BY <1>6, <3>1 DEF Push
  <2> HIDE DEF T
  <2> QED
    BY <1>1, <2>1, <2>2, EndSingle
<1>7. ASSUME NEW p \in Clones, NEW S \in SUBSET Created(p), PushTagsPartly(p, S)
      PROVE  SingleInv'
  <2>1. S \subseteq local[p] /\ Triggers(S) = {}
    BY DEF Created, Triggers, SingleInv, IInv, CloneFits, RunFits
  <2>2. End(p, remote \union S) /\ UNCHANGED <<manual, raced, adopted>>
    BY <1>7 DEF PushTagsPartly
  <2> QED
    BY <1>1, <2>1, <2>2, EndSingle
<1>8. ASSUME NEW p \in Clones, CreateTrigger(p)
      PROVE  SingleInv'
  <2>1. PICK lists : lists = {e \in run[p].entries : e.tag.of \in Plugins}
    OBVIOUS
  <2>2. TriggerMade(p, lists, TRUE) /\ Ordinary(p) /\ At(p, "announce")
    BY <1>8, <2>1 DEF CreateTrigger, Ordinary, At
  <2>3. \A e \in lists : At(p, "announce") /\ e \in run[p].entries
    BY <2>1, <2>2
  <2> QED
    BY <1>1, <2>2, <2>3, DatedSingle
<1>9. ASSUME NEW p \in Clones, NEW s \in Commits, CatalogOnly(p, s)
      PROVE  SingleInv'
  <2>0. PICK lists : lists = {}
    OBVIOUS
  <2>1. TriggerMade(p, lists, FALSE) /\ Ordinary(p)
    BY <1>9, <2>0 DEF CatalogOnly, Ordinary, At
  <2>2. \A e \in lists : At(p, "announce") /\ e \in run[p].entries
    BY <2>0
  <2> QED
    BY <1>1, <2>1, <2>2, DatedSingle
<1>10. ASSUME NEW p \in Clones, Step(p)
       PROVE  SingleInv'
  BY <1>1, <1>5, <1>6, <1>8, <1>9, <1>10, VerifySingle, CreateTagSingle, PushTagsSingle,
     EnsureTagSingle, EnsureTriggerSingle DEF Step
<1> QED
  BY <1>2, <1>3, <1>4, <1>5, <1>7, <1>10 DEF Next

\* Of the triggers on origin at most one dated trigger and one resume trigger
\* list a plugin version, for any number of clones, runs and interruptions.
\* There are both only where a maintainer's run raced another one at its commit,
\* a trigger took the version from an earlier commit, or a rule pack's resume
\* took over the one and left the version's tag in its clone.
THEOREM SinglyReleased == Spec => []SingleRelease
<1>1. SingleInv /\ [Next]_vars => SingleInv'
  BY StepSingle
<1>2. SingleInv => SingleRelease
  BY DEF SingleInv
<1> QED
  BY InitSingle, <1>1, <1>2, PTL DEF Spec
=============================================================================
