----------------------- MODULE CardigannEngineProofs ------------------------
(***************************************************************************)
(* What holds of every engine operation, for every set of definitions,     *)
(* addresses, cookies and limits.  Its cookies: a request carries one only *)
(* on the configured site, and only a setting or one that was persisted    *)
(* before; and a stored session of the tracker's expires.  Its course: a   *)
(* search that completes has its answers, and the steps are bounded.       *)
(*                                                                         *)
(* Every operator that resume is built from turns a context into a step.   *)
(* StepOf says what any of them may do to the cookies, Leads and Moves     *)
(* what they leave to be asked for; both hold of compositions, so that     *)
(* each arm is one chain of these lemmas.                                  *)
(***************************************************************************)
EXTENDS CardigannEngine, FiniteSetTheorems, WellFoundedInduction, TLAPS

OnSiteOnly(c) == c.sent # NoCookie => OnSite(c.url)

Fit(c) == c \in Context /\ OnSiteOnly(c)

\* n is a step that an operator makes of the context c.
StepOf(c, n) ==
    /\ Fit(n)
    /\ n.config = c.config
    /\ n.jar \in {c.jar, c.config}
    /\ n.sent \in {NoCookie, c.sent, c.jar, c.config}

LEMMA StepOfTransitive ==
    ASSUME NEW c, NEW m, NEW n, StepOf(c, m), StepOf(m, n)
    PROVE  StepOf(c, n)
BY DEF StepOf

\* A nonempty set of natural numbers has a least element.
LEMMA Least ==
    ASSUME NEW S \in SUBSET Nat, S # {}
    PROVE  \E m \in S : \A x \in S : m <= x
<1> DEFINE T == {0..x : x \in S}
<1>1. T \subseteq FiniteSubsetsOf(Nat)
  <2>1. ASSUME NEW x \in S PROVE 0..x \in FiniteSubsetsOf(Nat)
    BY FS_Interval DEF FiniteSubsetsOf
  <2> QED BY <2>1
<1>2. T # {}
  OBVIOUS
<1>3. PICK U \in T : \A V \in T : <<V, U>> \notin StrictSubsetOrdering(Nat)
  <2> HIDE DEF T
  <2> QED BY <1>1, <1>2, FS_StrictSubsetOrderingWellFounded, WFMin
<1>4. PICK m \in S : U = 0..m
  BY <1>3
<1>5. ASSUME NEW x \in S, x < m PROVE FALSE
  <2>1. 0..x \in T /\ 0..x \subseteq 0..m /\ m \in 0..m /\ m \notin 0..x
    BY <1>5
  <2>2. <<0..x, 0..m>> \in StrictSubsetOrdering(Nat)
    BY <2>1 DEF StrictSubsetOrdering
  <2> QED BY <1>3, <1>4, <2>1, <2>2
<1> QED BY <1>5

\* A context stays one when a field takes another value of its type.
LEMMA PutStep ==
    ASSUME NEW c \in Context
    PROVE  /\ \A v \in Phases \union Ends : [c EXCEPT !.to = v] \in Context
           /\ \A v \in Urls \union {NoUrl} : [c EXCEPT !.url = v] \in Context
           /\ \A v \in Nat : [c EXCEPT !.hops = v] \in Context
           /\ \A v \in Jar : [c EXCEPT !.sent = v] \in Context
           /\ \A v \in Jar : [c EXCEPT !.jar = v] \in Context
           /\ \A v \in 0..1 : [c EXCEPT !.relogin = v] \in Context
           /\ \A v \in SUBSET Urls : [c EXCEPT !.seen = v] \in Context
           /\ \A v \in Kinds : [c EXCEPT !.kind = v] \in Context
           /\ \A v \in Jar : [c EXCEPT !.config = v] \in Context
           /\ \A v \in SUBSET Nat : [c EXCEPT !.wanted = v] \in Context
           /\ \A v \in BOOLEAN : [c EXCEPT !.answer = v] \in Context
<1>1. ASSUME NEW v \in Phases \union Ends PROVE [c EXCEPT !.to = v] \in Context
  BY DEF Context
<1>2. ASSUME NEW v \in Urls \union {NoUrl} PROVE [c EXCEPT !.url = v] \in Context
  BY DEF Context
<1>3. ASSUME NEW v \in Nat PROVE [c EXCEPT !.hops = v] \in Context
  BY DEF Context
<1>4. ASSUME NEW v \in Jar PROVE [c EXCEPT !.sent = v] \in Context
  BY DEF Context
<1>5. ASSUME NEW v \in Jar PROVE [c EXCEPT !.jar = v] \in Context
  BY DEF Context
<1>6. ASSUME NEW v \in 0..1 PROVE [c EXCEPT !.relogin = v] \in Context
  BY DEF Context
<1>7. ASSUME NEW v \in SUBSET Urls PROVE [c EXCEPT !.seen = v] \in Context
  BY DEF Context
<1>8. ASSUME NEW v \in Kinds PROVE [c EXCEPT !.kind = v] \in Context
  BY DEF Context
<1>9. ASSUME NEW v \in Jar PROVE [c EXCEPT !.config = v] \in Context
  BY DEF Context
<1>10. ASSUME NEW v \in SUBSET Nat PROVE [c EXCEPT !.wanted = v] \in Context
  BY DEF Context
<1>11. ASSUME NEW v \in BOOLEAN PROVE [c EXCEPT !.answer = v] \in Context
  BY DEF Context
<1> QED BY <1>1, <1>2, <1>3, <1>4, <1>5, <1>6, <1>7, <1>8, <1>9, <1>10, <1>11

LEMMA AskStep ==
    ASSUME NEW c, Fit(c), NEW phase \in Phases, NEW u \in Urls
    PROVE  StepOf(c, Ask(c, phase, u))
<1> DEFINE sent == IF OnSite(u) THEN c.jar ELSE NoCookie
           n == [c EXCEPT !.to = phase, !.url = u, !.hops = 0, !.sent = sent]
<1>1. sent \in Jar /\ sent \in {NoCookie, c.jar} /\ (sent # NoCookie => OnSite(u))
  BY DEF Fit, Context, Jar
<1> HIDE DEF sent
<1>2. n \in Context
  <2>1. [c EXCEPT !.to = phase] \in Context
    BY PutStep DEF Fit
  <2>2. [c EXCEPT !.to = phase, !.url = u] \in Context
    BY <2>1, PutStep
  <2>3. [c EXCEPT !.to = phase, !.url = u, !.hops = 0] \in Context
    BY <2>2, PutStep
  <2> QED BY <1>1, <2>3, PutStep
<1>3. n.config = c.config /\ n.jar = c.jar /\ n.sent = sent /\ n.url = u
  BY DEF Fit, Context
<1>4. StepOf(c, n)
  BY <1>1, <1>2, <1>3 DEF StepOf, Fit, OnSiteOnly
<1> QED BY <1>4 DEF Ask, sent

LEMMA EndStep ==
    ASSUME NEW c, Fit(c), NEW how \in Ends
    PROVE  StepOf(c, End(c, how))
BY DEF StepOf, Fit, OnSiteOnly, End, Context

LEMMA FollowStep ==
    ASSUME NEW c, Fit(c), NEW r \in Response
    PROVE  StepOf(c, Follow(c, r))
<1>1. StepOf(c, End(c, "error"))
  BY EndStep DEF Ends
<1>2. ASSUME r.location # NoUrl, c.hops < MaxHops PROVE StepOf(c, Follow(c, r))
  <2> DEFINE sent == IF <<c.url, r.location>> \notin SameSite \/ ~OnSite(r.location)
                     THEN NoCookie
                     ELSE IF c.jar # NoCookie THEN c.jar ELSE c.sent
             n == [c EXCEPT !.url = r.location, !.hops = @ + 1, !.sent = sent]
  <2>1. Follow(c, r) = n
    <3>1. c.hops \in Nat
      BY DEF Fit, Context
    <3> QED BY <1>2, <3>1, LimitsAssumption DEF Follow
  <2>2. /\ sent \in {NoCookie, c.sent, c.jar}
        /\ sent # NoCookie => OnSite(r.location)
    OBVIOUS
  <2>3. sent \in Jar /\ r.location \in Urls \union {NoUrl}
    BY <2>2 DEF Fit, Context, Response, Jar
  <2> HIDE DEF sent
  <2>4. n \in Context
    <3>1. [c EXCEPT !.url = r.location] \in Context
      BY <2>3, PutStep DEF Fit
    <3>2. [c EXCEPT !.url = r.location, !.hops = @ + 1] \in Context
      <4>1. c.hops + 1 \in Nat
        BY DEF Fit, Context
      <4> QED BY <3>1, <4>1, PutStep
    <3> QED BY <2>3, <3>2, PutStep
  <2>5. n.config = c.config /\ n.jar = c.jar /\ n.sent = sent /\ n.url = r.location
    BY DEF Fit, Context
  <2> QED BY <2>1, <2>2, <2>4, <2>5 DEF StepOf, Fit, OnSiteOnly
<1>3. c.hops >= MaxHops \/ c.hops < MaxHops
  BY LimitsAssumption DEF Fit, Context
<1> QED BY <1>1, <1>2, <1>3 DEF Follow

\* The fields that say nothing of cookies may be set in passing.
LEMMA TouchStep ==
    ASSUME NEW c, Fit(c)
    PROVE  /\ \A v \in Nat \ {0} : StepOf(c, [c EXCEPT !.path = v])
           /\ \A v \in Nat : StepOf(c, [c EXCEPT !.index = v])
           /\ \A v \in SUBSET Urls : StepOf(c, [c EXCEPT !.seen = v])
           /\ \A v \in SUBSET Nat : StepOf(c, [c EXCEPT !.answered = v])
           /\ \A v \in (SUBSET LandingParts) \union {{"before"}} : StepOf(c, [c EXCEPT !.body = v])
           /\ StepOf(c, [c EXCEPT !.selection = TRUE])
           /\ StepOf(c, [c EXCEPT !.relogin = 1])
<1>1. ASSUME NEW v \in Nat \ {0} PROVE StepOf(c, [c EXCEPT !.path = v])
  BY DEF StepOf, Fit, OnSiteOnly, Context
<1>2. ASSUME NEW v \in Nat PROVE StepOf(c, [c EXCEPT !.index = v])
  BY DEF StepOf, Fit, OnSiteOnly, Context
<1>3. ASSUME NEW v \in SUBSET Urls PROVE StepOf(c, [c EXCEPT !.seen = v])
  BY DEF StepOf, Fit, OnSiteOnly, Context
<1>4. ASSUME NEW v \in SUBSET Nat PROVE StepOf(c, [c EXCEPT !.answered = v])
  BY DEF StepOf, Fit, OnSiteOnly, Context
<1>5. ASSUME NEW v \in (SUBSET LandingParts) \union {{"before"}}
      PROVE  StepOf(c, [c EXCEPT !.body = v])
  BY DEF StepOf, Fit, OnSiteOnly, Context
<1>6. StepOf(c, [c EXCEPT !.selection = TRUE])
  BY DEF StepOf, Fit, OnSiteOnly, Context
<1>7. StepOf(c, [c EXCEPT !.relogin = 1])
  BY DEF StepOf, Fit, OnSiteOnly, Context
<1> QED BY <1>1, <1>2, <1>3, <1>4, <1>5, <1>6, <1>7

LEMMA DefinitionType ==
    ASSUME definition \in Definitions
    PROVE  /\ definition.loginUrl \in Urls /\ definition.grabUrl \in Urls
           /\ definition.paths \in Seq(Urls)
           /\ definition.selectors \in Nat
           /\ definition.wanted \subseteq SUBSET Nat
           /\ definition.kinds \subseteq Kinds
           /\ definition.settings \subseteq Configured \union {NoCookie}
           /\ definition.answers \subseteq BOOLEAN
BY DefinitionsAssumption DEF Definition

LEMMA NextSearchStep ==
    ASSUME definition \in Definitions, NEW c, Fit(c)
    PROVE  StepOf(c, NextSearch(c))
<1>1. CASE Unasked(c) = {}
  BY <1>1, EndStep DEF NextSearch, Ends
<1>2. CASE Unasked(c) # {}
  <2> DEFINE p == CHOOSE q \in Unasked(c) : \A x \in Unasked(c) : q <= x
             m == [c EXCEPT !.path = p]
             n == [m EXCEPT !.seen = IF Gets(p) THEN @ \union {PathUrl(p)} ELSE @]
  <2>1. Unasked(c) \in SUBSET Nat
    BY DefinitionType DEF Unasked, Fit, Context
  <2>2. p \in Unasked(c)
    BY <1>2, <2>1, Least
  <2> HIDE DEF p
  <2>3. p \in Nat \ {0} /\ p \in 1..Len(definition.paths)
    <3>1. c.path \in Nat \ {0} /\ p \in c.path..Len(definition.paths)
      BY <2>2 DEF Unasked, Fit, Context
    <3> QED BY <3>1, DefinitionType
  <2>4. PathUrl(p) \in Urls
    BY <2>3, DefinitionType DEF PathUrl
  <2>5. StepOf(c, m)
    BY <2>3, TouchStep
  <2> DEFINE seen == IF Gets(p) THEN m.seen \union {PathUrl(p)} ELSE m.seen
  <2>6. StepOf(m, n)
    <3>1. m \in Context
      BY <2>5 DEF StepOf, Fit
    <3> HIDE DEF m
    <3>2. seen \in SUBSET Urls
      BY <2>4, <3>1 DEF Context
    <3>3. n = [m EXCEPT !.seen = seen]
      OBVIOUS
    <3> HIDE DEF n, seen
    <3> QED BY <2>5, <3>2, <3>3, TouchStep DEF StepOf
  <2> HIDE DEF n
  <2>7. StepOf(n, Ask(n, "SearchResponse", PathUrl(p)))
    BY <2>4, <2>6, AskStep DEF StepOf, Phases
  <2> USE DEF n
  <2>8. NextSearch(c) = Ask(n, "SearchResponse", PathUrl(p))
    BY <1>2 DEF NextSearch, p
  <2> HIDE DEF n, m
  <2> QED BY <2>5, <2>6, <2>7, <2>8, StepOfTransitive
<1> QED BY <1>1, <1>2

LEMMA CompleteGrabStep ==
    ASSUME NEW c, Fit(c), NEW link \in Links, link # "none"
    PROVE  StepOf(c, CompleteGrab(c, link))
BY AskStep, EndStep DEF CompleteGrab, Links, Phases, Ends

LEMMA NextSelectorStep ==
    ASSUME NEW c, Fit(c), NEW r \in Response
    PROVE  StepOf(c, NextSelector(c, r))
<1> DEFINE m == [c EXCEPT !.index = @ + r.passed + 1]
<1>1. c.index + r.passed + 1 \in Nat /\ r.link \in Links
  BY DEF Fit, Context, Response
<1>2. StepOf(c, m)
  BY <1>1, TouchStep
<1>3. ASSUME r.link # "none" PROVE StepOf(m, CompleteGrab(m, r.link))
  BY <1>1, <1>2, <1>3, CompleteGrabStep DEF StepOf
<1>4. StepOf(c, End(c, "rejected"))
  BY EndStep DEF Ends
<1> QED BY <1>2, <1>3, <1>4, StepOfTransitive DEF NextSelector

LEMMA FinishGrabStep ==
    ASSUME NEW c, Fit(c), NEW r \in Response
    PROVE  StepOf(c, FinishGrab(c, r))
<1> DEFINE m == [c EXCEPT !.index = 0]
<1>1. StepOf(c, m)
  BY TouchStep
<1>2. StepOf(m, NextSelector(m, r))
  BY <1>1, NextSelectorStep DEF StepOf
<1>3. StepOf(c, End(c, "complete")) /\ StepOf(c, End(c, "error"))
  BY EndStep DEF Ends
<1> QED BY <1>1, <1>2, <1>3, StepOfTransitive DEF FinishGrab

LEMMA AfterBeforeStep ==
    ASSUME definition \in Definitions, NEW c, Fit(c), NEW r \in Response
    PROVE  StepOf(c, AfterBefore(c, r))
<1>1. StepOf(c, FinishGrab(c, r))
  BY FinishGrabStep
<1>2. StepOf(c, Ask(c, "GrabPage", definition.grabUrl))
  BY AskStep, DefinitionType DEF Phases
<1>3. StepOf(c, CompleteGrab(c, definition.grabUrl))
  <2>1. StepOf(c, Ask(c, "GrabDownload", definition.grabUrl))
    BY AskStep, DefinitionType DEF Phases
  <2> QED BY <2>1, EndStep DEF CompleteGrab, Ends
<1> QED BY <1>1, <1>2, <1>3 DEF AfterBefore

LEMMA ContinueStep ==
    ASSUME definition \in Definitions, NEW c, Fit(c), NEW r \in Response
    PROVE  StepOf(c, Continue(c, r))
<1>1. StepOf(c, Ask(c, "TestConnection", BaseUrl))
  BY AskStep, UrlsAssumption DEF Phases
<1>2. StepOf(c, NextSearch(c))
  BY NextSearchStep
<1>3. StepOf(c, BeginGrab(c, r))
  <2>1. StepOf(c, AfterBefore(c, r))
    BY AfterBeforeStep
  <2>2. /\ StepOf(c, Ask(c, "GrabResolveBefore", definition.grabUrl))
        /\ StepOf(c, Ask(c, "GrabBeforeResponse", definition.grabUrl))
        /\ StepOf(c, Ask(c, "GrabDownload", definition.grabUrl))
    BY AskStep, DefinitionType DEF Phases
  <2>3. StepOf(c, CompleteGrab(c, definition.grabUrl))
    BY <2>2, EndStep DEF CompleteGrab, Ends
  <2> QED BY <2>1, <2>2, <2>3 DEF BeginGrab
<1>4. c.kind \in Kinds
  BY DEF Fit, Context
<1> QED BY <1>1, <1>2, <1>3, <1>4 DEF Continue, Kinds

LEMMA LoginStep ==
    ASSUME definition \in Definitions, NEW c, Fit(c), NEW r \in Response
    PROVE  StepOf(c, Login(c, r))
<1>1. StepOf(c, Continue(c, r))
  BY ContinueStep
<1>2. /\ StepOf(c, Ask(c, "LoginLanding", definition.loginUrl))
      /\ StepOf(c, Ask(c, "LoginSubmit", definition.loginUrl))
  BY AskStep, DefinitionType DEF Phases
<1>3. StepOf(c, End(c, "rejected"))
  BY EndStep DEF Ends
<1> QED BY <1>1, <1>2, <1>3 DEF Login

LEMMA ReloginStep ==
    ASSUME definition \in Definitions, NEW c, Fit(c), NEW r \in Response
    PROVE  StepOf(c, Relogin(c, r))
<1> DEFINE m == [c EXCEPT !.relogin = 1, !.jar = c.config, !.seen = @ \ {c.url}]
<1>1. m \in Context
  <2>1. [c EXCEPT !.relogin = 1] \in Context
    BY TouchStep DEF StepOf, Fit
  <2>2. [c EXCEPT !.relogin = 1, !.jar = c.config] \in Context
    <3>1. c.config \in Jar
      BY DEF Fit, Context
    <3> QED BY <2>1, <3>1, PutStep
  <2>3. c.seen \ {c.url} \in SUBSET Urls
    BY DEF Fit, Context
  <2>4. m = [[c EXCEPT !.relogin = 1, !.jar = c.config] EXCEPT !.seen = c.seen \ {c.url}]
    BY DEF Fit, Context
  <2> HIDE DEF m
  <2> QED BY <2>2, <2>3, <2>4, PutStep
<1>2. /\ m.config = c.config /\ m.jar = c.config /\ m.sent = c.sent /\ m.url = c.url
  BY DEF Fit, Context
<1>3. StepOf(c, m)
  BY <1>1, <1>2 DEF StepOf, Fit, OnSiteOnly
<1> HIDE DEF m
<1>4. StepOf(m, Login(m, r))
  BY <1>3, LoginStep DEF StepOf
<1>5. Relogin(c, r) = Login(m, r)
  BY DEF Relogin, m
<1> QED BY <1>3, <1>4, <1>5, StepOfTransitive

LEMMA CheckedStep ==
    ASSUME definition \in Definitions, NEW c, Fit(c), NEW r \in Response,
           NEW good, StepOf(c, good)
    PROVE  StepOf(c, Checked(c, r, good))
<1>1. StepOf(c, Relogin(c, r)) /\ StepOf(c, End(c, "rejected"))
  BY ReloginStep, EndStep DEF Ends
<1> QED BY <1>1 DEF Checked

LEMMA SubmitFormStep ==
    ASSUME definition \in Definitions, NEW c, Fit(c),
           NEW landing \in (SUBSET LandingParts) \union {{"before"}}
    PROVE  StepOf(c, SubmitForm(c, landing))
<1> DEFINE m == [c EXCEPT !.body = landing]
<1>1. StepOf(c, m)
  BY TouchStep
<1> HIDE DEF m
<1>2. Fit(m)
  BY <1>1 DEF StepOf
<1>3. /\ StepOf(m, Ask(m, "SimpleCaptcha", definition.loginUrl))
      /\ StepOf(m, Ask(m, "CaptchaImage", definition.loginUrl))
      /\ StepOf(c, Ask(c, "LoginSubmit", definition.loginUrl))
  BY <1>2, AskStep, DefinitionType DEF Phases
<1>4. StepOf(m, End(m, "error")) /\ StepOf(m, End(m, "manual")) /\ StepOf(c, End(c, "error"))
  BY <1>2, EndStep DEF Ends
<1>5. /\ StepOf(c, Ask(m, "SimpleCaptcha", definition.loginUrl))
      /\ StepOf(c, Ask(m, "CaptchaImage", definition.loginUrl))
      /\ StepOf(c, End(m, "error")) /\ StepOf(c, End(m, "manual"))
  BY <1>1, <1>3, <1>4, StepOfTransitive
<1> QED BY <1>3, <1>4, <1>5 DEF SubmitForm, m

\* Every arm of resume makes a step of the context it is given.
LEMMA LoginArms ==
    ASSUME definition \in Definitions, NEW c, Fit(c), NEW r \in Response
    PROVE  /\ StepOf(c, LoginLanding(c, r)) /\ StepOf(c, SimpleCaptcha(c, r))
           /\ StepOf(c, LoginSubmit(c, r)) /\ StepOf(c, CaptchaImage(c, r))
           /\ StepOf(c, TestConnection(c, r))
<1>1. /\ StepOf(c, Follow(c, r)) /\ StepOf(c, Continue(c, r))
      /\ StepOf(c, End(c, "complete")) /\ StepOf(c, End(c, "rejected"))
      /\ StepOf(c, End(c, "error")) /\ StepOf(c, End(c, "manual"))
  BY FollowStep, ContinueStep, EndStep DEF Ends
<1>2. StepOf(c, LoginLanding(c, r))
  <2>1. StepOf(c, SubmitForm(c, r.landing))
    BY SubmitFormStep DEF Response
  <2> QED BY <1>1, <2>1 DEF LoginLanding
<1>3. StepOf(c, SimpleCaptcha(c, r))
  <2> DEFINE m == [c EXCEPT !.selection = TRUE]
             n == [m EXCEPT !.body = {}]
  <2>1. StepOf(c, m)
    BY TouchStep
  <2>2. StepOf(m, n)
    BY <2>1, TouchStep DEF StepOf
  <2>3. StepOf(c, n)
    BY <2>1, <2>2, StepOfTransitive
  <2>4. c.body \in (SUBSET LandingParts) \union {{"before"}}
    BY DEF Fit, Context
  <2> HIDE DEF n
  <2>5. StepOf(n, SubmitForm(n, c.body))
    BY <2>3, <2>4, SubmitFormStep DEF StepOf
  <2>6. StepOf(c, SubmitForm(n, c.body))
    BY <2>3, <2>5, StepOfTransitive
  <2> QED BY <1>1, <2>6 DEF SimpleCaptcha, n
<1>4. StepOf(c, LoginSubmit(c, r)) /\ StepOf(c, TestConnection(c, r))
  BY <1>1 DEF LoginSubmit, TestConnection
<1>5. StepOf(c, CaptchaImage(c, r))
  BY <1>1 DEF CaptchaImage
<1> QED BY <1>2, <1>3, <1>4, <1>5

LEMMA SearchArm ==
    ASSUME definition \in Definitions, NEW c, Fit(c), NEW r \in Response
    PROVE  StepOf(c, SearchResponse(c, r))
<1> DEFINE m == [c EXCEPT !.answered = @ \union {c.path}]
           n == [m EXCEPT !.path = @ + 1]
           good == IF r.page = "bad" THEN End(c, "rejected") ELSE NextSearch(n)
<1>1. c.answered \union {c.path} \in SUBSET Nat /\ m.path = c.path /\ c.path + 1 \in Nat \ {0}
  BY DEF Fit, Context
<1>2. StepOf(c, m)
  BY <1>1, TouchStep
<1>3. StepOf(m, n)
  BY <1>1, <1>2, TouchStep DEF StepOf
<1>4. StepOf(c, n)
  BY <1>2, <1>3, StepOfTransitive
<1>5. StepOf(c, NextSearch(n))
  <2> HIDE DEF n
  <2>1. StepOf(n, NextSearch(n))
    BY <1>4, NextSearchStep DEF StepOf
  <2> QED BY <1>4, <2>1, StepOfTransitive
<1>6. StepOf(c, good) /\ StepOf(c, Follow(c, r))
  BY <1>5, EndStep, FollowStep DEF Ends
<1>7. StepOf(c, Checked(c, r, good))
  <2> HIDE DEF good
  <2> QED BY <1>6, CheckedStep
<1>8. SearchResponse(c, r) = IF IsFollowed(r, FollowsSearch(c.path)) THEN Follow(c, r)
                             ELSE Checked(c, r, good)
  BY DEF SearchResponse
<1> HIDE DEF good
<1> QED BY <1>6, <1>7, <1>8

LEMMA GrabArms ==
    ASSUME definition \in Definitions, NEW c, Fit(c), NEW r \in Response
    PROVE  /\ StepOf(c, GrabResolveBefore(c, r)) /\ StepOf(c, GrabBeforeResponse(c, r))
           /\ StepOf(c, GrabPage(c, r)) /\ StepOf(c, GrabDownload(c, r))
<1>1. /\ StepOf(c, Follow(c, r)) /\ StepOf(c, FinishGrab(c, r)) /\ StepOf(c, NextSelector(c, r))
      /\ StepOf(c, End(c, "complete")) /\ StepOf(c, End(c, "rejected"))
      /\ StepOf(c, End(c, "error"))
  BY FollowStep, FinishGrabStep, NextSelectorStep, EndStep DEF Ends
<1>2. StepOf(c, GrabResolveBefore(c, r))
  <2> DEFINE good == IF r.link \in Urls THEN Ask(c, "GrabBeforeResponse", r.link)
                     ELSE End(c, "error")
  <2>1. StepOf(c, good)
    BY <1>1, AskStep DEF Phases
  <2> HIDE DEF good
  <2>2. StepOf(c, Checked(c, r, good))
    BY <2>1, CheckedStep
  <2> QED BY <1>1, <2>2 DEF GrabResolveBefore, good
<1>3. StepOf(c, GrabBeforeResponse(c, r))
  <2> DEFINE m == [c EXCEPT !.body = {"before"}]
             good == AfterBefore(m, r)
  <2>1. StepOf(c, m)
    BY TouchStep
  <2> HIDE DEF m
  <2>2. StepOf(c, good)
    BY <2>1, AfterBeforeStep, StepOfTransitive DEF StepOf
  <2> HIDE DEF good
  <2>3. StepOf(c, Checked(c, r, good))
    BY <2>2, CheckedStep
  <2> QED BY <1>1, <2>3 DEF GrabBeforeResponse, good, m
<1>4. StepOf(c, GrabPage(c, r))
  <2>1. StepOf(c, Checked(c, r, FinishGrab(c, r)))
    BY <1>1, CheckedStep
  <2> QED BY <1>1, <2>1 DEF GrabPage
<1>5. StepOf(c, GrabDownload(c, r))
  <2> DEFINE good == CASE r.page \in {"in", "untyped"}        -> End(c, "complete")
                       [] c.index > 0 /\ definition.testLink  -> NextSelector(c, r)
                       [] OTHER                               -> End(c, "rejected")
  <2>1. StepOf(c, good)
    BY <1>1
  <2> HIDE DEF good
  <2>2. StepOf(c, Checked(c, r, good))
    BY <2>1, CheckedStep
  <2> QED BY <1>1, <2>2 DEF GrabDownload, good
<1> QED BY <1>2, <1>3, <1>4, <1>5
-----------------------------------------------------------------------------
(* The inductive invariant.  What a request may carry is known: none, a    *)
(* setting, or persisted.  An operation's context may also hold the cookie *)
(* of its session, which becomes known before the next request waits for   *)
(* its answer.                                                             *)

Known == {NoCookie} \union Configured \union persisted

Tracker == Cookies \ Configured

Sound(b, K) ==
    /\ b \in Operation
    /\ OnSiteOnly(b.ctx)
    /\ b.ctx.config \in K \union {b.session.cookie}
    /\ b.ctx.jar \in K \union {b.session.cookie}
    /\ b.ctx.sent \in K \union {b.session.cookie}
    /\ b.session.cookie \in Tracker => b.session.dated
    /\ b.pc = "waiting" => b.session.cookie \in K

CellInv == stored # NoSession => stored.cookie \in persisted

OpsInv == \A o \in Ops : Sound(op[o], Known)

EngineInv == TypeOK /\ CellInv /\ StoredSessionExpires /\ OpsInv

LEMMA IdleSound ==
    ASSUME NEW K, NoCookie \in K
    PROVE  Sound(IdleOperation, K)
<1>1. EmptySession \in Session /\ EmptySession.cookie = NoCookie
  BY DEF EmptySession, Session, Jar
<1>2. NewContext \in Context
  BY DEF NewContext, Context, Jar, Ends, Kinds, Phases, LandingParts
<1>3. NewContext.sent = NoCookie /\ NewContext.jar = NoCookie /\ NewContext.config = NoCookie
  BY DEF NewContext
<1>4. IdleOperation \in Operation
  BY <1>1, <1>2 DEF IdleOperation, Operation, PCs
<1>5. /\ IdleOperation.session = EmptySession /\ IdleOperation.ctx = NewContext
      /\ IdleOperation.pc = "idle"
  BY DEF IdleOperation
<1>6. NoCookie \notin Tracker
  BY CookiesAssumption DEF Tracker
<1> QED BY <1>1, <1>3, <1>4, <1>5, <1>6 DEF Sound, OnSiteOnly

\* Going on is sound as soon as the session in hand is known.
LEMMA AdvanceSound ==
    ASSUME NEW K, NoCookie \in K, NEW b, Sound(b, K), b.session.cookie \in K
    PROVE  Sound(Advance(b), K)
<1>1. Sound(IdleOperation, K)
  BY IdleSound
<1>2. b.steps + 1 \in Nat /\ b \in Operation
  BY DEF Sound, Operation
<1>3. ASSUME NEW pc \in PCs, NEW f \in BOOLEAN
      PROVE  Sound([b EXCEPT !.pc = pc, !.final = f, !.steps = b.steps + 1], K)
  <2> DEFINE m == [b EXCEPT !.pc = pc, !.final = f, !.steps = b.steps + 1]
  <2>1. m \in Operation
    BY <1>2 DEF Operation
  <2>2. m.ctx = b.ctx /\ m.session = b.session
    BY <1>2 DEF Operation
  <2> HIDE DEF m
  <2>3. Sound(m, K)
    BY <2>1, <2>2 DEF Sound
  <2> QED BY <2>3 DEF m
<1>4. [b EXCEPT !.pc = "waiting", !.steps = @ + 1]
        = [b EXCEPT !.pc = "waiting", !.final = b.final, !.steps = b.steps + 1]
  BY <1>2 DEF Operation
<1>5. b.final \in BOOLEAN
  BY <1>2 DEF Operation
<1>6. /\ Sound([b EXCEPT !.pc = "waiting", !.steps = @ + 1], K)
      /\ Sound([b EXCEPT !.pc = "saving", !.final = TRUE, !.steps = @ + 1], K)
  BY <1>3, <1>4, <1>5 DEF PCs
<1> QED BY <1>1, <1>6 DEF Advance

\* What is sound stays so when more is persisted.
LEMMA SoundGrows ==
    ASSUME NEW K, NEW L, K \subseteq L, NEW b, Sound(b, K)
    PROVE  Sound(b, L)
BY DEF Sound

LEMMA PutResponse ==
    ASSUME NEW r \in Response
    PROVE  /\ \A v \in {"ok", "redirect", "denied", "failed"} : [r EXCEPT !.status = v] \in Response
           /\ \A v \in Urls \union {NoUrl} : [r EXCEPT !.location = v] \in Response
           /\ \A v \in Cookies \union {"keep", "delete"} : [r EXCEPT !.cookie = v] \in Response
           /\ \A v \in {"in", "out", "untyped", "bad"} : [r EXCEPT !.page = v] \in Response
           /\ \A v \in SUBSET LandingParts : [r EXCEPT !.landing = v] \in Response
           /\ \A v \in Links : [r EXCEPT !.link = v] \in Response
           /\ \A v \in Nat : [r EXCEPT !.passed = v] \in Response
<1>1. ASSUME NEW v \in {"ok", "redirect", "denied", "failed"}
      PROVE  [r EXCEPT !.status = v] \in Response
  BY DEF Response
<1>2. ASSUME NEW v \in Urls \union {NoUrl} PROVE [r EXCEPT !.location = v] \in Response
  BY DEF Response
<1>3. ASSUME NEW v \in Cookies \union {"keep", "delete"} PROVE [r EXCEPT !.cookie = v] \in Response
  BY DEF Response
<1>4. ASSUME NEW v \in {"in", "out", "untyped", "bad"} PROVE [r EXCEPT !.page = v] \in Response
  BY DEF Response
<1>5. ASSUME NEW v \in SUBSET LandingParts PROVE [r EXCEPT !.landing = v] \in Response
  BY DEF Response
<1>6. ASSUME NEW v \in Links PROVE [r EXCEPT !.link = v] \in Response
  BY DEF Response
<1>7. ASSUME NEW v \in Nat PROVE [r EXCEPT !.passed = v] \in Response
  BY DEF Response
<1> QED BY <1>1, <1>2, <1>3, <1>4, <1>5, <1>6, <1>7

LEMMA ResponseType ==
    /\ Plain \in Response
    /\ StatusOnly \subseteq Response /\ Redirects \subseteq Response
    /\ Pages \subseteq Response /\ LandingPages \subseteq Response
    /\ LinkPages \subseteq Response /\ Downloads \subseteq Response /\ GrabAnswers \subseteq Response
<1>1. Plain \in Response
  BY DEF Plain, Response, Links
<1>2. StatusOnly \subseteq Response
  <2>1. ASSUME NEW s \in {"denied", "failed"}, NEW c \in SetCookies
        PROVE  Failure(s, c) \in Response
    <3>1. [Plain EXCEPT !.status = s] \in Response
      BY <1>1, PutResponse
    <3> QED BY <3>1, PutResponse DEF Failure, SetCookies
  <2> QED BY <2>1 DEF StatusOnly
<1>3. Redirects \subseteq Response
  <2>1. ASSUME NEW u \in Urls \union {NoUrl}, NEW c \in SetCookies
        PROVE  RedirectTo(u, c) \in Response
    <3>1. [Plain EXCEPT !.status = "redirect"] \in Response
      BY <1>1, PutResponse
    <3>2. [Plain EXCEPT !.status = "redirect", !.location = u] \in Response
      BY <3>1, PutResponse
    <3> QED BY <3>2, PutResponse DEF RedirectTo, SetCookies
  <2> QED BY <2>1 DEF Redirects
<1>4. Pages \subseteq Response
  <2>1. ASSUME NEW p \in {"in", "out", "bad"}, NEW c \in SetCookies
        PROVE  Page(p, c) \in Response
    <3>1. [Plain EXCEPT !.page = p] \in Response
      BY <1>1, PutResponse
    <3> QED BY <3>1, PutResponse DEF Page, SetCookies
  <2> QED BY <2>1 DEF Pages
<1>5. LandingPages \subseteq Response
  <2>1. ASSUME NEW l \in Landings, NEW c \in SetCookies
        PROVE  LandingPage(l, c) \in Response
    <3>1. [Plain EXCEPT !.landing = l] \in Response
      BY <1>1, LandingsAssumption, PutResponse
    <3> QED BY <3>1, PutResponse DEF LandingPage, SetCookies
  <2> QED BY <2>1 DEF LandingPages
<1>6. LinkPages \subseteq Response /\ Downloads \subseteq Response
  <2>1. ASSUME NEW p \in {"in", "out", "untyped", "bad"}, NEW l \in Links, NEW n \in 0..1,
               NEW c \in SetCookies
        PROVE  LinkPage(p, l, n, c) \in Response
    <3>1. [Plain EXCEPT !.page = p] \in Response
      BY <1>1, PutResponse
    <3>2. [Plain EXCEPT !.page = p, !.link = l] \in Response
      BY <3>1, PutResponse
    <3>3. n \in Nat
      OBVIOUS
    <3>4. [Plain EXCEPT !.page = p, !.link = l, !.passed = n] \in Response
      BY <3>2, <3>3, PutResponse
    <3> QED BY <3>4, PutResponse DEF LinkPage, SetCookies
  <2> QED BY <2>1 DEF LinkPages, Downloads
<1> QED BY <1>1, <1>2, <1>3, <1>4, <1>5, <1>6 DEF GrabAnswers

\* The response's cookie, if it has one, is also the session's.
LEMMA MergedType ==
    ASSUME NEW r \in Response
    PROVE  /\ \A j \in Jar : Merged(j, r) \in Jar
           /\ \/ r.cookie \in Cookies /\ \A j \in Jar : Merged(j, r) \in {r.cookie, j, NoCookie}
              \/ \A j \in Jar : Merged(j, r) \in {j, NoCookie}
<1>1. CASE r.cookie = "keep"
  BY <1>1 DEF Merged, Jar
<1>2. CASE r.cookie = "delete"
  BY <1>2 DEF Merged, Jar
<1>3. CASE r.cookie \in Cookies /\ r.cookie \notin {"keep", "delete"}
  <2>1. \A j : Merged(j, r) = r.cookie
    BY <1>3 DEF Merged
  <2> QED BY <1>3, <2>1 DEF Jar
<1> QED BY <1>1, <1>2, <1>3 DEF Response

LEMMA TakenFit ==
    ASSUME NEW c, Fit(c), NEW r \in Response
    PROVE  /\ Fit(Taken(c, r))
           /\ Taken(c, r).jar = Merged(c.jar, r)
           /\ Taken(c, r).config = c.config /\ Taken(c, r).sent = c.sent
<1>1. c \in Context /\ c.jar \in Jar /\ Merged(c.jar, r) \in Jar
  BY MergedType DEF Fit, Context
<1>2. Taken(c, r) \in Context
  BY <1>1, PutStep DEF Taken
<1>3. /\ Taken(c, r).jar = Merged(c.jar, r) /\ Taken(c, r).config = c.config
      /\ Taken(c, r).sent = c.sent /\ Taken(c, r).url = c.url
  BY <1>1 DEF Taken, Context
<1> QED BY <1>2, <1>3 DEF Fit, OnSiteOnly

\* What the driver makes of a response whose step is `next`.
Received(b, r, next) ==
    LET jar == Merged(b.session.cookie, r)
    IN  IF jar = b.session.cookie
        THEN Advance([b EXCEPT !.ctx = next])
        ELSE [b EXCEPT !.pc = "saving", !.ctx = next,
                       !.session = [cookie |-> jar, dated |-> jar # NoCookie]]

LEMMA ReceivedSound ==
    ASSUME NEW K, {NoCookie} \union Configured \subseteq K,
           NEW b, Sound(b, K), b.pc = "waiting",
           NEW r \in Response, NEW c, NEW next, c = b.ctx \/ c = Taken(b.ctx, r),
           StepOf(c, next)
    PROVE  Sound(Received(b, r, next), K)
<1> DEFINE jar == Merged(b.session.cookie, r)
<1>1. /\ b \in Operation /\ b.ctx \in Context /\ Fit(b.ctx)
      /\ b.session \in Session /\ b.session.cookie \in Jar /\ b.session.cookie \in K
  BY DEF Sound, Operation, Session, Fit
<1>2. /\ next \in Context /\ OnSiteOnly(next) /\ next.config = c.config
      /\ next.jar \in {c.jar, c.config} /\ next.sent \in {NoCookie, c.sent, c.jar, c.config}
  BY DEF StepOf, Fit
<1>3. /\ c.config \in K /\ c.sent \in K /\ c.jar \in K \union {Merged(b.ctx.jar, r)}
  BY <1>1, TakenFit DEF Sound
<1>4. jar \in Jar /\ NoCookie \in K
  BY <1>1, MergedType
<1>5. Merged(b.ctx.jar, r) \in K \union {jar}
  <2>1. b.ctx.jar \in Jar /\ b.ctx.jar \in K
    BY <1>1 DEF Sound, Context
  <2>2. CASE r.cookie = "keep"
    BY <2>1, <2>2 DEF Merged
  <2>3. CASE r.cookie # "keep"
    BY <2>3 DEF Merged
  <2> QED BY <2>2, <2>3
<1> HIDE DEF jar
<1>6. {next.config, next.jar, next.sent} \subseteq K \union {jar}
  BY <1>2, <1>3, <1>4, <1>5
<1>7. CASE jar = b.session.cookie
  <2> DEFINE m == [b EXCEPT !.ctx = next]
  <2>1. m \in Operation
    BY <1>1, <1>2 DEF Operation
  <2>2. m.ctx = next /\ m.session = b.session /\ m.pc = b.pc
    BY <1>1 DEF Operation
  <2> HIDE DEF m
  <2>3. Sound(m, K) /\ m.session.cookie \in K
    BY <1>1, <1>2, <1>6, <1>7, <2>1, <2>2 DEF Sound
  <2>4. Sound(Advance(m), K)
    BY <1>4, <2>3, AdvanceSound
  <2> QED BY <1>7, <2>4 DEF Received, m, jar
<1>8. CASE jar # b.session.cookie
  <2> DEFINE s == [cookie |-> jar, dated |-> jar # NoCookie]
             m == [b EXCEPT !.pc = "saving", !.ctx = next]
             n == [b EXCEPT !.pc = "saving", !.ctx = next, !.session = s]
  <2>1. s \in Session /\ s.cookie = jar /\ (jar \in Tracker => s.dated)
    BY <1>4, CookiesAssumption DEF Session, Tracker
  <2> HIDE DEF s
  <2>2. m \in Operation
    <3>1. [b EXCEPT !.pc = "saving"] \in Operation
      BY <1>1 DEF Operation, PCs
    <3> QED BY <1>2, <3>1 DEF Operation
  <2>3. n \in Operation
    BY <2>1, <2>2 DEF Operation
  <2>4. n.ctx = next /\ n.session = s /\ n.pc = "saving"
    BY <1>1 DEF Operation
  <2> HIDE DEF n
  <2>5. Sound(n, K)
    BY <1>2, <1>6, <2>1, <2>3, <2>4 DEF Sound
  <2> QED BY <1>8, <2>5 DEF Received, n, s, jar
<1> QED BY <1>7, <1>8

\* A step that leaves one operation sound and nothing else changed keeps the
\* invariant.
LEMMA PutOperation ==
    ASSUME EngineInv, NEW o \in Ops, NEW b, Sound(b, Known),
           op' = [op EXCEPT ![o] = b], UNCHANGED <<definition, stored, persisted>>
    PROVE  EngineInv'
<1>1. op \in [Ops -> Operation] /\ b \in Operation
  BY DEF EngineInv, TypeOK, Sound
<1>2. TypeOK'
  BY <1>1 DEF EngineInv, TypeOK
<1>3. OpsInv'
  <2>1. Known' = Known
    BY DEF Known
  <2>2. \A x \in Ops : op'[x] = IF x = o THEN b ELSE op[x]
    BY <1>1
  <2>3. \A x \in Ops : Sound(op'[x], Known)
    BY <2>2 DEF EngineInv, OpsInv
  <2>4. \A x \in Ops : Sound(op[x], Known)'
    BY <2>1, <2>3 DEF Sound, OnSiteOnly
  <2> QED BY <2>4 DEF OpsInv
<1>4. CellInv' /\ StoredSessionExpires'
  BY DEF EngineInv, CellInv, StoredSessionExpires
<1> QED BY <1>2, <1>3, <1>4 DEF EngineInv

LEMMA ReceiveInv ==
    ASSUME EngineInv, NEW o \in Ops, NEW phase, NEW r \in Response, NEW c, NEW next,
           c = op[o].ctx \/ c = Taken(op[o].ctx, r),
           StepOf(c, next), Receive(o, phase, r, next)
    PROVE  EngineInv'
<1>1. Sound(op[o], Known) /\ op[o].pc = "waiting" /\ op \in [Ops -> Operation]
  BY DEF EngineInv, TypeOK, OpsInv, Receive
<1>2. {NoCookie} \union Configured \subseteq Known
  BY DEF Known
<1>3. Sound(Received(op[o], r, next), Known)
  BY <1>1, <1>2, ReceivedSound
<1>4. op' = [op EXCEPT ![o] = Received(op[o], r, next)]
  BY <1>1 DEF Receive, Received
<1>5. UNCHANGED <<definition, stored, persisted>>
  BY DEF Receive
<1> QED BY <1>3, <1>4, <1>5, PutOperation

LEMMA RespondInv ==
    ASSUME EngineInv, NEW o \in Ops, Respond(o)
    PROVE  EngineInv'
<1>1. definition \in Definitions /\ Fit(op[o].ctx)
  BY DEF EngineInv, TypeOK, OpsInv, Sound, Operation, Fit
<1>2. ASSUME NEW r \in Response PROVE Fit(Taken(op[o].ctx, r))
  BY <1>1, TakenFit
<1>3. CASE OnLoginLanding(o)
  <2>1. PICK r \in Response :
          Receive(o, "LoginLanding", r, LoginLanding(Taken(op[o].ctx, r), r))
    BY <1>3, ResponseType DEF OnLoginLanding
  <2> QED BY <1>1, <1>2, <2>1, LoginArms, ReceiveInv
<1>4. CASE OnSimpleCaptcha(o)
  <2>1. PICK r \in Response :
          Receive(o, "SimpleCaptcha", r, SimpleCaptcha(Taken(op[o].ctx, r), r))
    BY <1>4, ResponseType DEF OnSimpleCaptcha
  <2> QED BY <1>1, <1>2, <2>1, LoginArms, ReceiveInv
<1>5. CASE OnLoginSubmit(o)
  <2>1. PICK r \in Response :
          Receive(o, "LoginSubmit", r, LoginSubmit(Taken(op[o].ctx, r), r))
    BY <1>5, ResponseType DEF OnLoginSubmit
  <2> QED BY <1>1, <1>2, <2>1, LoginArms, ReceiveInv
<1>6. CASE OnCaptchaImage(o)
  <2>1. PICK r \in Response :
          Receive(o, "CaptchaImage", r, CaptchaImage(Taken(op[o].ctx, r), r))
    BY <1>6, ResponseType DEF OnCaptchaImage
  <2> QED BY <1>1, <1>2, <2>1, LoginArms, ReceiveInv
<1>7. CASE OnTestConnection(o)
  <2>1. PICK r \in Response :
          Receive(o, "TestConnection", r, TestConnection(op[o].ctx, r))
    BY <1>7, ResponseType DEF OnTestConnection
  <2> QED BY <1>1, <2>1, LoginArms, ReceiveInv
<1>8. CASE OnSearchResponse(o)
  <2>1. PICK r \in Response :
          Receive(o, "SearchResponse", r, SearchResponse(Taken(op[o].ctx, r), r))
    BY <1>8, ResponseType DEF OnSearchResponse
  <2> QED BY <1>1, <1>2, <2>1, SearchArm, ReceiveInv
<1>9. CASE OnGrabResolveBefore(o)
  <2>1. PICK r \in Response :
          Receive(o, "GrabResolveBefore", r, GrabResolveBefore(Taken(op[o].ctx, r), r))
    BY <1>9, ResponseType DEF OnGrabResolveBefore
  <2> QED BY <1>1, <1>2, <2>1, GrabArms, ReceiveInv
<1>10. CASE OnGrabBeforeResponse(o)
  <2>1. PICK r \in Response :
          Receive(o, "GrabBeforeResponse", r, GrabBeforeResponse(Taken(op[o].ctx, r), r))
    BY <1>10, ResponseType DEF OnGrabBeforeResponse
  <2> QED BY <1>1, <1>2, <2>1, GrabArms, ReceiveInv
<1>11. CASE OnGrabPage(o)
  <2>1. PICK r \in Response : Receive(o, "GrabPage", r, GrabPage(Taken(op[o].ctx, r), r))
    BY <1>11, ResponseType DEF OnGrabPage
  <2> QED BY <1>1, <1>2, <2>1, GrabArms, ReceiveInv
<1>12. CASE OnGrabDownload(o)
  <2>1. PICK r \in Response :
          Receive(o, "GrabDownload", r, GrabDownload(Taken(op[o].ctx, r), r))
    BY <1>12, ResponseType DEF OnGrabDownload
  <2> QED BY <1>1, <1>2, <2>1, GrabArms, ReceiveInv
<1> QED BY <1>3, <1>4, <1>5, <1>6, <1>7, <1>8, <1>9, <1>10, <1>11, <1>12 DEF Respond

LEMMA OpenedFit ==
    ASSUME NEW kind \in Kinds, NEW jar \in Jar, NEW wanted \in SUBSET Nat, NEW answer \in BOOLEAN
    PROVE  /\ Fit(Opened(kind, jar, wanted, answer))
           /\ Opened(kind, jar, wanted, answer).jar = jar
           /\ Opened(kind, jar, wanted, answer).config = jar
           /\ Opened(kind, jar, wanted, answer).sent = NoCookie
<1> DEFINE w == IF kind = "search" THEN wanted ELSE {}
           a == answer /\ kind # "captcha"
           x1 == [NewContext EXCEPT !.kind = kind]
           x2 == [x1 EXCEPT !.jar = jar]
           x3 == [x2 EXCEPT !.config = jar]
           x4 == [x3 EXCEPT !.wanted = w]
           x5 == [x4 EXCEPT !.answer = a]
<1>1. NewContext \in Context /\ NewContext.sent = NoCookie
  BY DEF NewContext, Context, Jar, Ends, Kinds, Phases, LandingParts
<1>2. w \in SUBSET Nat /\ a \in BOOLEAN
  OBVIOUS
<1>3. x1 \in Context /\ x1.sent = NoCookie
  <2>1. x1 \in Context
    BY <1>1, PutStep
  <2> QED BY <1>1, <2>1 DEF Context
<1>4. Opened(kind, jar, wanted, answer) = x5
  BY DEF Opened
<1> HIDE DEF x1
<1>5. x2 \in Context /\ x2.sent = NoCookie /\ x2.jar = jar
  <2>1. x2 \in Context
    BY <1>3, PutStep
  <2> QED BY <1>3, <2>1 DEF Context
<1> HIDE DEF x2
<1>6. x3 \in Context /\ x3.sent = NoCookie /\ x3.jar = jar /\ x3.config = jar
  <2>1. x3 \in Context
    BY <1>5, PutStep
  <2> QED BY <1>5, <2>1 DEF Context
<1> HIDE DEF x3, w, a
<1>7. x4 \in Context /\ x4.sent = NoCookie /\ x4.jar = jar /\ x4.config = jar
  <2>1. x4 \in Context
    BY <1>2, <1>6, PutStep
  <2> QED BY <1>6, <2>1 DEF Context
<1> HIDE DEF x4
<1>8. x5 \in Context /\ x5.sent = NoCookie /\ x5.jar = jar /\ x5.config = jar
  <2>1. x5 \in Context
    BY <1>2, <1>7, PutStep
  <2> QED BY <1>7, <2>1 DEF Context
<1> HIDE DEF x5
<1> QED BY <1>4, <1>8 DEF Fit, OnSiteOnly

LEMMA OpeningSound ==
    ASSUME NEW K, NoCookie \in K, NEW s \in Session, s.cookie \in K,
           s.cookie \in Tracker => s.dated, NEW c, Fit(c), {c.config, c.jar, c.sent} \subseteq K
    PROVE  Sound(Advance(Opening(s, c)), K)
<1> DEFINE m == [IdleOperation EXCEPT !.session = s]
           n == [m EXCEPT !.ctx = c]
<1>1. IdleOperation \in Operation /\ IdleOperation.pc = "idle"
  BY IdleSound DEF Sound, IdleOperation
<1>2. m \in Operation /\ m.session = s /\ m.pc = "idle"
  BY <1>1 DEF Operation
<1>3. Opening(s, c) = n
  BY DEF Opening
<1> HIDE DEF m
<1>4. n \in Operation /\ n.session = s /\ n.pc = "idle" /\ n.ctx = c
  BY <1>2 DEF Operation, Fit
<1> HIDE DEF n
<1>5. Sound(n, K)
  BY <1>4 DEF Sound, Fit
<1> QED BY <1>3, <1>4, <1>5, AdvanceSound

\* An operation takes up a known cookie: the setting, or the stored one,
\* which expires if it is the tracker's.
LEMMA StartInv ==
    ASSUME EngineInv, NEW o \in Ops, Start(o)
    PROVE  EngineInv'
<1>1. PICK kind \in definition.kinds, setting \in definition.settings,
           answer \in definition.answers, wanted \in definition.wanted,
           supported, expired \in BOOLEAN :
        /\ kind = "captcha" => definition.captcha = "image"
        /\ op' = [op EXCEPT ![o] = Begun(kind, setting, answer, wanted, supported, expired)]
  BY Zenon DEF Start
<1> DEFINE live == Loaded(expired)
           jar == IF setting = NoCookie THEN live.cookie ELSE setting
           s == [live EXCEPT !.cookie = jar]
           c == Opened(kind, jar, wanted, answer)
           n == IF kind = "search" /\ ~supported THEN [c EXCEPT !.wanted = {}]
                ELSE Login(c, Plain)
<1>2. definition \in Definitions
  BY DEF EngineInv, TypeOK
<1>3. live \in Session /\ live.cookie \in Known /\ (live.cookie \in Tracker => live.dated)
  <2>1. EmptySession \in Session /\ EmptySession.cookie = NoCookie
    BY DEF EmptySession, Session, Jar
  <2>2. NoCookie \in Known /\ NoCookie \notin Tracker
    BY CookiesAssumption DEF Known, Tracker
  <2>3. stored # NoSession =>
          /\ stored \in Session /\ stored.cookie \in Known
          /\ stored.cookie \in Tracker => stored.dated
    BY DEF EngineInv, TypeOK, CellInv, StoredSessionExpires, Tracker, Known
  <2> QED BY <2>1, <2>2, <2>3 DEF Loaded
<1> HIDE DEF live
<1>4. jar \in Known /\ jar \in Jar /\ (jar \in Tracker => jar = live.cookie)
  <2>1. setting \in Configured \union {NoCookie}
    BY <1>2, DefinitionType
  <2> QED BY <1>3, <2>1 DEF Known, Jar, Session, Tracker
<1> HIDE DEF jar
<1>5. s \in Session /\ s.cookie = jar /\ (jar \in Tracker => s.dated)
  BY <1>3, <1>4 DEF Session
<1> HIDE DEF s
<1>6. Fit(c) /\ c.jar = jar /\ c.config = jar /\ c.sent = NoCookie
  <2>1. kind \in Kinds /\ wanted \in SUBSET Nat /\ answer \in BOOLEAN
    BY <1>2, DefinitionType
  <2> QED BY <1>4, <2>1, OpenedFit
<1> HIDE DEF c
<1>7. StepOf(c, n)
  <2>1. StepOf(c, Login(c, Plain))
    BY <1>2, <1>6, LoginStep, ResponseType
  <2>2. StepOf(c, [c EXCEPT !.wanted = {}])
    BY <1>6 DEF StepOf, Fit, OnSiteOnly, Context
  <2> QED BY <2>1, <2>2
<1> HIDE DEF n
<1>8. NoCookie \in Known
  BY DEF Known
<1>9. Fit(n) /\ {n.config, n.jar, n.sent} \subseteq Known
  BY <1>4, <1>6, <1>7, <1>8 DEF StepOf
<1>10. Sound(Advance(Opening(s, n)), Known)
  BY <1>4, <1>5, <1>8, <1>9, OpeningSound
<1>11. op' = [op EXCEPT ![o] = Advance(Opening(s, n))]
  BY <1>1 DEF Begun, n, c, s, jar, live
<1>12. UNCHANGED <<definition, stored, persisted>>
  BY DEF Start
<1> QED BY <1>10, <1>11, <1>12, PutOperation

LEMMA ReadInv ==
    ASSUME EngineInv, NEW o \in Ops, ReadCell(o)
    PROVE  EngineInv'
<1> DEFINE m == [op[o] EXCEPT !.pc = "swapping"]
           n == [m EXCEPT !.expected = stored]
<1>1. /\ op \in [Ops -> Operation] /\ op[o] \in Operation /\ Sound(op[o], Known)
      /\ stored \in Session \union {NoSession}
  BY DEF EngineInv, TypeOK, OpsInv
<1>2. m \in Operation /\ m.ctx = op[o].ctx /\ m.session = op[o].session /\ m.pc = "swapping"
  BY <1>1 DEF Operation, PCs
<1>3. op' = [op EXCEPT ![o] = n]
  BY <1>1 DEF ReadCell
<1> HIDE DEF m
<1>4. n \in Operation /\ n.ctx = op[o].ctx /\ n.session = op[o].session /\ n.pc = "swapping"
  BY <1>1, <1>2 DEF Operation
<1> HIDE DEF n
<1>5. Sound(n, Known)
  BY <1>1, <1>4 DEF Sound
<1>6. UNCHANGED <<definition, stored, persisted>>
  BY DEF ReadCell
<1> QED BY <1>3, <1>5, <1>6, PutOperation

LEMMA LoseInv ==
    ASSUME EngineInv, NEW o \in Ops, LoseCell(o)
    PROVE  EngineInv'
<1> DEFINE m == [op[o] EXCEPT !.pc = "saving"]
           k == [m EXCEPT !.expected = NoSession]
           n == [k EXCEPT !.attempts = op[o].attempts + 1]
           b == IF op[o].attempts + 1 >= MaxAttempts THEN IdleOperation ELSE n
<1>1. op \in [Ops -> Operation] /\ op[o] \in Operation /\ Sound(op[o], Known)
  BY DEF EngineInv, TypeOK, OpsInv
<1>2. m \in Operation /\ m.ctx = op[o].ctx /\ m.session = op[o].session /\ m.pc = "saving"
  BY <1>1 DEF Operation, PCs
<1>3. op' = [op EXCEPT ![o] = b]
  BY <1>1 DEF LoseCell
<1> HIDE DEF m
<1>4. k \in Operation /\ k.ctx = op[o].ctx /\ k.session = op[o].session /\ k.pc = "saving"
  BY <1>2 DEF Operation
<1> HIDE DEF k
<1>5. n \in Operation /\ n.ctx = op[o].ctx /\ n.session = op[o].session /\ n.pc = "saving"
  BY <1>1, <1>4 DEF Operation
<1> HIDE DEF n
<1>6. Sound(n, Known) /\ Sound(IdleOperation, Known)
  BY <1>1, <1>5, IdleSound DEF Sound, Known
<1>7. UNCHANGED <<definition, stored, persisted>>
  BY DEF LoseCell
<1> QED BY <1>3, <1>6, <1>7, PutOperation

LEMMA AbortInv ==
    ASSUME EngineInv, NEW o \in Ops, Abort(o)
    PROVE  EngineInv'
<1>1. Sound(IdleOperation, Known)
  BY IdleSound DEF Known
<1>2. op' = [op EXCEPT ![o] = IdleOperation] /\ UNCHANGED <<definition, stored, persisted>>
  BY DEF Abort
<1> QED BY <1>1, <1>2, PutOperation

\* The swap makes the session's cookie known, for this operation and for those
\* that will find it in the cell.
LEMMA SwapInv ==
    ASSUME EngineInv, NEW o \in Ops, SwapCell(o)
    PROVE  EngineInv'
<1> DEFINE K == Known \union {op[o].session.cookie}
           m == [op[o] EXCEPT !.expected = NoSession]
           n == [m EXCEPT !.attempts = 0]
           b == IF op[o].final THEN IdleOperation ELSE Advance(n)
<1>1. /\ op \in [Ops -> Operation] /\ op[o] \in Operation /\ Sound(op[o], Known)
      /\ op[o].session \in Session /\ op[o].session.cookie \in Jar
  BY DEF EngineInv, TypeOK, OpsInv, Operation, Session
<1>2. m \in Operation /\ m.ctx = op[o].ctx /\ m.session = op[o].session /\ m.pc = op[o].pc
  BY <1>1 DEF Operation
<1>3. op' = [op EXCEPT ![o] = b]
  BY <1>1 DEF SwapCell
<1> HIDE DEF m
<1>4. n \in Operation /\ n.ctx = op[o].ctx /\ n.session = op[o].session /\ n.pc = op[o].pc
  BY <1>2 DEF Operation
<1> HIDE DEF n
<1>5. /\ stored' = op[o].session /\ persisted' = persisted \union {op[o].session.cookie}
      /\ definition' = definition /\ Known' = K
  BY DEF SwapCell, Known
<1>6. NoCookie \in K /\ Known \subseteq K /\ op[o].session.cookie \in K
  BY DEF Known
<1> HIDE DEF K
<1>7. Sound(n, K)
  BY <1>1, <1>4, <1>6 DEF Sound
<1>8. Sound(b, K)
  BY <1>4, <1>6, <1>7, AdvanceSound, IdleSound
<1> HIDE DEF b
<1>9. TypeOK'
  <2>1. b \in Operation
    BY <1>8 DEF Sound
  <2> QED BY <1>1, <1>3, <1>5, <2>1 DEF EngineInv, TypeOK
<1>10. CellInv' /\ StoredSessionExpires'
  BY <1>1, <1>5 DEF CellInv, StoredSessionExpires, Sound, Tracker
<1>11. OpsInv'
  <2>1. \A x \in Ops : op'[x] = IF x = o THEN b ELSE op[x]
    BY <1>1, <1>3
  <2>2. \A x \in Ops : Sound(op[x], K)
    BY <1>6, SoundGrows DEF EngineInv, OpsInv
  <2>3. \A x \in Ops : Sound(op'[x], K)
    BY <1>8, <2>1, <2>2
  <2>4. \A x \in Ops : Sound(op[x], Known)'
    BY <1>5, <2>3 DEF Sound, OnSiteOnly
  <2> QED BY <2>4 DEF OpsInv
<1> QED BY <1>9, <1>10, <1>11 DEF EngineInv

LEMMA InitInv == Init => EngineInv
<1> SUFFICES ASSUME Init PROVE EngineInv
  OBVIOUS
<1>1. Sound(IdleOperation, Known) /\ op = [o \in Ops |-> IdleOperation]
  BY IdleSound DEF Init, Known
<1>2. OpsInv
  BY <1>1 DEF OpsInv
<1>3. TypeOK
  BY <1>1 DEF Init, TypeOK, Sound
<1>4. CellInv /\ StoredSessionExpires
  BY DEF Init, CellInv, StoredSessionExpires
<1> QED BY <1>2, <1>3, <1>4 DEF EngineInv

LEMMA StepInv == EngineInv /\ [Next]_vars => EngineInv'
<1> SUFFICES ASSUME EngineInv, [Next]_vars PROVE EngineInv'
  OBVIOUS
<1>1. CASE UNCHANGED vars
  BY <1>1 DEF vars, EngineInv, TypeOK, CellInv, StoredSessionExpires, OpsInv, Sound,
              OnSiteOnly, Known
<1>2. CASE Next
  <2>1. PICK o \in Ops :
          Start(o) \/ Respond(o) \/ ReadCell(o) \/ SwapCell(o) \/ LoseCell(o) \/ Abort(o)
    BY <1>2 DEF Next
  <2> QED BY <2>1, StartInv, RespondInv, ReadInv, SwapInv, LoseInv, AbortInv
<1> QED BY <1>1, <1>2

THEOREM Invariant == Spec => []EngineInv
BY InitInv, StepInv, PTL DEF Spec

-----------------------------------------------------------------------------
(* The properties.                                                         *)

\* Every operation, the session cell and the history keep their types,
\* whatever the tracker answers and however the operations interleave.
THEOREM TypeCorrect == Spec => []TypeOK
<1>1. EngineInv => TypeOK
  BY DEF EngineInv
<1> QED BY <1>1, Invariant, PTL

\* No request carries a cookie off the configured site, however the redirects
\* that led there crossed sites.
THEOREM CookiesStayOnSite == Spec => []CookieStaysOnSite
<1>1. EngineInv => CookieStaysOnSite
  BY DEF EngineInv, OpsInv, Sound, OnSiteOnly, CookieStaysOnSite
<1> QED BY <1>1, Invariant, PTL

\* The cookie of a request in flight is a setting or has been persisted, so a
\* session is never in use while only its operation knows it.
THEOREM SentWasPersisted == Spec => []PersistedBeforeSent
<1>1. EngineInv => PersistedBeforeSent
  BY DEF EngineInv, OpsInv, Sound, Known, PersistedBeforeSent
<1> QED BY <1>1, Invariant, PTL

\* A stored session that holds a cookie of the tracker expires, whichever
\* operation stored it and whatever settings others run with.
THEOREM StoredExpires == Spec => []StoredSessionExpires
<1>1. EngineInv => StoredSessionExpires
  BY DEF EngineInv
<1> QED BY <1>1, Invariant, PTL

-----------------------------------------------------------------------------
(* How far an operation has come.  Redirects aside, each step asks for one *)
(* request less than may still be asked for, and a search that follows no  *)
(* redirects has an answer to all it passed over.                          *)

\* The requests that an operation may still make, redirects aside: its own
\* after the login, those of a second login with what it repeats, and all of
\* them when it asks for the one that leads to the phase `to`.
Own(c) ==
    CASE c.kind = "search" -> IF c.path <= Len(definition.paths)
                              THEN Len(definition.paths) + 1 - c.path ELSE 0
      [] c.kind = "grab"   -> 4 + definition.selectors
      [] OTHER             -> 1
Again(c) ==
    CASE c.relogin = 0 /\ c.kind = "search" -> LoginRequests + 1
      [] c.relogin = 0 /\ c.kind = "grab"   -> LoginRequests + 4 + definition.selectors
      [] OTHER                              -> 0
After(c) == Own(c) + Again(c)
Rank(to, c) ==
    CASE to = "LoginLanding"       -> 3 + After(c)
      [] to = "SimpleCaptcha"      -> 2 + After(c)
      [] to = "LoginSubmit"        -> 1 + After(c)
      [] to = "GrabBeforeResponse" -> After(c) - 1
      [] to = "GrabPage"           -> After(c) - 2
      [] to = "GrabDownload"       -> 1 + definition.selectors - c.index + Again(c)
      [] to \in {"SearchResponse", "GrabResolveBefore"} -> After(c)
      [] OTHER                     -> 1
Left(c) == Rank(c.to, c)

\* Where no search follows redirects, the paths a search has passed over were
\* answered, and so was every address it has asked for, but for the one it is
\* asking for now.
Unfollowed == ~definition.follow /\ definition.followed = {}
IsAnswered(c, u) == \E q \in c.answered : PathUrl(q) = u
Passed(c) ==
    \A p \in c.wanted \cap (1..Len(definition.paths)) : p < c.path => IsAnswered(c, PathUrl(p))
Caught(c) == Unfollowed => Passed(c) /\ \A u \in c.seen : IsAnswered(c, u)
Asking(c) ==
    Unfollowed => /\ Passed(c) /\ c.url = PathUrl(c.path)
                  /\ \A u \in c.seen : IsAnswered(c, u) \/ u = c.url

GrabPhases == {"GrabResolveBefore", "GrabBeforeResponse", "GrabPage", "GrabDownload"}

Formed(c) ==
    /\ c \in Context
    /\ c.hops <= MaxHops /\ c.index <= definition.selectors
    /\ c.kind # "search" => c.wanted = {}
Ready(c) == Formed(c) /\ Caught(c)

\* A step in hand.
Fits(c) ==
    /\ Formed(c)
    /\ c.to \in Phases \ {"SearchResponse"} => Caught(c)
    /\ c.to = "SearchResponse" =>
         c.kind = "search" /\ c.path <= Len(definition.paths) /\ Asking(c)
    /\ c.to \in GrabPhases => c.kind = "grab"
    /\ c.to = "TestConnection" => c.kind \in {"test", "captcha"}
    /\ c.to = "complete" /\ Unfollowed => SearchAnswered(c)

\* The step n is an end, or asks for a request that leaves k at most.
Leads(c, n, k) ==
    /\ Fits(n) /\ n.kind = c.kind
    /\ n.to \in Phases => n.hops = 0 /\ 1 <= Left(n) /\ Left(n) <= k

\* What the counts depend on.
Same(c, n) ==
    /\ n.kind = c.kind /\ n.relogin = c.relogin /\ n.wanted = c.wanted
    /\ n.path = c.path /\ n.answered = c.answered /\ n.index = c.index

LEMMA Counts ==
    ASSUME definition \in Definitions, NEW c \in Context
    PROVE  /\ definition.selectors \in Nat /\ Len(definition.paths) \in Nat
           /\ LoginRequests \in 0..3
           /\ c.index \in Nat /\ c.path \in Nat \ {0} /\ c.hops \in Nat /\ c.kind \in Kinds
           /\ Own(c) \in Nat /\ Again(c) \in Nat /\ After(c) \in Nat
           /\ After(c) = Own(c) + Again(c)
<1>1. /\ definition.selectors \in Nat /\ Len(definition.paths) \in Nat
      /\ LoginRequests \in 0..3
      /\ c.index \in Nat /\ c.path \in Nat \ {0} /\ c.hops \in Nat /\ c.kind \in Kinds
  BY DefinitionType DEF Context, LoginRequests
<1>2. Own(c) \in Nat
  BY <1>1 DEF Own
<1>3. Again(c) \in Nat
  BY <1>1 DEF Again
<1> QED BY <1>1, <1>2, <1>3 DEF After

LEMMA SameCounts ==
    ASSUME NEW c, NEW n, Same(c, n)
    PROVE  /\ Own(n) = Own(c) /\ Again(n) = Again(c) /\ After(n) = After(c)
           /\ \A to : Rank(to, n) = Rank(to, c)
           /\ Passed(n) <=> Passed(c)
           /\ \A u : IsAnswered(n, u) <=> IsAnswered(c, u)
           /\ SearchAnswered(n) <=> SearchAnswered(c)
<1>1. Own(n) = Own(c) /\ Again(n) = Again(c)
  BY DEF Same, Own, Again
<1>2. After(n) = After(c)
  BY <1>1 DEF After
<1>3. \A to : Rank(to, n) = Rank(to, c)
  BY <1>1, <1>2 DEF Same, Rank
<1>4. \A u : IsAnswered(n, u) <=> IsAnswered(c, u)
  BY DEF Same, IsAnswered
<1>5. Passed(n) <=> Passed(c)
  BY <1>4 DEF Same, Passed
<1>6. SearchAnswered(n) <=> SearchAnswered(c)
  BY DEF Same, SearchAnswered
<1> QED BY <1>1, <1>2, <1>3, <1>4, <1>5, <1>6

LEMMA AskFields ==
    ASSUME NEW c, Fit(c), NEW phase \in Phases, NEW u \in Urls
    PROVE  LET n == Ask(c, phase, u)
           IN  /\ n \in Context /\ Same(c, n)
               /\ n.seen = c.seen /\ n.to = phase /\ n.url = u /\ n.hops = 0
<1> DEFINE sent == IF OnSite(u) THEN c.jar ELSE NoCookie
           n == [c EXCEPT !.to = phase, !.url = u, !.hops = 0, !.sent = sent]
<1>1. Ask(c, phase, u) = n
  BY DEF Ask
<1>2. Ask(c, phase, u) \in Context /\ c \in Context
  BY AskStep DEF StepOf, Fit
<1> HIDE DEF sent
<1>3. Same(c, n) /\ n.seen = c.seen /\ n.to = phase /\ n.url = u /\ n.hops = 0
  BY <1>2 DEF Same, Context
<1> QED BY <1>1, <1>2, <1>3

LEMMA EndFields ==
    ASSUME NEW c, Fit(c), NEW how \in Ends
    PROVE  LET n == End(c, how)
           IN  n \in Context /\ Same(c, n) /\ n.hops = c.hops /\ n.to = how
BY EndStep DEF StepOf, Fit, Context, Same, End

LEMMA EndLeads ==
    ASSUME NEW c, Fit(c), Formed(c), NEW how \in Ends, NEW k,
           how = "complete" /\ Unfollowed => SearchAnswered(c)
    PROVE  Leads(c, End(c, how), k)
<1> DEFINE n == End(c, how)
<1>1. n \in Context /\ Same(c, n) /\ n.hops = c.hops /\ n.to = how
  BY EndFields
<1> HIDE DEF n
<1>2. how \notin Phases /\ "complete" \notin Phases /\ how # "SearchResponse" /\ how \notin GrabPhases
      /\ how # "TestConnection"
  BY DEF Ends, Phases, GrabPhases
<1>3. SearchAnswered(n) <=> SearchAnswered(c)
  BY <1>1, SameCounts
<1>4. Fits(n)
  BY <1>1, <1>2, <1>3 DEF Fits, Formed, Same
<1>5. Leads(c, n, k)
  BY <1>1, <1>2, <1>4 DEF Leads, Same
<1> QED BY <1>5 DEF n

LEMMA AskLeads ==
    ASSUME NEW c, Fit(c), Ready(c), NEW phase \in Phases \ {"SearchResponse"}, NEW u \in Urls, NEW k,
           phase \in GrabPhases => c.kind = "grab",
           phase = "TestConnection" => c.kind \in {"test", "captcha"},
           1 <= Rank(phase, c), Rank(phase, c) <= k
    PROVE  Leads(c, Ask(c, phase, u), k)
<1> DEFINE n == Ask(c, phase, u)
<1>1. /\ n \in Context /\ Same(c, n)
      /\ n.seen = c.seen /\ n.to = phase /\ n.url = u /\ n.hops = 0
  BY AskFields
<1> HIDE DEF n
<1>2. phase # "complete" /\ phase # "SearchResponse" /\ phase \in Phases
  BY DEF Phases
<1>3. Caught(n)
  BY <1>1, SameCounts DEF Caught, Ready
<1>4. Rank(phase, n) = Rank(phase, c)
  BY <1>1, SameCounts
<1>5. Formed(n)
  BY <1>1, LimitsAssumption DEF Ready, Formed, Same
<1>6. Fits(n)
  BY <1>1, <1>2, <1>3, <1>5 DEF Fits, Same
<1>7. Leads(c, n, k)
  BY <1>1, <1>4, <1>6 DEF Leads, Left, Same
<1> QED BY <1>7 DEF n

\* What is passed over by a search was answered, or asked for and answered
\* under another path.
LEMMA NextSearchLeads ==
    ASSUME definition \in Definitions, NEW c, Fit(c), Ready(c), c.kind = "search"
    PROVE  Leads(c, NextSearch(c), After(c))
<1> DEFINE N == Len(definition.paths)
<1>0. /\ c \in Context /\ N \in Nat /\ c.path \in Nat \ {0} /\ After(c) = Own(c) + Again(c)
      /\ Own(c) \in Nat /\ Again(c) \in Nat /\ c.wanted \subseteq Nat /\ Formed(c)
  BY Counts DEF Fit, Context, Ready
<1>1. ASSUME NEW x \in c.wanted \cap (1..N), x \notin Unasked(c), Unfollowed
      PROVE  IsAnswered(c, PathUrl(x))
  <2>1. CASE x < c.path
    BY <1>1, <2>1 DEF Ready, Caught, Passed
  <2>2. CASE ~(x < c.path)
    <3>1. x \in c.path..N
      BY <1>0, <1>1, <2>2
    <3>2. PathUrl(x) \in c.seen
      BY <1>1, <3>1 DEF Unasked
    <3> QED BY <1>1, <3>2 DEF Ready, Caught
  <2> QED BY <2>1, <2>2
<1>2. CASE Unasked(c) = {}
  <2>1. Unfollowed => SearchAnswered(c)
    BY <1>1, <1>2 DEF SearchAnswered, IsAnswered
  <2>2. Leads(c, End(c, "complete"), After(c))
    BY <1>0, <2>1, EndLeads DEF Ends
  <2> QED BY <1>2, <2>2 DEF NextSearch
<1>3. CASE Unasked(c) # {}
  <2> DEFINE p == CHOOSE q \in Unasked(c) : \A x \in Unasked(c) : q <= x
             m == [c EXCEPT !.path = p]
             seen == IF Gets(p) THEN m.seen \union {PathUrl(p)} ELSE m.seen
             n == [m EXCEPT !.seen = seen]
             a == Ask(n, "SearchResponse", PathUrl(p))
  <2>1. Unasked(c) \in SUBSET Nat
    BY DefinitionType DEF Unasked, Fit, Context
  <2>2. p \in Unasked(c) /\ \A x \in Unasked(c) : p <= x
    BY <1>3, <2>1, Least
  <2>3. NextSearch(c) = a
    BY <1>3 DEF NextSearch
  <2> HIDE DEF p
  <2>4. p \in Nat \ {0} /\ p \in 1..N /\ p \in c.path..N
    BY <1>0, <2>2 DEF Unasked
  <2>5. PathUrl(p) \in Urls
    BY <2>4, DefinitionType DEF PathUrl
  <2>6. Fit(m) /\ m \in Context
    BY <2>4, TouchStep DEF StepOf, Fit
  <2>7. /\ m.kind = c.kind /\ m.relogin = c.relogin /\ m.wanted = c.wanted /\ m.path = p
        /\ m.answered = c.answered /\ m.index = c.index /\ m.seen = c.seen /\ m.hops = c.hops
    BY <1>0 DEF Context
  <2> HIDE DEF m
  <2>8. seen \in SUBSET Urls
    BY <2>5, <2>6 DEF Context
  <2>9. \A u \in seen : u \in c.seen \/ u = PathUrl(p)
    BY <2>7
  <2> HIDE DEF seen
  <2>10. Fit(n) /\ n \in Context /\ Same(m, n) /\ n.seen = seen /\ n.hops = c.hops
    <3>1. Fit(n) /\ n \in Context
      BY <2>6, <2>8, TouchStep DEF StepOf, Fit
    <3> QED BY <2>6, <2>7, <3>1 DEF Same, Context
  <2> HIDE DEF n
  <2>11. /\ a \in Context /\ Same(n, a) /\ a.seen = seen
         /\ a.to = "SearchResponse" /\ a.url = PathUrl(p) /\ a.hops = 0
    BY <2>5, <2>10, AskFields DEF Phases
  <2> HIDE DEF a
  <2>12. /\ a.kind = "search" /\ a.relogin = c.relogin /\ a.wanted = c.wanted /\ a.path = p
         /\ a.answered = c.answered /\ a.index = c.index
    BY <2>7, <2>10, <2>11 DEF Same
  <2>13. \A u : IsAnswered(a, u) <=> IsAnswered(c, u)
    BY <2>12 DEF IsAnswered
  <2>14. Asking(a)
    <3>1. ASSUME NEW x \in c.wanted \cap (1..N), x < p, Unfollowed
          PROVE  IsAnswered(c, PathUrl(x))
      <4>1. x \notin Unasked(c)
        BY <1>0, <2>1, <2>2, <2>4, <3>1
      <4> QED BY <1>1, <3>1, <4>1
    <3>2. Unfollowed => Passed(a)
      BY <2>12, <2>13, <3>1 DEF Passed
    <3>3. Unfollowed => \A u \in a.seen : IsAnswered(a, u) \/ u = a.url
      BY <2>9, <2>11, <2>13 DEF Ready, Caught
    <3> QED BY <2>11, <2>12, <3>2, <3>3 DEF Asking
  <2>15. 1 <= Left(a) /\ Left(a) <= After(c)
    <3>1. Own(a) = N + 1 - p /\ Own(c) = N + 1 - c.path /\ Again(a) = Again(c)
      BY <1>0, <2>4, <2>12 DEF Own, Again
    <3>2. Left(a) = Own(a) + Again(a)
      BY <2>11 DEF Left, Rank, After
    <3> QED BY <1>0, <2>4, <3>1, <3>2
  <2>16. Fits(a)
    <3>1. Formed(a)
      BY <1>0, <2>11, <2>12, LimitsAssumption DEF Formed
    <3>2. "SearchResponse" \notin GrabPhases /\ "SearchResponse" # "complete"
      BY DEF GrabPhases
    <3> QED BY <2>4, <2>11, <2>12, <2>14, <3>1, <3>2 DEF Fits
  <2>17. Leads(c, a, After(c))
    BY <2>11, <2>12, <2>15, <2>16 DEF Leads
  <2> QED BY <2>3, <2>17
<1> QED BY <1>2, <1>3

LEMMA RankType ==
    ASSUME definition \in Definitions, NEW c \in Context, NEW to
    PROVE  Rank(to, c) \in Int
<1>1. /\ After(c) \in Nat /\ Again(c) \in Nat /\ definition.selectors \in Nat /\ c.index \in Nat
  BY Counts
<1> QED BY <1>1 DEF Rank

\* A larger bound is a bound.
LEMMA LeadsMore ==
    ASSUME definition \in Definitions, NEW c, NEW m, NEW n, NEW k \in Int, NEW l \in Int, k <= l,
           m.kind = c.kind, Leads(m, n, k)
    PROVE  Leads(c, n, l)
<1>1. Left(n) \in Int
  BY RankType DEF Leads, Fits, Formed, Left
<1> QED BY <1>1 DEF Leads

LEMMA CompleteGrabLeads ==
    ASSUME definition \in Definitions, NEW c, Fit(c), Ready(c), c.kind = "grab",
           NEW link \in Urls \union {"magnet", "unusable"}
    PROVE  Leads(c, CompleteGrab(c, link), 1 + definition.selectors - c.index + Again(c))
<1> DEFINE k == 1 + definition.selectors - c.index + Again(c)
<1>1. Unfollowed => SearchAnswered(c)
  BY DEF Ready, Formed, SearchAnswered
<1>2. Leads(c, End(c, "complete"), k) /\ Leads(c, End(c, "rejected"), k)
  BY <1>1, EndLeads DEF Ends, Ready
<1>3. Rank("GrabDownload", c) = k /\ 1 <= k /\ k <= k
  <2>1. c.index <= definition.selectors
    BY DEF Ready, Formed
  <2>2. k \in Nat \ {0}
    BY <2>1, Counts DEF Fit
  <2> QED BY <2>2 DEF Rank
<1>4. ASSUME link \in Urls PROVE Leads(c, Ask(c, "GrabDownload", link), k)
  <2> HIDE DEF k
  <2> QED BY <1>3, <1>4, AskLeads DEF Phases
<1> HIDE DEF k
<1>5. Leads(c, CompleteGrab(c, link), k)
  BY <1>2, <1>4 DEF CompleteGrab
<1> QED BY <1>5 DEF k

LEMMA NextSelectorLeads ==
    ASSUME definition \in Definitions, NEW c, Fit(c), Ready(c), c.kind = "grab", NEW r \in Response
    PROVE  Leads(c, NextSelector(c, r), definition.selectors - c.index + Again(c))
<1> DEFINE k == definition.selectors - c.index + Again(c)
           m == [c EXCEPT !.index = @ + r.passed + 1]
<1>1. /\ c \in Context /\ c.index \in Nat /\ r.passed \in Nat /\ r.link \in Links
      /\ definition.selectors \in Nat /\ Again(c) \in Nat
  BY Counts DEF Fit, Response
<1>2. Leads(c, End(c, "rejected"), k)
  BY EndLeads DEF Ends, Ready
<1>3. ASSUME c.index + r.passed < definition.selectors, r.link # "none"
      PROVE  Leads(c, CompleteGrab(m, r.link), k)
  <2>0. c.index + r.passed + 1 \in Nat
    BY <1>1
  <2>1. Fit(m)
    BY <2>0, TouchStep DEF StepOf
  <2>2. /\ m.kind = c.kind /\ m.relogin = c.relogin /\ m.wanted = c.wanted /\ m.path = c.path
        /\ m.answered = c.answered /\ m.index = c.index + r.passed + 1 /\ m.seen = c.seen
        /\ m.hops = c.hops
    BY <1>1 DEF Context
  <2> HIDE DEF m
  <2>3. Again(m) = Again(c)
    BY <2>2 DEF Again
  <2>4. Ready(m)
    <3>1. m \in Context /\ m.index <= definition.selectors
      BY <1>1, <1>3, <2>1, <2>2 DEF Fit
    <3>2. Caught(m)
      BY <2>2 DEF Ready, Caught, Passed, IsAnswered
    <3> QED BY <2>2, <3>1, <3>2 DEF Ready, Formed
  <2>5. Leads(m, CompleteGrab(m, r.link), 1 + definition.selectors - m.index + Again(m))
    BY <1>1, <1>3, <2>1, <2>2, <2>4, CompleteGrabLeads DEF Links
  <2>6. /\ 1 + definition.selectors - m.index + Again(m) <= k
        /\ 1 + definition.selectors - m.index + Again(m) \in Int /\ k \in Int
    BY <1>1, <2>2, <2>3
  <2> HIDE DEF k
  <2> QED BY <2>2, <2>5, <2>6, LeadsMore
<1>4. c.index + r.passed >= definition.selectors \/ c.index + r.passed < definition.selectors
  BY <1>1
<1> HIDE DEF k
<1>5. Leads(c, NextSelector(c, r), k)
  BY <1>2, <1>3, <1>4 DEF NextSelector
<1> QED BY <1>5 DEF k

LEMMA FinishGrabLeads ==
    ASSUME definition \in Definitions, NEW c, Fit(c), Ready(c), c.kind = "grab", NEW r \in Response
    PROVE  Leads(c, FinishGrab(c, r), definition.selectors + Again(c))
<1> DEFINE k == definition.selectors + Again(c)
           m == [c EXCEPT !.index = 0]
<1>1. /\ c \in Context /\ definition.selectors \in Nat /\ Again(c) \in Nat
  BY Counts DEF Fit
<1>2. Fit(m)
  BY TouchStep DEF StepOf
<1>3. /\ m.kind = c.kind /\ m.relogin = c.relogin /\ m.wanted = c.wanted /\ m.path = c.path
      /\ m.answered = c.answered /\ m.index = 0 /\ m.seen = c.seen /\ m.hops = c.hops
  BY <1>1 DEF Context
<1> HIDE DEF m
<1>4. Again(m) = Again(c)
  BY <1>3 DEF Again
<1>5. Ready(m)
  <2>1. m \in Context /\ m.index <= definition.selectors
    BY <1>1, <1>2, <1>3 DEF Fit
  <2>2. Caught(m)
    BY <1>3 DEF Ready, Caught, Passed, IsAnswered
  <2> QED BY <1>3, <2>1, <2>2 DEF Ready, Formed
<1>6. Leads(m, NextSelector(m, r), definition.selectors - m.index + Again(m))
  BY <1>2, <1>3, <1>5, NextSelectorLeads
<1>7. definition.selectors - m.index + Again(m) = k
  BY <1>1, <1>3, <1>4
<1>8. Leads(c, NextSelector(m, r), k)
  BY <1>3, <1>6, <1>7 DEF Leads
<1>9. Leads(c, End(c, "complete"), k) /\ Leads(c, End(c, "error"), k)
  <2>1. Unfollowed => SearchAnswered(c)
    BY DEF Ready, Formed, SearchAnswered
  <2> QED BY <2>1, EndLeads DEF Ends, Ready
<1> HIDE DEF k
<1>10. Leads(c, FinishGrab(c, r), k)
  BY <1>8, <1>9 DEF FinishGrab, m
<1> QED BY <1>10 DEF k

LEMMA AfterBeforeLeads ==
    ASSUME definition \in Definitions, NEW c, Fit(c), Ready(c), c.kind = "grab", NEW r \in Response
    PROVE  Leads(c, AfterBefore(c, r), definition.selectors + 2 + Again(c))
<1> DEFINE k == definition.selectors + 2 + Again(c)
<1>1. /\ c \in Context /\ definition.selectors \in Nat /\ Again(c) \in Nat /\ c.index \in Nat
      /\ After(c) = 4 + definition.selectors + Again(c) /\ k \in Int
  BY Counts DEF Fit, Own
<1>2. Leads(c, FinishGrab(c, r), k)
  BY <1>1, FinishGrabLeads, LeadsMore
<1>3. Leads(c, CompleteGrab(c, definition.grabUrl), k)
  <2> DEFINE n == CompleteGrab(c, definition.grabUrl)
             l == 1 + definition.selectors - c.index + Again(c)
  <2>1. definition.grabUrl \in Urls
    BY DefinitionType
  <2>2. Leads(c, n, l)
    BY <2>1, CompleteGrabLeads
  <2>3. l \in Int /\ l <= k
    BY <1>1
  <2> HIDE DEF n, l, k
  <2>4. Leads(c, n, k)
    BY <1>1, <2>2, <2>3, LeadsMore
  <2> QED BY <2>4 DEF n
<1>4. Leads(c, Ask(c, "GrabPage", definition.grabUrl), k)
  <2>1. Rank("GrabPage", c) = k /\ 1 <= k /\ k <= k
    BY <1>1 DEF Rank
  <2> HIDE DEF k
  <2> QED BY <2>1, AskLeads, DefinitionType DEF Phases
<1> HIDE DEF k
<1>5. Leads(c, AfterBefore(c, r), k)
  BY <1>2, <1>3, <1>4 DEF AfterBefore
<1> QED BY <1>5 DEF k

LEMMA BeginGrabLeads ==
    ASSUME definition \in Definitions, NEW c, Fit(c), Ready(c), c.kind = "grab", NEW r \in Response
    PROVE  Leads(c, BeginGrab(c, r), After(c))
<1> DEFINE k == After(c)
<1>1. /\ c \in Context /\ definition.selectors \in Nat /\ Again(c) \in Nat /\ c.index \in Nat
      /\ After(c) = 4 + definition.selectors + Again(c) /\ k \in Int
  BY Counts DEF Fit, Own
<1>2. Leads(c, AfterBefore(c, r), k)
  BY <1>1, AfterBeforeLeads, LeadsMore
<1>3. Leads(c, CompleteGrab(c, definition.grabUrl), k)
  <2> DEFINE n == CompleteGrab(c, definition.grabUrl)
             l == 1 + definition.selectors - c.index + Again(c)
  <2>1. definition.grabUrl \in Urls
    BY DefinitionType
  <2>2. Leads(c, n, l)
    BY <2>1, CompleteGrabLeads
  <2>3. l \in Int /\ l <= k
    BY <1>1
  <2> HIDE DEF n, l, k
  <2>4. Leads(c, n, k)
    BY <1>1, <2>2, <2>3, LeadsMore
  <2> QED BY <2>4 DEF n
<1>4. /\ Leads(c, Ask(c, "GrabResolveBefore", definition.grabUrl), k)
      /\ Leads(c, Ask(c, "GrabBeforeResponse", definition.grabUrl), k)
  <2>1. /\ 1 <= Rank("GrabResolveBefore", c) /\ Rank("GrabResolveBefore", c) <= k
        /\ 1 <= Rank("GrabBeforeResponse", c) /\ Rank("GrabBeforeResponse", c) <= k
    BY <1>1 DEF Rank
  <2> HIDE DEF k
  <2> QED BY <2>1, AskLeads, DefinitionType DEF Phases
<1> HIDE DEF k
<1>5. Leads(c, BeginGrab(c, r), k)
  BY <1>2, <1>3, <1>4 DEF BeginGrab
<1> QED BY <1>5 DEF k

LEMMA ContinueLeads ==
    ASSUME definition \in Definitions, NEW c, Fit(c), Ready(c), NEW r \in Response
    PROVE  Leads(c, Continue(c, r), After(c))
<1>1. /\ c \in Context /\ c.kind \in Kinds /\ Own(c) \in Nat /\ Again(c) \in Nat
      /\ After(c) = Own(c) + Again(c)
  BY Counts DEF Fit
<1>2. CASE c.kind \in {"test", "captcha"}
  <2>1. Own(c) = 1 /\ Rank("TestConnection", c) = 1
    BY <1>2 DEF Own, Rank
  <2>2. 1 <= Rank("TestConnection", c) /\ Rank("TestConnection", c) <= After(c)
    BY <1>1, <2>1
  <2>3. Leads(c, Ask(c, "TestConnection", BaseUrl), After(c))
    BY <1>2, <2>2, AskLeads, UrlsAssumption DEF Phases, GrabPhases
  <2> QED BY <1>2, <2>3 DEF Continue
<1>3. CASE c.kind = "search"
  BY <1>3, NextSearchLeads DEF Continue
<1>4. CASE c.kind = "grab"
  BY <1>4, BeginGrabLeads DEF Continue
<1> QED BY <1>1, <1>2, <1>3, <1>4 DEF Kinds

LEMMA LoginLeads ==
    ASSUME definition \in Definitions, NEW c, Fit(c), Ready(c), NEW r \in Response
    PROVE  Leads(c, Login(c, r), LoginRequests + After(c))
<1> DEFINE k == LoginRequests + After(c)
<1>1. c \in Context /\ After(c) \in Nat /\ LoginRequests \in Nat /\ k \in Int
  BY Counts DEF Fit
<1>2. Leads(c, Continue(c, r), k)
  BY <1>1, ContinueLeads, LeadsMore
<1>3. ASSUME definition.login = "form"
      PROVE  Leads(c, Ask(c, "LoginLanding", definition.loginUrl), k)
  <2>1. Rank("LoginLanding", c) = 3 + After(c) /\ LoginRequests = 3
    BY <1>3 DEF Rank, LoginRequests
  <2>2. 1 <= Rank("LoginLanding", c) /\ Rank("LoginLanding", c) <= k
    BY <1>1, <2>1
  <2> HIDE DEF k
  <2> QED BY <2>2, AskLeads, DefinitionType DEF Phases, GrabPhases
<1>4. ASSUME definition.login = "direct"
      PROVE  Leads(c, Ask(c, "LoginSubmit", definition.loginUrl), k)
  <2>1. Rank("LoginSubmit", c) = 1 + After(c) /\ LoginRequests = 1
    BY <1>4 DEF Rank, LoginRequests
  <2>2. 1 <= Rank("LoginSubmit", c) /\ Rank("LoginSubmit", c) <= k
    BY <1>1, <2>1
  <2> HIDE DEF k
  <2> QED BY <2>2, AskLeads, DefinitionType DEF Phases, GrabPhases
<1>5. Leads(c, End(c, "rejected"), k)
  BY EndLeads DEF Ends, Ready
<1> HIDE DEF k
<1>6. Leads(c, Login(c, r), k)
  BY <1>2, <1>3, <1>4, <1>5 DEF Login
<1> QED BY <1>6 DEF k

\* The one login that is made again leaves less than before it.
LEMMA ReloginLeads ==
    ASSUME definition \in Definitions, NEW c, Fit(c), Fits(c), NEW r \in Response,
           c.to \in GrabPhases \union {"SearchResponse"}, c.relogin = 0
    PROVE  Leads(c, Relogin(c, r), Left(c) - 1)
<1> DEFINE x == [c EXCEPT !.relogin = 1]
           y == [c EXCEPT !.relogin = 1, !.jar = c.config]
           z == [c EXCEPT !.relogin = 1, !.jar = c.config, !.seen = @ \ {c.url}]
<1>1. /\ c \in Context /\ c.config \in Jar /\ c.seen \ {c.url} \in SUBSET Urls
  BY DEF Fit, Context
<1>2. x \in Context
  BY <1>1, TouchStep DEF StepOf, Fit
<1>3. y \in Context
  <2>1. y = [x EXCEPT !.jar = c.config]
    BY <1>1 DEF Context
  <2> HIDE DEF x, y
  <2> QED BY <1>1, <1>2, <2>1, PutStep
<1>4. z \in Context
  <2>1. z = [y EXCEPT !.seen = c.seen \ {c.url}]
    BY <1>1 DEF Context
  <2> HIDE DEF y, z
  <2> QED BY <1>1, <1>3, <2>1, PutStep
<1>5. /\ z.kind = c.kind /\ z.relogin = 1 /\ z.wanted = c.wanted /\ z.path = c.path
      /\ z.answered = c.answered /\ z.index = c.index /\ z.seen = c.seen \ {c.url}
      /\ z.hops = c.hops /\ z.sent = c.sent /\ z.url = c.url
  BY <1>1 DEF Context
<1>6. Relogin(c, r) = Login(z, r)
  BY DEF Relogin
<1> HIDE DEF x, y, z
<1>7. Fit(z)
  BY <1>4, <1>5 DEF Fit, OnSiteOnly
<1>8. c.kind = IF c.to = "SearchResponse" THEN "search" ELSE "grab"
  BY DEF Fits, GrabPhases
<1>9. Ready(z)
  <2>1. \A u : IsAnswered(z, u) <=> IsAnswered(c, u)
    BY <1>5 DEF IsAnswered
  <2>2. Passed(z) <=> Passed(c)
    BY <1>5, <2>1 DEF Passed
  <2>3. Caught(z)
    <3>1. CASE c.to = "SearchResponse"
      BY <1>5, <2>1, <2>2, <3>1 DEF Fits, Asking, Caught
    <3>2. CASE c.to \in GrabPhases
      <4>1. Caught(c)
        BY <3>2 DEF Fits, GrabPhases, Phases
      <4> QED BY <1>5, <2>1, <2>2, <4>1 DEF Caught
    <3> QED BY <3>1, <3>2
  <2> QED BY <1>4, <1>5, <2>3 DEF Ready, Formed, Fits
<1>10. Leads(z, Login(z, r), LoginRequests + After(z))
  BY <1>7, <1>9, LoginLeads
<1>11. /\ LoginRequests + After(z) <= Left(c) - 1
       /\ LoginRequests + After(z) \in Int /\ Left(c) - 1 \in Int
  <2>1. /\ definition.selectors \in Nat /\ Len(definition.paths) \in Nat /\ LoginRequests \in Nat
        /\ c.index \in Nat /\ c.path \in Nat /\ c.index <= definition.selectors
    BY <1>1, Counts DEF Fits, Formed
  <2>2. Again(z) = 0 /\ Own(z) = Own(c)
    BY <1>5 DEF Again, Own
  <2>3. CASE c.to = "SearchResponse"
    <3>1. Left(c) = Own(c) + Again(c) /\ Again(c) = LoginRequests + 1 /\ Own(c) \in Nat
      BY <1>1, <1>8, <2>3, Counts DEF Left, Rank, After, Again
    <3> QED BY <2>1, <2>2, <3>1 DEF After
  <2>4. CASE c.to \in GrabPhases
    <3>1. Again(c) = LoginRequests + 4 + definition.selectors /\ Own(c) = 4 + definition.selectors
      BY <1>8, <2>4 DEF Again, Own, GrabPhases
    <3>2. Left(c) \in Int /\ Left(c) >= 1 + Again(c)
      BY <2>1, <2>4, <3>1 DEF Left, Rank, After, GrabPhases
    <3> QED BY <2>1, <2>2, <3>1, <3>2 DEF After
  <2> QED BY <2>3, <2>4
<1> QED BY <1>5, <1>6, <1>10, <1>11, LeadsMore

LEMMA CheckedLeads ==
    ASSUME definition \in Definitions, NEW c, Fit(c), Fits(c), NEW r \in Response,
           c.to \in GrabPhases \union {"SearchResponse"},
           NEW good, r.status = "ok" => Leads(c, good, Left(c) - 1)
    PROVE  Leads(c, Checked(c, r, good), Left(c) - 1)
<1>1. c.relogin = 0 => Leads(c, Relogin(c, r), Left(c) - 1)
  BY ReloginLeads
<1>2. Leads(c, End(c, "rejected"), Left(c) - 1)
  BY EndLeads DEF Ends, Fits
<1> QED BY <1>1, <1>2 DEF Checked

LEMMA SubmitFormLeads ==
    ASSUME definition \in Definitions, NEW c, Fit(c), Ready(c),
           NEW landing \in (SUBSET LandingParts) \union {{"before"}}
    PROVE  Leads(c, SubmitForm(c, landing), (IF c.selection THEN 1 ELSE 2) + After(c))
<1> DEFINE k == (IF c.selection THEN 1 ELSE 2) + After(c)
           m == [c EXCEPT !.body = landing]
<1>1. c \in Context /\ After(c) \in Nat /\ k \in Int /\ 1 + After(c) <= k /\ 1 <= k
  <2>1. c \in Context /\ After(c) \in Nat
    BY Counts DEF Fit
  <2> QED BY <2>1
<1>2. Fit(m)
  BY TouchStep DEF StepOf
<1>3. /\ m.kind = c.kind /\ m.relogin = c.relogin /\ m.wanted = c.wanted /\ m.path = c.path
      /\ m.answered = c.answered /\ m.index = c.index /\ m.seen = c.seen /\ m.hops = c.hops
  BY <1>1 DEF Context
<1> HIDE DEF m
<1>4. Ready(m)
  <2>1. Caught(m)
    BY <1>3 DEF Ready, Caught, Passed, IsAnswered
  <2> QED BY <1>2, <1>3, <2>1 DEF Ready, Formed, Fit
<1>5. After(m) = After(c)
  BY <1>3 DEF After, Own, Again
<1>6. ASSUME ~c.selection PROVE Leads(c, Ask(m, "SimpleCaptcha", definition.loginUrl), k)
  <2>1. Rank("SimpleCaptcha", m) = k /\ 1 <= k /\ k <= k
    BY <1>1, <1>5, <1>6 DEF Rank
  <2> HIDE DEF k
  <2>2. Leads(m, Ask(m, "SimpleCaptcha", definition.loginUrl), k)
    BY <1>2, <1>4, <2>1, AskLeads, DefinitionType DEF Phases, GrabPhases
  <2> QED BY <1>3, <2>2 DEF Leads
<1>7. Leads(c, Ask(m, "CaptchaImage", definition.loginUrl), k)
  <2>1. Rank("CaptchaImage", m) = 1
    BY DEF Rank
  <2> HIDE DEF k
  <2>2. 1 <= Rank("CaptchaImage", m) /\ Rank("CaptchaImage", m) <= k
    BY <1>1, <2>1
  <2>3. Leads(m, Ask(m, "CaptchaImage", definition.loginUrl), k)
    BY <1>2, <1>4, <2>2, AskLeads, DefinitionType DEF Phases, GrabPhases
  <2> QED BY <1>3, <2>3 DEF Leads
<1>8. Leads(c, Ask(c, "LoginSubmit", definition.loginUrl), k)
  <2>1. Rank("LoginSubmit", c) = 1 + After(c)
    BY DEF Rank
  <2> HIDE DEF k
  <2>2. 1 <= Rank("LoginSubmit", c) /\ Rank("LoginSubmit", c) <= k
    BY <1>1, <2>1
  <2> QED BY <2>2, AskLeads, DefinitionType DEF Phases, GrabPhases
<1> HIDE DEF k
<1>9. /\ Leads(c, End(m, "error"), k) /\ Leads(c, End(m, "manual"), k)
      /\ Leads(c, End(c, "error"), k)
  <2>1. Leads(m, End(m, "error"), k) /\ Leads(m, End(m, "manual"), k)
    BY <1>2, <1>4, EndLeads DEF Ends, Ready
  <2>2. Leads(c, End(c, "error"), k)
    BY EndLeads DEF Ends, Ready
  <2> QED BY <1>3, <2>1, <2>2 DEF Leads
<1>10. Leads(c, SubmitForm(c, landing), k)
  BY <1>6, <1>7, <1>8, <1>9 DEF SubmitForm, m
<1> QED BY <1>10 DEF k

\* What a response may lead to: a redirect is followed, which leaves as much
\* as before and makes one more hop, or less is left; or the operation ends.
Moves(c, n) ==
    /\ Fits(n) /\ n.kind = c.kind
    /\ n.to \in Phases =>
         \/ Left(n) = Left(c) /\ n.hops = c.hops + 1
         \/ Left(n) + 1 <= Left(c) /\ n.hops = 0

LEMMA LeftPositive ==
    ASSUME definition \in Definitions, NEW c, Fits(c), c.to \in Phases
    PROVE  Left(c) \in Nat \ {0}
<1>1. /\ definition.selectors \in Nat /\ Len(definition.paths) \in Nat
      /\ c.index \in Nat /\ c.index <= definition.selectors /\ c.path \in Nat
      /\ Again(c) \in Nat /\ Own(c) \in Nat /\ After(c) = Own(c) + Again(c)
  BY Counts DEF Fits, Formed
<1>2. c.to = "SearchResponse" => Own(c) >= 1
  BY <1>1 DEF Fits, Own
<1>3. c.to \in GrabPhases => Own(c) = 4 + definition.selectors
  BY DEF Fits, Own
<1>4. CASE c.to = "SearchResponse"
  BY <1>1, <1>2, <1>4 DEF Left, Rank
<1>5. CASE c.to \in GrabPhases
  <2>1. \/ Left(c) = After(c) \/ Left(c) = After(c) - 1 \/ Left(c) = After(c) - 2
        \/ Left(c) = 1 + definition.selectors - c.index + Again(c)
    BY <1>5 DEF Left, Rank, GrabPhases
  <2> QED BY <1>1, <1>3, <1>5, <2>1
<1>6. CASE c.to \notin GrabPhases /\ c.to # "SearchResponse"
  BY <1>1, <1>6 DEF Left, Rank, GrabPhases
<1> QED BY <1>4, <1>5, <1>6

LEMMA LeadsMoves ==
    ASSUME definition \in Definitions, NEW c, Fits(c), NEW n, Leads(c, n, Left(c) - 1)
    PROVE  Moves(c, n)
<1>1. Left(c) \in Int /\ Left(n) \in Int
  BY RankType DEF Leads, Fits, Formed, Left
<1> QED BY <1>1 DEF Leads, Moves

LEMMA FollowMoves ==
    ASSUME definition \in Definitions, NEW c, Fit(c), Fits(c), NEW r \in Response,
           c.to \in Phases, c.to = "SearchResponse" => ~Unfollowed
    PROVE  Moves(c, Follow(c, r))
<1>1. Leads(c, End(c, "error"), Left(c) - 1)
  BY EndLeads DEF Ends, Fits
<1>2. Moves(c, End(c, "error"))
  BY <1>1, LeadsMoves
<1>3. ASSUME ~(r.location = NoUrl \/ c.hops >= MaxHops)
      PROVE  Moves(c, Follow(c, r))
  <2> DEFINE sent == IF <<c.url, r.location>> \notin SameSite \/ ~OnSite(r.location)
                     THEN NoCookie
                     ELSE IF c.jar # NoCookie THEN c.jar ELSE c.sent
             n == [c EXCEPT !.url = r.location, !.hops = @ + 1, !.sent = sent]
  <2>1. Follow(c, r) = n
    BY <1>3 DEF Follow
  <2>2. c \in Context /\ Follow(c, r) \in Context /\ c.hops \in Nat /\ c.hops + 1 <= MaxHops
    BY <1>3, FollowStep, LimitsAssumption DEF StepOf, Fit, Context
  <2> HIDE DEF sent
  <2>3. Same(c, n) /\ n.seen = c.seen /\ n.to = c.to /\ n.hops = c.hops + 1
    BY <2>2 DEF Same, Context
  <2> HIDE DEF n
  <2>4. n \in Context
    BY <2>1, <2>2
  <2>5. Caught(n) <=> Caught(c)
    BY <2>3, SameCounts DEF Caught
  <2>6. Left(n) = Left(c)
    BY <2>3, SameCounts DEF Left
  <2>7. c.to = "SearchResponse" => Asking(n)
    BY DEF Asking
  <2>8. Formed(n)
    BY <2>2, <2>3, <2>4 DEF Fits, Formed, Same
  <2>9. "complete" \notin Phases
    BY DEF Phases
  <2>10. Fits(n)
    BY <2>3, <2>5, <2>7, <2>8, <2>9 DEF Fits, Same
  <2>11. Moves(c, n)
    BY <2>3, <2>6, <2>10 DEF Moves, Same
  <2> QED BY <2>1, <2>11
<1> QED BY <1>2, <1>3 DEF Follow

\* The arms of resume, each on the context of its own phase.
LEMMA LoginMoves ==
    ASSUME definition \in Definitions, NEW c, Fit(c), Fits(c), NEW r \in Response
    PROVE  /\ c.to = "LoginLanding" => Moves(c, LoginLanding(c, r))
           /\ c.to = "SimpleCaptcha" => Moves(c, SimpleCaptcha(c, r))
           /\ c.to = "LoginSubmit" => Moves(c, LoginSubmit(c, r))
           /\ c.to = "CaptchaImage" => Moves(c, CaptchaImage(c, r))
           /\ c.to = "TestConnection" => Moves(c, TestConnection(c, r))
<1>1. /\ Leads(c, End(c, "rejected"), Left(c) - 1) /\ Leads(c, End(c, "error"), Left(c) - 1)
      /\ Leads(c, End(c, "manual"), Left(c) - 1)
  BY EndLeads DEF Ends, Fits
<1>2. /\ Moves(c, End(c, "rejected")) /\ Moves(c, End(c, "error")) /\ Moves(c, End(c, "manual"))
  BY <1>1, LeadsMoves
<1>3. c.to \in {"LoginLanding", "LoginSubmit", "TestConnection"} => Moves(c, Follow(c, r))
  BY FollowMoves DEF Phases
<1>4. c.to \in Phases \ {"SearchResponse"} => Ready(c)
  BY DEF Fits, Ready
<1>5. After(c) \in Nat /\ c \in Context
  BY Counts DEF Fit
<1>6. ASSUME c.to = "LoginLanding" PROVE Moves(c, LoginLanding(c, r))
  <2> DEFINE n == SubmitForm(c, r.landing)
             k == (IF c.selection THEN 1 ELSE 2) + After(c)
  <2>1. Leads(c, n, k)
    BY <1>4, <1>6, SubmitFormLeads DEF Phases, Response
  <2>2. Left(c) = 3 + After(c)
    BY <1>6 DEF Left, Rank
  <2>3. k \in Int /\ Left(c) - 1 \in Int /\ k <= Left(c) - 1
    BY <1>5, <2>2
  <2> HIDE DEF n, k
  <2>4. Moves(c, n)
    BY <2>1, <2>3, LeadsMore, LeadsMoves
  <2> QED BY <1>2, <1>3, <1>6, <2>4 DEF LoginLanding, n
<1>7. ASSUME c.to = "SimpleCaptcha" PROVE Moves(c, SimpleCaptcha(c, r))
  <2> DEFINE m == [c EXCEPT !.selection = TRUE]
             n == [m EXCEPT !.body = {}]
             x == SubmitForm(n, c.body)
  <2>1. Fit(m)
    BY TouchStep DEF StepOf
  <2>2. /\ m.kind = c.kind /\ m.relogin = c.relogin /\ m.wanted = c.wanted /\ m.path = c.path
        /\ m.answered = c.answered /\ m.index = c.index /\ m.seen = c.seen /\ m.hops = c.hops
        /\ m.selection = TRUE
    BY <1>5 DEF Context
  <2> HIDE DEF m
  <2>3. Fit(n)
    BY <2>1, TouchStep DEF StepOf
  <2>4. /\ n.kind = c.kind /\ n.relogin = c.relogin /\ n.wanted = c.wanted /\ n.path = c.path
        /\ n.answered = c.answered /\ n.index = c.index /\ n.seen = c.seen /\ n.hops = c.hops
        /\ n.selection = TRUE
    BY <2>1, <2>2 DEF Fit, Context
  <2> HIDE DEF n
  <2>5. Ready(n)
    <3>1. Ready(c)
      BY <1>4, <1>7 DEF Phases
    <3>2. Caught(n)
      BY <2>4, <3>1 DEF Ready, Caught, Passed, IsAnswered
    <3> QED BY <2>3, <2>4, <3>1, <3>2 DEF Ready, Formed, Fit
  <2>6. After(n) = After(c)
    BY <2>4 DEF After, Own, Again
  <2>7. c.body \in (SUBSET LandingParts) \union {{"before"}}
    BY <1>5 DEF Context
  <2>8. Leads(n, x, (IF n.selection THEN 1 ELSE 2) + After(n))
    BY <2>3, <2>5, <2>7, SubmitFormLeads
  <2>9. (IF n.selection THEN 1 ELSE 2) + After(n) = Left(c) - 1
    <3>1. Left(c) = 2 + After(c)
      BY <1>7 DEF Left, Rank
    <3> QED BY <1>5, <2>4, <2>6, <3>1
  <2> HIDE DEF x
  <2>10. Leads(c, x, Left(c) - 1)
    BY <2>4, <2>8, <2>9 DEF Leads
  <2>11. Moves(c, x)
    BY <2>10, LeadsMoves
  <2> QED BY <1>2, <2>11 DEF SimpleCaptcha, x, n, m
<1>8. ASSUME c.to = "LoginSubmit" PROVE Moves(c, LoginSubmit(c, r))
  <2>1. Leads(c, Continue(c, r), After(c))
    BY <1>4, <1>8, ContinueLeads DEF Phases
  <2>2. Left(c) = 1 + After(c)
    BY <1>8 DEF Left, Rank
  <2>3. After(c) = Left(c) - 1
    BY <1>5, <2>2
  <2>4. Leads(c, Continue(c, r), Left(c) - 1)
    BY <2>1, <2>3
  <2>5. Moves(c, Continue(c, r))
    BY <2>4, LeadsMoves
  <2> QED BY <1>2, <1>3, <1>8, <2>5 DEF LoginSubmit
<1>9. ASSUME c.to = "CaptchaImage" PROVE Moves(c, CaptchaImage(c, r))
  BY <1>2 DEF CaptchaImage
<1>10. ASSUME c.to = "TestConnection" PROVE Moves(c, TestConnection(c, r))
  <2>1. SearchAnswered(c)
    BY <1>10 DEF Fits, Formed, SearchAnswered
  <2>2. Leads(c, End(c, "complete"), Left(c) - 1)
    BY <2>1, EndLeads DEF Ends, Fits
  <2>3. Moves(c, End(c, "complete"))
    BY <2>2, LeadsMoves
  <2> QED BY <1>2, <1>3, <1>10, <2>3 DEF TestConnection
<1> QED BY <1>6, <1>7, <1>8, <1>9, <1>10

\* The answer to the path in hand, and those to the paths before it, are all
\* that is asked of a search when it goes on to the next path.
LEMMA SearchMoves ==
    ASSUME definition \in Definitions, NEW c, Fit(c), Fits(c), NEW r \in Response,
           c.to = "SearchResponse"
    PROVE  Moves(c, SearchResponse(c, r))
<1> DEFINE N == Len(definition.paths)
           m == [c EXCEPT !.answered = @ \union {c.path}]
           n == [m EXCEPT !.path = @ + 1]
           x == NextSearch(n)
           good == IF r.page = "bad" THEN End(c, "rejected") ELSE x
<1>1. /\ c \in Context /\ c.path \in Nat \ {0} /\ N \in Nat /\ c.path <= N /\ c.kind = "search"
      /\ Own(c) \in Nat /\ Again(c) \in Nat /\ Formed(c) /\ Asking(c)
      /\ c.answered \in SUBSET Nat /\ c.path + 1 \in Nat \ {0}
  BY Counts DEF Fit, Fits, Context
<1>2. Fit(m)
  BY <1>1, TouchStep DEF StepOf
<1>3. /\ m.kind = c.kind /\ m.relogin = c.relogin /\ m.wanted = c.wanted /\ m.path = c.path
      /\ m.answered = c.answered \union {c.path} /\ m.index = c.index /\ m.seen = c.seen
      /\ m.hops = c.hops
  BY <1>1 DEF Context
<1> HIDE DEF m
<1>4. n = [m EXCEPT !.path = c.path + 1]
  BY <1>2, <1>3 DEF Fit, Context
<1> HIDE DEF n
<1>5. Fit(n)
  BY <1>1, <1>2, <1>4, TouchStep DEF StepOf
<1>6. /\ n.kind = c.kind /\ n.relogin = c.relogin /\ n.wanted = c.wanted /\ n.path = c.path + 1
      /\ n.answered = c.answered \union {c.path} /\ n.index = c.index /\ n.seen = c.seen
      /\ n.hops = c.hops
  BY <1>2, <1>3, <1>4 DEF Fit, Context
<1>7. Ready(n)
  <2>1. IsAnswered(n, PathUrl(c.path))
    BY <1>6 DEF IsAnswered
  <2>2. \A u : IsAnswered(c, u) => IsAnswered(n, u)
    BY <1>6 DEF IsAnswered
  <2>3. ASSUME Unfollowed, NEW p \in n.wanted \cap (1..N), p < n.path
        PROVE  IsAnswered(n, PathUrl(p))
    <3>1. CASE p = c.path
      BY <2>1, <3>1
    <3>2. CASE p # c.path
      <4>1. p < c.path /\ p \in c.wanted \cap (1..N)
        BY <1>1, <1>6, <2>3, <3>2
      <4> QED BY <1>1, <2>2, <2>3, <4>1 DEF Asking, Passed
    <3> QED BY <3>1, <3>2
  <2>4. Unfollowed => \A u \in n.seen : IsAnswered(n, u)
    BY <1>1, <1>6, <2>1, <2>2 DEF Asking
  <2>5. Caught(n)
    BY <2>3, <2>4 DEF Caught, Passed
  <2> QED BY <1>1, <1>5, <1>6, <2>5 DEF Ready, Formed, Fit
<1>8. Leads(n, x, After(n))
  BY <1>1, <1>5, <1>6, <1>7, NextSearchLeads
<1>9. After(n) = Left(c) - 1
  <2>1. Again(n) = Again(c)
    BY <1>6 DEF Again
  <2>2. Own(n) = N - c.path /\ Own(c) = N + 1 - c.path
    BY <1>1, <1>6 DEF Own
  <2>3. Left(c) = Own(c) + Again(c)
    BY DEF Left, Rank, After
  <2>4. After(n) = N - c.path + Again(c)
    BY <2>1, <2>2 DEF After
  <2>5. N \in Nat /\ c.path \in Nat /\ Again(c) \in Nat
    BY <1>1
  <2> HIDE DEF N
  <2> QED BY <2>2, <2>3, <2>4, <2>5
<1> HIDE DEF x
<1>10. Leads(c, x, Left(c) - 1)
  BY <1>6, <1>8, <1>9 DEF Leads
<1>11. Leads(c, good, Left(c) - 1)
  <2>1. Leads(c, End(c, "rejected"), Left(c) - 1)
    BY <1>1, EndLeads DEF Ends
  <2> QED BY <1>10, <2>1
<1> HIDE DEF good
<1>12. Moves(c, Checked(c, r, good))
  BY <1>11, CheckedLeads, LeadsMoves
<1>13. FollowsSearch(c.path) => Moves(c, Follow(c, r))
  <2>1. FollowsSearch(c.path) => ~Unfollowed
    BY DEF FollowsSearch, Unfollowed
  <2> QED BY <2>1, FollowMoves DEF Phases
<1>14. SearchResponse(c, r) = IF IsFollowed(r, FollowsSearch(c.path)) THEN Follow(c, r)
                              ELSE Checked(c, r, good)
  BY DEF SearchResponse, good, x, n, m
<1> QED BY <1>12, <1>13, <1>14 DEF IsFollowed

LEMMA GrabMoves ==
    ASSUME definition \in Definitions, NEW c, Fit(c), Fits(c), NEW r \in Response
    PROVE  /\ c.to = "GrabResolveBefore" => Moves(c, GrabResolveBefore(c, r))
           /\ c.to = "GrabBeforeResponse" => Moves(c, GrabBeforeResponse(c, r))
           /\ c.to = "GrabPage" => Moves(c, GrabPage(c, r))
           /\ c.to = "GrabDownload" => Moves(c, GrabDownload(c, r))
<1> SUFFICES ASSUME c.to \in GrabPhases
             PROVE  /\ c.to = "GrabResolveBefore" => Moves(c, GrabResolveBefore(c, r))
                    /\ c.to = "GrabBeforeResponse" => Moves(c, GrabBeforeResponse(c, r))
                    /\ c.to = "GrabPage" => Moves(c, GrabPage(c, r))
                    /\ c.to = "GrabDownload" => Moves(c, GrabDownload(c, r))
  BY DEF GrabPhases
<1>1. /\ c \in Context /\ c.kind = "grab" /\ definition.selectors \in Nat /\ Again(c) \in Nat
      /\ c.index \in Nat /\ After(c) = 4 + definition.selectors + Again(c)
  BY Counts DEF Fit, Fits, Own
<1>2. Ready(c) /\ c.to \in Phases /\ c.to # "SearchResponse"
  BY DEF Fits, Ready, GrabPhases, Phases
<1>3. Moves(c, Follow(c, r))
  BY <1>2, FollowMoves
<1>4. ASSUME NEW good, Leads(c, good, Left(c) - 1)
      PROVE  Moves(c, Checked(c, r, good))
  BY <1>4, CheckedLeads, LeadsMoves
<1>5. /\ Leads(c, End(c, "rejected"), Left(c) - 1) /\ Leads(c, End(c, "error"), Left(c) - 1)
      /\ Leads(c, End(c, "complete"), Left(c) - 1)
  <2>1. SearchAnswered(c)
    BY <1>1 DEF Fits, Formed, SearchAnswered
  <2> QED BY <2>1, EndLeads DEF Ends, Fits
<1>6. ASSUME c.to = "GrabResolveBefore" PROVE Moves(c, GrabResolveBefore(c, r))
  <2> DEFINE good == IF r.link \in Urls THEN Ask(c, "GrabBeforeResponse", r.link)
                     ELSE End(c, "error")
  <2>1. Rank("GrabBeforeResponse", c) = Left(c) - 1 /\ 1 <= Left(c) - 1 /\ Left(c) - 1 <= Left(c) - 1
    BY <1>1, <1>6 DEF Left, Rank
  <2>2. ASSUME r.link \in Urls
        PROVE  Leads(c, Ask(c, "GrabBeforeResponse", r.link), Left(c) - 1)
    BY <1>1, <1>2, <2>1, <2>2, AskLeads DEF Phases
  <2>3. Leads(c, good, Left(c) - 1)
    BY <1>5, <2>2
  <2> HIDE DEF good
  <2>4. Moves(c, Checked(c, r, good))
    BY <1>4, <2>3
  <2> QED BY <1>3, <2>4 DEF GrabResolveBefore, good
<1>7. ASSUME c.to = "GrabBeforeResponse" PROVE Moves(c, GrabBeforeResponse(c, r))
  <2> DEFINE m == [c EXCEPT !.body = {"before"}]
             good == AfterBefore(m, r)
  <2>1. Fit(m)
    BY TouchStep DEF StepOf
  <2>2. /\ m.kind = c.kind /\ m.relogin = c.relogin /\ m.wanted = c.wanted /\ m.path = c.path
        /\ m.answered = c.answered /\ m.index = c.index /\ m.seen = c.seen /\ m.hops = c.hops
    BY <1>1 DEF Context
  <2> HIDE DEF m
  <2>3. Ready(m)
    <3>1. Caught(m)
      BY <1>2, <2>2 DEF Ready, Caught, Passed, IsAnswered
    <3> QED BY <1>2, <2>1, <2>2, <3>1 DEF Ready, Formed, Fit
  <2>4. Leads(m, good, definition.selectors + 2 + Again(m))
    BY <1>1, <2>1, <2>2, <2>3, AfterBeforeLeads
  <2> HIDE DEF good
  <2>5. definition.selectors + 2 + Again(m) = Left(c) - 1
    <3>1. Again(m) = Again(c)
      BY <2>2 DEF Again
    <3>2. Left(c) = After(c) - 1
      BY <1>7 DEF Left, Rank
    <3> QED BY <1>1, <3>1, <3>2
  <2>6. Leads(c, good, Left(c) - 1)
    BY <2>2, <2>4, <2>5 DEF Leads
  <2>7. Moves(c, Checked(c, r, good))
    BY <1>4, <2>6
  <2> QED BY <1>3, <2>7 DEF GrabBeforeResponse, good, m
<1>8. ASSUME c.to = "GrabPage" PROVE Moves(c, GrabPage(c, r))
  <2> DEFINE good == FinishGrab(c, r)
             k == definition.selectors + Again(c)
  <2>1. Leads(c, good, k)
    BY <1>1, <1>2, FinishGrabLeads
  <2>2. k \in Int /\ Left(c) - 1 \in Int /\ k <= Left(c) - 1
    <3>1. Left(c) = After(c) - 2
      BY <1>8 DEF Left, Rank
    <3> QED BY <1>1, <3>1
  <2> HIDE DEF good, k
  <2>3. Leads(c, good, Left(c) - 1)
    BY <2>1, <2>2, LeadsMore
  <2>4. Moves(c, Checked(c, r, good))
    BY <1>4, <2>3
  <2> QED BY <1>3, <2>4 DEF GrabPage, good
<1>9. ASSUME c.to = "GrabDownload" PROVE Moves(c, GrabDownload(c, r))
  <2> DEFINE good == CASE r.page \in {"in", "untyped"}        -> End(c, "complete")
                       [] c.index > 0 /\ definition.testLink  -> NextSelector(c, r)
                       [] OTHER                               -> End(c, "rejected")
  <2>1. Leads(c, NextSelector(c, r), definition.selectors - c.index + Again(c))
    BY <1>1, <1>2, NextSelectorLeads
  <2>2. definition.selectors - c.index + Again(c) = Left(c) - 1
    <3>1. Left(c) = 1 + definition.selectors - c.index + Again(c)
      BY <1>9 DEF Left, Rank
    <3> QED BY <1>1, <3>1
  <2>3. Leads(c, NextSelector(c, r), Left(c) - 1)
    BY <2>1, <2>2
  <2>4. Leads(c, good, Left(c) - 1)
    BY <1>5, <2>3
  <2> HIDE DEF good
  <2>5. Moves(c, Checked(c, r, good))
    BY <1>4, <2>4
  <2> QED BY <1>3, <2>5 DEF GrabDownload, good
<1> QED BY <1>6, <1>7, <1>8, <1>9

\* Taking over a response's cookie leaves everything else as it was.
LEMMA TakenFits ==
    ASSUME NEW c, Fit(c), Fits(c), NEW r \in Response
    PROVE  /\ Fit(Taken(c, r)) /\ Fits(Taken(c, r)) /\ Same(c, Taken(c, r))
           /\ Taken(c, r).to = c.to /\ Taken(c, r).hops = c.hops
           /\ Left(Taken(c, r)) = Left(c)
<1> DEFINE n == Taken(c, r)
<1>1. Fit(n) /\ c \in Context
  BY TakenFit DEF Fit
<1>2. Same(c, n) /\ n.to = c.to /\ n.hops = c.hops /\ n.seen = c.seen /\ n.url = c.url
  BY <1>1 DEF Taken, Same, Context
<1> HIDE DEF n
<1>3. (Caught(n) <=> Caught(c)) /\ (Asking(n) <=> Asking(c))
      /\ (SearchAnswered(n) <=> SearchAnswered(c)) /\ Left(n) = Left(c)
  BY <1>2, SameCounts DEF Caught, Asking, Left, Same
<1>4. Fits(n)
  BY <1>1, <1>2, <1>3 DEF Fits, Formed, Fit, Same
<1> QED BY <1>1, <1>2, <1>3, <1>4 DEF n

-----------------------------------------------------------------------------
(* The steps an operation may still take, redirects included: a request    *)
(* and its redirects for every request left, less the hops it has made.    *)

Ahead(c) == (MaxHops + 1) * Left(c) - c.hops
Whole(c) == (MaxHops + 1) * Stages(c.kind)

\* Its steps and those it may still take are within the bound, before the
\* step in hand is counted.
Due(b) ==
    /\ b.ctx.to \in Phases => b.steps + Ahead(b.ctx) <= Whole(b.ctx)
    /\ b.ctx.to \in Ends => b.steps <= Whole(b.ctx)

Course(b) ==
    /\ Fits(b.ctx)
    /\ b.pc = "idle" => b.steps = 0
    /\ b.pc = "waiting" =>
         b.final = FALSE /\ b.ctx.to \in Phases /\ b.steps + Ahead(b.ctx) <= Whole(b.ctx) + 1
    /\ b.pc \in {"saving", "swapping"} =>
         \/ b.final = FALSE /\ Due(b)
         \/ b.final = TRUE /\ b.ctx.to = "complete" /\ b.steps <= Whole(b.ctx) + 1

LEMMA Multiples ==
    ASSUME NEW h \in Nat, NEW k \in Nat, NEW l \in Nat, k <= l
    PROVE  h * k \in Nat /\ h * l \in Nat /\ h * k <= h * l
<1>1. PICK d \in Nat : l = k + d
  <2>1. l - k \in Nat /\ l = k + (l - k)
    OBVIOUS
  <2> QED BY <2>1
<1>2. h * l = h * k + h * d
  BY <1>1
<1>3. h * k \in Nat /\ h * d \in Nat
  OBVIOUS
<1> QED BY <1>2, <1>3

LEMMA WholeType ==
    ASSUME definition \in Definitions, NEW c \in Context
    PROVE  Stages(c.kind) \in Nat /\ Whole(c) \in Nat
<1>1. /\ definition.selectors \in Nat /\ Len(definition.paths) \in Nat /\ LoginRequests \in Nat
  BY Counts
<1>2. Stages(c.kind) \in Nat
  BY <1>1 DEF Stages
<1> DEFINE h == MaxHops + 1
           s == Stages(c.kind)
<1>3. h \in Nat /\ s \in Nat
  BY <1>2, LimitsAssumption
<1> HIDE DEF h, s
<1>4. h * s \in Nat
  BY <1>3
<1> QED BY <1>2, <1>4 DEF Whole, h, s

\* Every move leaves fewer steps, and a request that waits leaves one at least.
LEMMA MovesAhead ==
    ASSUME definition \in Definitions, NEW c, Fits(c), c.to \in Phases, NEW n, Moves(c, n)
    PROVE  /\ Ahead(c) \in Nat \ {0} /\ Whole(n) = Whole(c)
           /\ n.to \in Phases => Ahead(n) \in Nat \ {0} /\ Ahead(n) + 1 <= Ahead(c)
<1> DEFINE h == MaxHops + 1
           k == Left(n)
           l == Left(c)
<1>1. h \in Nat /\ MaxHops \in Nat /\ h = MaxHops + 1
  BY LimitsAssumption
<1>2. c.hops \in Nat /\ c.hops <= MaxHops /\ l \in Nat \ {0}
  BY LeftPositive, Counts DEF Fits, Formed
<1>3. n.to \in Phases => n.hops \in Nat /\ n.hops <= MaxHops /\ k \in Nat \ {0}
  BY LeftPositive, Counts DEF Moves, Fits, Formed
<1>4. Ahead(c) = h * l - c.hops /\ Ahead(n) = h * k - n.hops
  BY DEF Ahead
<1>5. n.to \in Phases => \/ k = l /\ n.hops = c.hops + 1
                         \/ k + 1 <= l /\ n.hops = 0
  BY DEF Moves
<1>6. Whole(n) = Whole(c)
  BY DEF Moves, Whole
<1> HIDE DEF h, k, l
<1>7. h * l \in Nat /\ h <= h * l
  <2>1. h * 1 = h /\ 1 <= l
    BY <1>1, <1>2
  <2> QED BY <1>1, <1>2, <2>1, Multiples
<1>8. Ahead(c) \in Nat \ {0}
  BY <1>1, <1>2, <1>4, <1>7
<1>9. ASSUME n.to \in Phases PROVE Ahead(n) \in Nat \ {0} /\ Ahead(n) + 1 <= Ahead(c)
  <2>1. h * k \in Nat /\ h <= h * k
    <3>1. h * 1 = h /\ 1 <= k /\ k \in Nat
      BY <1>1, <1>3, <1>9
    <3> QED BY <1>1, <3>1, Multiples
  <2>2. CASE k = l /\ n.hops = c.hops + 1
    BY <1>1, <1>2, <1>3, <1>4, <1>9, <2>1, <2>2
  <2>3. CASE k + 1 <= l /\ n.hops = 0
    <3>1. k \in Nat /\ k + 1 \in Nat
      BY <1>3, <1>9
    <3>2. h * (k + 1) <= h * l
      BY <1>1, <1>2, <2>3, <3>1, Multiples
    <3>3. h * (k + 1) = h * k + h
      BY <1>1, <3>1
    <3>4. h * k + h <= h * l
      BY <3>2, <3>3
    <3> HIDE <3>2, <3>3
    <3> QED BY <1>1, <1>2, <1>4, <1>7, <2>1, <2>3, <3>4
  <2> QED BY <1>5, <1>9, <2>2, <2>3
<1> QED BY <1>6, <1>8, <1>9

LEMMA IdleCourse ==
    ASSUME definition \in Definitions
    PROVE  Course(IdleOperation)
<1>1. /\ IdleOperation.pc = "idle" /\ IdleOperation.steps = 0
      /\ IdleOperation.ctx = NewContext
  BY DEF IdleOperation
<1>2. NewContext \in Context /\ definition.selectors \in Nat
  BY DefinitionType DEF NewContext, Context, Jar, Ends, Kinds, Phases, LandingParts
<1>3. /\ NewContext.to = "complete" /\ NewContext.hops = 0 /\ NewContext.index = 0
      /\ NewContext.wanted = {}
  BY DEF NewContext
<1>4. Fits(NewContext)
  BY <1>2, <1>3, LimitsAssumption DEF Fits, Formed, SearchAnswered, Phases, GrabPhases
<1> QED BY <1>1, <1>4 DEF Course

LEMMA AdvanceCourse ==
    ASSUME definition \in Definitions, NEW b \in Operation, Fits(b.ctx), b.final = FALSE, Due(b)
    PROVE  Course(Advance(b))
<1>1. b.steps \in Nat /\ b.ctx \in Context /\ b.ctx.to \in Phases \union Ends
  BY DEF Operation, Context
<1>2. Ahead(b.ctx) \in Int /\ Whole(b.ctx) \in Int
  <2> DEFINE h == MaxHops + 1
             l == Left(b.ctx)
  <2>1. h \in Int /\ l \in Int /\ b.ctx.hops \in Int
    BY <1>1, LimitsAssumption, RankType DEF Left, Context
  <2> HIDE DEF h, l
  <2>2. h * l - b.ctx.hops \in Int
    BY <2>1
  <2>3. Whole(b.ctx) \in Int
    BY <1>1, WholeType
  <2> QED BY <2>2, <2>3 DEF Ahead, h, l
<1>3. CASE b.steps >= MaxSteps \/ b.ctx.to \in {"rejected", "error", "manual"}
  BY <1>3, IdleCourse DEF Advance
<1>4. CASE ~(b.steps >= MaxSteps \/ b.ctx.to \in {"rejected", "error", "manual"}) /\ b.ctx.to = "complete"
  <2> DEFINE n == [b EXCEPT !.pc = "saving", !.final = TRUE, !.steps = @ + 1]
  <2>1. n.pc = "saving" /\ n.final = TRUE /\ n.steps = b.steps + 1 /\ n.ctx = b.ctx
    BY DEF Operation
  <2>2. Advance(b) = n
    BY <1>4 DEF Advance
  <2> HIDE DEF n
  <2>3. b.steps <= Whole(b.ctx)
    BY <1>4 DEF Due, Ends
  <2>4. n.steps <= Whole(n.ctx) + 1
    BY <1>1, <1>2, <2>1, <2>3
  <2>5. Course(n)
    BY <1>4, <2>1, <2>4 DEF Course
  <2> QED BY <2>2, <2>5
<1>5. CASE ~(b.steps >= MaxSteps \/ b.ctx.to \in {"rejected", "error", "manual"}) /\ b.ctx.to # "complete"
  <2> DEFINE n == [b EXCEPT !.pc = "waiting", !.steps = @ + 1]
  <2>1. n.pc = "waiting" /\ n.final = b.final /\ n.steps = b.steps + 1 /\ n.ctx = b.ctx
    BY DEF Operation
  <2>2. Advance(b) = n
    BY <1>5 DEF Advance
  <2> HIDE DEF n
  <2>3. b.ctx.to \in Phases
    BY <1>1, <1>5 DEF Ends
  <2>4. b.steps + Ahead(b.ctx) <= Whole(b.ctx)
    BY <2>3 DEF Due
  <2>5. n.steps + Ahead(n.ctx) <= Whole(n.ctx) + 1
    BY <1>1, <1>2, <2>1, <2>4
  <2>6. n.final = FALSE
    BY <2>1
  <2>7. Course(n)
    BY <2>1, <2>3, <2>5, <2>6 DEF Course
  <2> QED BY <2>2, <2>7
<1> QED BY <1>3, <1>4, <1>5

LEMMA ReceivedCourse ==
    ASSUME definition \in Definitions, NEW b \in Operation, Fit(b.ctx), Course(b), b.pc = "waiting",
           NEW r \in Response, NEW c, c = b.ctx \/ c = Taken(b.ctx, r),
           NEW next, Moves(c, next)
    PROVE  Course(Received(b, r, next))
<1> DEFINE jar == Merged(b.session.cookie, r)
           s == [cookie |-> jar, dated |-> jar # NoCookie]
           m == [b EXCEPT !.ctx = next]
           n == [b EXCEPT !.pc = "saving", !.ctx = next, !.session = s]
<1>1. /\ Fits(b.ctx) /\ b.final = FALSE /\ b.ctx.to \in Phases /\ b.steps \in Nat
      /\ b.steps + Ahead(b.ctx) <= Whole(b.ctx) + 1
  BY DEF Course, Operation
<1>2. /\ Fits(c) /\ c.to \in Phases /\ Ahead(c) = Ahead(b.ctx) /\ Whole(c) = Whole(b.ctx)
  <2>1. CASE c = b.ctx
    BY <1>1, <2>1
  <2>2. CASE c = Taken(b.ctx, r)
    BY <1>1, <2>2, TakenFits DEF Ahead, Whole, Same
  <2> QED BY <2>1, <2>2
<1>3. Fits(next) /\ next \in Context
  BY DEF Moves, Fits, Formed
<1>4. Whole(c) \in Nat
  BY <1>2, WholeType DEF Fits, Formed
<1>5. /\ next.to \in Phases => b.steps + Ahead(next) <= Whole(next)
      /\ next.to \in Ends => b.steps <= Whole(next)
  <2>1. /\ Ahead(c) \in Nat \ {0} /\ Whole(next) = Whole(c)
        /\ next.to \in Phases => Ahead(next) \in Nat \ {0} /\ Ahead(next) + 1 <= Ahead(c)
    BY <1>2, MovesAhead
  <2>2. b.steps + Ahead(c) <= Whole(c) + 1
    BY <1>1, <1>2
  <2> QED BY <1>1, <1>4, <2>1, <2>2
<1>6. Course(Advance(m))
  <2>1. m \in Operation
    BY <1>3 DEF Operation
  <2>2. m.ctx = next /\ m.steps = b.steps /\ m.final = b.final
    BY DEF Operation
  <2> HIDE DEF m
  <2>3. Due(m) /\ m.final = FALSE
    BY <1>1, <1>5, <2>2 DEF Due
  <2> QED BY <1>3, <2>1, <2>2, <2>3, AdvanceCourse
<1>7. Course(n)
  <2> HIDE DEF s
  <2>1. n.ctx = next /\ n.steps = b.steps /\ n.final = b.final /\ n.pc = "saving"
    BY DEF Operation
  <2> HIDE DEF n
  <2>2. Due(n) /\ n.final = FALSE
    BY <1>1, <1>5, <2>1 DEF Due
  <2> QED BY <1>3, <2>1, <2>2 DEF Course
<1> QED BY <1>6, <1>7 DEF Received

\* An operation starts with all its requests to make.
LEMMA BegunCourse ==
    ASSUME definition \in Definitions, NEW kind \in Kinds, NEW jar \in Jar,
           NEW wanted \in SUBSET Nat, NEW answer \in BOOLEAN, NEW supported \in BOOLEAN,
           NEW s \in Session
    PROVE  LET c == Opened(kind, jar, wanted, answer)
           IN  Course(Advance(Opening(s, IF kind = "search" /\ ~supported
                                         THEN [c EXCEPT !.wanted = {}]
                                         ELSE Login(c, Plain))))
<1> DEFINE c == Opened(kind, jar, wanted, answer)
           u == [c EXCEPT !.wanted = {}]
           l == Login(c, Plain)
           n == IF kind = "search" /\ ~supported THEN u ELSE l
           b == Opening(s, n)
<1>1. Fit(c) /\ c \in Context
  BY OpenedFit DEF Fit
<1>2. /\ c.to = "complete" /\ c.kind = kind /\ c.hops = 0 /\ c.index = 0 /\ c.path = 1
      /\ c.seen = {} /\ c.relogin = 0 /\ (kind # "search" => c.wanted = {})
  BY DEF Opened, NewContext
<1> HIDE DEF c
<1>3. /\ definition.selectors \in Nat /\ Len(definition.paths) \in Nat /\ LoginRequests \in Nat
      /\ Again(c) \in Nat /\ Own(c) \in Nat /\ Stages(kind) \in Nat
      /\ MaxHops + 1 \in Nat /\ MaxHops \in Nat
  BY <1>1, <1>2, Counts, WholeType, LimitsAssumption
<1>4. Ready(c)
  BY <1>1, <1>2, <1>3 DEF Ready, Formed, Caught, Passed
<1>5. Leads(c, l, LoginRequests + After(c))
  BY <1>1, <1>4, LoginLeads, ResponseType
<1>6. LoginRequests + After(c) <= Stages(kind)
  <2>1. CASE kind = "search"
    <3> DEFINE N == Len(definition.paths)
    <3>1. Own(c) = N /\ N \in Nat /\ LoginRequests \in Nat
      BY <1>2, <1>3, <2>1 DEF Own
    <3>2. Again(c) = LoginRequests + 1 /\ Stages(kind) = 2 * LoginRequests + (N + 1)
      BY <1>2, <2>1 DEF Again, Stages
    <3> HIDE DEF N
    <3>3. LoginRequests + After(c) = LoginRequests + (N + (LoginRequests + 1))
      BY <3>1, <3>2 DEF After
    <3> QED BY <3>1, <3>2, <3>3
  <2>2. CASE kind = "grab"
    <3>1. /\ Own(c) = 4 + definition.selectors
          /\ Again(c) = LoginRequests + 4 + definition.selectors
          /\ Stages(kind) = 2 * LoginRequests + (2 * (4 + definition.selectors))
      BY <1>2, <2>2 DEF Own, Again, Stages
    <3>2. LoginRequests + After(c)
            = LoginRequests + ((4 + definition.selectors) + (LoginRequests + 4 + definition.selectors))
      BY <3>1 DEF After
    <3>3. definition.selectors \in Nat /\ LoginRequests \in Nat
      BY <1>3
    <3> QED BY <3>1, <3>2, <3>3
  <2>3. CASE kind \notin {"search", "grab"}
    <3>1. Own(c) = 1 /\ Again(c) = 0 /\ Stages(kind) = 2 * LoginRequests + 1
      BY <1>2, <2>3 DEF Own, Again, Stages
    <3> QED BY <1>3, <3>1 DEF After
  <2> QED BY <2>1, <2>2, <2>3
<1> HIDE DEF l
<1>7. Fits(l) /\ l.kind = kind /\ (l.to \in Phases => Ahead(l) <= Whole(l) /\ Ahead(l) \in Int)
  <2>1. /\ Fits(l) /\ l.kind = kind
        /\ l.to \in Phases => l.hops = 0 /\ 1 <= Left(l) /\ Left(l) <= LoginRequests + After(c)
    BY <1>2, <1>5 DEF Leads
  <2>2. ASSUME l.to \in Phases PROVE Ahead(l) <= Whole(l) /\ Ahead(l) \in Int
    <3> DEFINE h == MaxHops + 1
               k == Left(l)
               w == Stages(kind)
    <3>1. k \in Nat \ {0}
      BY <2>1, <2>2, LeftPositive
    <3>2. LoginRequests + After(c) \in Int
      BY <1>3 DEF After
    <3>3. k <= w
      BY <1>3, <1>6, <2>1, <2>2, <3>1, <3>2
    <3>4. Ahead(l) = h * k - l.hops /\ Whole(l) = h * w /\ l.hops = 0
      BY <2>1, <2>2 DEF Ahead, Whole
    <3>5. h \in Nat /\ w \in Nat
      BY <1>3
    <3> HIDE DEF h, k, w
    <3>6. h * k \in Nat /\ h * w \in Nat /\ h * k <= h * w
      BY <3>1, <3>3, <3>5, Multiples
    <3> QED BY <3>4, <3>6
  <2> QED BY <2>1, <2>2
<1>8. Fits(u) /\ u.to = "complete" /\ u.kind = c.kind
  <2>1. u \in Context
    BY <1>1, PutStep
  <2>2. /\ u.to = "complete" /\ u.hops = 0 /\ u.index = 0 /\ u.wanted = {} /\ u.kind = c.kind
    BY <1>1, <1>2 DEF Context
  <2> HIDE DEF u
  <2> QED BY <1>3, <2>1, <2>2 DEF Fits, Formed, SearchAnswered, Phases, GrabPhases
<1> HIDE DEF u
<1>9. Fits(n) /\ (n.to \in Phases => Ahead(n) <= Whole(n) /\ Ahead(n) \in Int)
      /\ n \in Context /\ Whole(n) \in Nat
  <2>1. Fits(n) /\ (n.to \in Phases => Ahead(n) <= Whole(n) /\ Ahead(n) \in Int)
    BY <1>7, <1>8 DEF Phases
  <2> QED BY <2>1, WholeType DEF Fits, Formed
<1>10. /\ b \in Operation /\ b.ctx = n /\ b.steps = 0 /\ b.final = FALSE
  <2> HIDE DEF n
  <2>1. IdleOperation \in Operation
    BY IdleSound DEF Sound
  <2> DEFINE m == [IdleOperation EXCEPT !.session = s]
  <2>2. m \in Operation
    BY <2>1 DEF Operation
  <2>3. b = [m EXCEPT !.ctx = n]
    BY DEF Opening
  <2> HIDE DEF m
  <2>4. b \in Operation
    BY <1>9, <2>2, <2>3 DEF Operation
  <2>5. b.ctx = n /\ b.steps = 0 /\ b.final = FALSE
    BY DEF Opening, IdleOperation
  <2> QED BY <2>4, <2>5
<1> HIDE DEF b, n
<1>11. Due(b)
  BY <1>9, <1>10 DEF Due
<1>12. Course(Advance(b))
  BY <1>9, <1>10, <1>11, AdvanceCourse
<1> QED BY <1>12 DEF b, n, u, l, c

CourseInv == EngineInv /\ \A o \in Ops : Course(op[o])

LEMMA PutCourse ==
    ASSUME CourseInv, NEW o \in Ops, NEW b, Course(b),
           op' = [op EXCEPT ![o] = b], definition' = definition
    PROVE  (\A x \in Ops : Course(op[x]))'
<1>1. op \in [Ops -> Operation]
  BY DEF CourseInv, EngineInv, TypeOK
<1>2. ASSUME NEW x \in Ops PROVE Course(op[x])'
  <2>1. PICK v : v = op'[x]
    OBVIOUS
  <2>2. Course(v)
    BY <1>1, <2>1 DEF CourseInv
  <2>3. Course(v)'
    BY <2>2 DEF Course, Due, Ahead, Whole, Stages, LoginRequests, Left, Rank, After, Own, Again,
       Fits, Formed, Caught, Asking, Passed, IsAnswered, SearchAnswered, PathUrl, Unfollowed
  <2> QED BY <2>1, <2>3
<1> QED BY <1>2

LEMMA ReceiveCourse ==
    ASSUME CourseInv, NEW o \in Ops, NEW phase, NEW r \in Response, NEW c, NEW next,
           c = op[o].ctx \/ c = Taken(op[o].ctx, r),
           Moves(c, next), Receive(o, phase, r, next)
    PROVE  (\A x \in Ops : Course(op[x]))'
<1>1. /\ op \in [Ops -> Operation] /\ definition \in Definitions /\ op[o].pc = "waiting"
      /\ op[o] \in Operation /\ Fit(op[o].ctx) /\ Course(op[o])
  BY DEF CourseInv, EngineInv, TypeOK, OpsInv, Sound, Receive, Operation, Fit
<1>2. Course(Received(op[o], r, next))
  BY <1>1, ReceivedCourse
<1>3. op' = [op EXCEPT ![o] = Received(op[o], r, next)] /\ definition' = definition
  BY <1>1 DEF Receive, Received
<1> QED BY <1>2, <1>3, PutCourse

LEMMA RespondCourse ==
    ASSUME CourseInv, NEW o \in Ops, Respond(o)
    PROVE  (\A x \in Ops : Course(op[x]))'
<1> DEFINE c == op[o].ctx
<1>1. definition \in Definitions /\ Fit(c) /\ Fits(c)
  BY DEF CourseInv, EngineInv, TypeOK, OpsInv, Sound, Operation, Fit, Course
<1>2. ASSUME NEW r \in Response
      PROVE  Fit(Taken(c, r)) /\ Fits(Taken(c, r)) /\ Taken(c, r).to = c.to
  BY <1>1, TakenFits
<1>3. ASSUME NEW phase, NEW r, NEW next, Receive(o, phase, r, next) PROVE c.to = phase
  BY <1>3 DEF Receive
<1>4. CASE OnLoginLanding(o)
  <2>1. PICK r \in Response :
          Receive(o, "LoginLanding", r, LoginLanding(Taken(op[o].ctx, r), r))
    BY <1>4, ResponseType DEF OnLoginLanding
  <2>2. Moves(Taken(c, r), LoginLanding(Taken(c, r), r))
    BY <1>1, <1>2, <1>3, <2>1, LoginMoves
  <2> QED BY <2>1, <2>2, ReceiveCourse
<1>5. CASE OnSimpleCaptcha(o)
  <2>1. PICK r \in Response :
          Receive(o, "SimpleCaptcha", r, SimpleCaptcha(Taken(op[o].ctx, r), r))
    BY <1>5, ResponseType DEF OnSimpleCaptcha
  <2>2. Moves(Taken(c, r), SimpleCaptcha(Taken(c, r), r))
    BY <1>1, <1>2, <1>3, <2>1, LoginMoves
  <2> QED BY <2>1, <2>2, ReceiveCourse
<1>6. CASE OnLoginSubmit(o)
  <2>1. PICK r \in Response :
          Receive(o, "LoginSubmit", r, LoginSubmit(Taken(op[o].ctx, r), r))
    BY <1>6, ResponseType DEF OnLoginSubmit
  <2>2. Moves(Taken(c, r), LoginSubmit(Taken(c, r), r))
    BY <1>1, <1>2, <1>3, <2>1, LoginMoves
  <2> QED BY <2>1, <2>2, ReceiveCourse
<1>7. CASE OnCaptchaImage(o)
  <2>1. PICK r \in Response :
          Receive(o, "CaptchaImage", r, CaptchaImage(Taken(op[o].ctx, r), r))
    BY <1>7, ResponseType DEF OnCaptchaImage
  <2>2. Moves(Taken(c, r), CaptchaImage(Taken(c, r), r))
    BY <1>1, <1>2, <1>3, <2>1, LoginMoves
  <2> QED BY <2>1, <2>2, ReceiveCourse
<1>8. CASE OnTestConnection(o)
  <2>1. PICK r \in Response :
          Receive(o, "TestConnection", r, TestConnection(op[o].ctx, r))
    BY <1>8, ResponseType DEF OnTestConnection
  <2>2. Moves(c, TestConnection(c, r))
    BY <1>1, <1>3, <2>1, LoginMoves
  <2> QED BY <2>1, <2>2, ReceiveCourse
<1>9. CASE OnSearchResponse(o)
  <2>1. PICK r \in Response :
          Receive(o, "SearchResponse", r, SearchResponse(Taken(op[o].ctx, r), r))
    BY <1>9, ResponseType DEF OnSearchResponse
  <2>2. Moves(Taken(c, r), SearchResponse(Taken(c, r), r))
    BY <1>1, <1>2, <1>3, <2>1, SearchMoves
  <2> QED BY <2>1, <2>2, ReceiveCourse
<1>10. CASE OnGrabResolveBefore(o)
  <2>1. PICK r \in Response :
          Receive(o, "GrabResolveBefore", r, GrabResolveBefore(Taken(op[o].ctx, r), r))
    BY <1>10, ResponseType DEF OnGrabResolveBefore
  <2>2. Moves(Taken(c, r), GrabResolveBefore(Taken(c, r), r))
    BY <1>1, <1>2, <1>3, <2>1, GrabMoves
  <2> QED BY <2>1, <2>2, ReceiveCourse
<1>11. CASE OnGrabBeforeResponse(o)
  <2>1. PICK r \in Response :
          Receive(o, "GrabBeforeResponse", r, GrabBeforeResponse(Taken(op[o].ctx, r), r))
    BY <1>11, ResponseType DEF OnGrabBeforeResponse
  <2>2. Moves(Taken(c, r), GrabBeforeResponse(Taken(c, r), r))
    BY <1>1, <1>2, <1>3, <2>1, GrabMoves
  <2> QED BY <2>1, <2>2, ReceiveCourse
<1>12. CASE OnGrabPage(o)
  <2>1. PICK r \in Response : Receive(o, "GrabPage", r, GrabPage(Taken(op[o].ctx, r), r))
    BY <1>12, ResponseType DEF OnGrabPage
  <2>2. Moves(Taken(c, r), GrabPage(Taken(c, r), r))
    BY <1>1, <1>2, <1>3, <2>1, GrabMoves
  <2> QED BY <2>1, <2>2, ReceiveCourse
<1>13. CASE OnGrabDownload(o)
  <2>1. PICK r \in Response :
          Receive(o, "GrabDownload", r, GrabDownload(Taken(op[o].ctx, r), r))
    BY <1>13, ResponseType DEF OnGrabDownload
  <2>2. Moves(Taken(c, r), GrabDownload(Taken(c, r), r))
    BY <1>1, <1>2, <1>3, <2>1, GrabMoves
  <2> QED BY <2>1, <2>2, ReceiveCourse
<1> QED BY <1>4, <1>5, <1>6, <1>7, <1>8, <1>9, <1>10, <1>11, <1>12, <1>13 DEF Respond

LEMMA StartCourse ==
    ASSUME CourseInv, NEW o \in Ops, Start(o)
    PROVE  (\A x \in Ops : Course(op[x]))'
<1>1. PICK kind \in definition.kinds, setting \in definition.settings,
           answer \in definition.answers, wanted \in definition.wanted,
           supported, expired \in BOOLEAN :
        /\ kind = "captcha" => definition.captcha = "image"
        /\ op' = [op EXCEPT ![o] = Begun(kind, setting, answer, wanted, supported, expired)]
  BY Zenon DEF Start
<1> DEFINE live == Loaded(expired)
           jar == IF setting = NoCookie THEN live.cookie ELSE setting
           s == [live EXCEPT !.cookie = jar]
<1>2. definition \in Definitions /\ stored \in Session \union {NoSession}
  BY DEF CourseInv, EngineInv, TypeOK
<1>3. live \in Session
  <2>1. EmptySession \in Session
    BY DEF EmptySession, Session, Jar
  <2> QED BY <1>2, <2>1 DEF Loaded
<1> HIDE DEF live
<1>4. jar \in Jar /\ s \in Session
  <2>1. setting \in Configured \union {NoCookie}
    BY <1>2, DefinitionType
  <2> QED BY <1>3, <2>1 DEF Jar, Session
<1>5. kind \in Kinds /\ wanted \in SUBSET Nat /\ answer \in BOOLEAN
  BY <1>2, DefinitionType
<1>6. Course(Begun(kind, setting, answer, wanted, supported, expired))
  <2> HIDE DEF s, jar
  <2>1. LET c == Opened(kind, jar, wanted, answer)
        IN  Course(Advance(Opening(s, IF kind = "search" /\ ~supported
                                      THEN [c EXCEPT !.wanted = {}]
                                      ELSE Login(c, Plain))))
    BY <1>2, <1>4, <1>5, BegunCourse
  <2> QED BY <2>1 DEF Begun, s, jar, live
<1>7. definition' = definition
  BY DEF Start
<1> QED BY <1>1, <1>6, <1>7, PutCourse

\* Reading, replacing or losing the cell counts no step before the next one.
LEMMA CellCourse ==
    ASSUME CourseInv, NEW o \in Ops, ReadCell(o) \/ SwapCell(o) \/ LoseCell(o) \/ Abort(o)
    PROVE  (\A x \in Ops : Course(op[x]))'
<1>1. /\ op \in [Ops -> Operation] /\ definition \in Definitions /\ op[o] \in Operation
      /\ Course(op[o]) /\ Course(IdleOperation) /\ Fits(op[o].ctx)
  BY IdleCourse DEF CourseInv, EngineInv, TypeOK, Course
<1>2. ASSUME NEW b, b.ctx = op[o].ctx, b.steps = op[o].steps, b.final = op[o].final,
             b.pc \in {"saving", "swapping"}, op[o].pc \in {"saving", "swapping"}
      PROVE  Course(b)
  BY <1>1, <1>2 DEF Course, Due
<1>3. CASE ReadCell(o)
  <2> DEFINE b == [op[o] EXCEPT !.pc = "swapping", !.expected = stored]
  <2>1. op' = [op EXCEPT ![o] = b] /\ definition' = definition /\ op[o].pc = "saving"
    BY <1>1, <1>3 DEF ReadCell
  <2>2. /\ b.ctx = op[o].ctx /\ b.steps = op[o].steps /\ b.final = op[o].final
        /\ b.pc = "swapping"
    BY <1>1 DEF Operation
  <2> HIDE DEF b
  <2>3. Course(b)
    BY <1>2, <2>1, <2>2
  <2> QED BY <2>1, <2>3, PutCourse
<1>4. CASE LoseCell(o)
  <2> DEFINE n == [op[o] EXCEPT !.pc = "saving", !.expected = NoSession, !.attempts = @ + 1]
             b == IF op[o].attempts + 1 >= MaxAttempts THEN IdleOperation ELSE n
  <2>1. op' = [op EXCEPT ![o] = b] /\ definition' = definition /\ op[o].pc = "swapping"
    BY <1>1, <1>4 DEF LoseCell
  <2>2. /\ n.ctx = op[o].ctx /\ n.steps = op[o].steps /\ n.final = op[o].final
        /\ n.pc = "saving"
    BY <1>1 DEF Operation
  <2> HIDE DEF n
  <2>3. Course(n)
    BY <1>2, <2>1, <2>2
  <2>4. Course(b)
    BY <1>1, <2>3
  <2> HIDE DEF b
  <2> QED BY <2>1, <2>4, PutCourse
<1>5. CASE SwapCell(o)
  <2> DEFINE m == [op[o] EXCEPT !.expected = NoSession]
             n == [m EXCEPT !.attempts = 0]
             b == IF op[o].final THEN IdleOperation ELSE Advance(n)
  <2>1. op' = [op EXCEPT ![o] = b] /\ definition' = definition /\ op[o].pc = "swapping"
    BY <1>1, <1>5 DEF SwapCell
  <2>2. m \in Operation
    BY <1>1 DEF Operation
  <2>3. n \in Operation
    BY <2>2 DEF Operation
  <2>4. n.ctx = op[o].ctx /\ n.steps = op[o].steps /\ n.final = op[o].final
    BY <1>1 DEF Operation
  <2> HIDE DEF m, n
  <2>5. ASSUME ~op[o].final PROVE Course(Advance(n))
    <3>1. op[o].final = FALSE /\ Due(op[o])
      BY <1>1, <2>1, <2>5 DEF Course, Operation
    <3>2. Due(n) /\ n.final = FALSE
      BY <2>4, <3>1 DEF Due
    <3>3. Fits(n.ctx)
      BY <1>1, <2>4
    <3> QED BY <1>1, <2>3, <3>2, <3>3, AdvanceCourse
  <2>6. Course(b)
    BY <1>1, <2>5
  <2> HIDE DEF b
  <2> QED BY <2>1, <2>6, PutCourse
<1>6. CASE Abort(o)
  <2>1. op' = [op EXCEPT ![o] = IdleOperation] /\ definition' = definition
    BY <1>6 DEF Abort
  <2> QED BY <1>1, <2>1, PutCourse
<1> QED BY <1>3, <1>4, <1>5, <1>6

LEMMA InitCourse == Init => CourseInv
<1> SUFFICES ASSUME Init PROVE CourseInv
  OBVIOUS
<1>1. EngineInv /\ definition \in Definitions
  BY InitInv DEF Init
<1>2. \A o \in Ops : op[o] = IdleOperation
  BY DEF Init
<1> QED BY <1>1, <1>2, IdleCourse DEF CourseInv

LEMMA StepCourse == CourseInv /\ [Next]_vars => CourseInv'
<1> SUFFICES ASSUME CourseInv, [Next]_vars PROVE CourseInv'
  OBVIOUS
<1>1. EngineInv'
  BY StepInv DEF CourseInv
<1>2. CASE UNCHANGED vars
  <2>1. ASSUME NEW x \in Ops PROVE Course(op[x])'
    <3>1. PICK v : v = op'[x]
      OBVIOUS
    <3>2. Course(v) /\ definition' = definition
      BY <1>2, <3>1 DEF CourseInv, vars
    <3>3. Course(v)'
      BY <3>2 DEF Course, Due, Ahead, Whole, Stages, LoginRequests, Left, Rank, After, Own, Again,
         Fits, Formed, Caught, Asking, Passed, IsAnswered, SearchAnswered, PathUrl, Unfollowed
    <3> QED BY <3>1, <3>3
  <2> QED BY <1>1, <2>1 DEF CourseInv
<1>3. CASE Next
  <2>1. PICK o \in Ops :
          Start(o) \/ Respond(o) \/ ReadCell(o) \/ SwapCell(o) \/ LoseCell(o) \/ Abort(o)
    BY <1>3 DEF Next
  <2>2. (\A x \in Ops : Course(op[x]))'
    BY <2>1, StartCourse, RespondCourse, CellCourse
  <2> QED BY <1>1, <2>2 DEF CourseInv
<1> QED BY <1>2, <1>3

THEOREM CourseHeld == Spec => []CourseInv
BY InitCourse, StepCourse, PTL DEF Spec

\* A search that completes has an answer to every address that the request's
\* categories ask for, or has taken one to the same address under another path,
\* whatever logins it went through, when the definition follows no redirect of
\* a search.
THEOREM SearchesAnswered == Spec => []UnfollowedSearchAnswered
<1>1. CourseInv => UnfollowedSearchAnswered
  BY DEF CourseInv, Course, Fits, Unfollowed, UnfollowedSearchAnswered
<1> QED BY <1>1, CourseHeld, PTL

\* The steps of an operation are bounded by its definition and the limit on
\* hops, whatever the tracker answers and wherever it redirects to.
THEOREM StepsAreBounded == Spec => []StepsBounded
<1>1. ASSUME CourseInv, NEW o \in Ops
      PROVE  op[o].steps <= (MaxHops + 1) * Stages(op[o].ctx.kind) + 1
  <2> DEFINE b == op[o]
             w == Whole(b.ctx)
             a == Ahead(b.ctx)
  <2>1. definition \in Definitions /\ b \in Operation /\ b.steps \in Nat /\ b.pc \in PCs
        /\ b.ctx \in Context /\ b.ctx.to \in Phases \union Ends /\ Course(b) /\ Fits(b.ctx)
    BY <1>1 DEF CourseInv, EngineInv, TypeOK, Operation, Context, Course
  <2>2. w \in Nat
    BY <2>1, WholeType
  <2>3. b.ctx.to \in Phases => a \in Nat \ {0}
    <3>1. ASSUME b.ctx.to \in Phases PROVE a \in Nat \ {0}
      <4> DEFINE h == MaxHops + 1
                 l == Left(b.ctx)
      <4>1. h \in Nat /\ h = MaxHops + 1 /\ MaxHops \in Nat /\ l \in Nat \ {0}
            /\ b.ctx.hops \in Nat /\ b.ctx.hops <= MaxHops /\ a = h * l - b.ctx.hops
        BY <2>1, <3>1, LeftPositive, LimitsAssumption DEF Fits, Formed, Context, Ahead
      <4> HIDE DEF h, l, a
      <4>2. h * 1 <= h * l /\ h * 1 = h /\ h * l \in Nat
        <5>1. 1 \in Nat /\ 1 <= l /\ l \in Nat
          BY <4>1
        <5> QED BY <4>1, <5>1, Multiples
      <4> QED BY <4>1, <4>2
    <3> QED BY <3>1
  <2> HIDE DEF a
  <2>4. b.steps <= w + 1
    <3>1. CASE b.pc = "idle"
      BY <2>1, <2>2, <3>1 DEF Course
    <3>2. CASE b.pc = "waiting"
      <4>1. b.steps + a <= w + 1 /\ a \in Nat \ {0}
        BY <2>1, <2>3, <3>2 DEF Course, a
      <4> HIDE DEF w, b
      <4> QED BY <2>1, <2>2, <4>1
    <3>3. CASE b.pc \in {"saving", "swapping"}
      <4>1. \/ b.ctx.to \in Phases /\ b.steps + a <= w
            \/ b.ctx.to \in Ends /\ b.steps <= w
            \/ b.steps <= w + 1
        BY <2>1, <3>3 DEF Course, Due, a
      <4> HIDE DEF w, b
      <4> QED BY <2>1, <2>2, <2>3, <4>1
    <3> QED BY <2>1, <3>1, <3>2, <3>3 DEF PCs
  <2> QED BY <2>4 DEF Whole
<1>2. CourseInv => StepsBounded
  BY <1>1 DEF StepsBounded
<1> QED BY <1>2, CourseHeld, PTL
=============================================================================
