-------------------------- MODULE CardigannEngine ---------------------------
(***************************************************************************)
(* The Cardigann engine of src/indexers/cardigann-engine/src/runtime.rs:   *)
(* searches, grabs, connection tests and CAPTCHA checks of one configured  *)
(* indexer, each a chain of tracker requests that logs in first, follows   *)
(* redirects, logs in once more when the session proves lost, and shares a *)
(* persisted cookie session with the operations that run beside it.        *)
(*                                                                         *)
(* drive_operation is the actor: it sends the pending request, merges the  *)
(* response's cookies into the session it will persist, and hands the      *)
(* response to resume, whose arms are the On... actions.  (The arm that    *)
(* takes a CAPTCHA answer is never resumed: the driver asks for one only   *)
(* when the settings have none, and then ends the operation.)              *)
(* The tracker is unconstrained: any response may answer any request.      *)
(***************************************************************************)
EXTENDS Integers, FiniteSets, Sequences

CONSTANTS
    Ops,
    Definitions,        \* the compiled definitions (and settings) considered
    MaxRunning,         \* BOUND: per definition, operations that run at once
    Urls, BaseUrl,      \* addresses, each standing for its host too
    SameSite,           \* the pairs that same_site_urls accepts
    Cookies,            \* values a tracker may give the session cookie
    Configured,         \* values the cookie setting may have
    Landings,           \* what a login page may contain
    MaxHops,            \* 5 in follow_redirect
    MaxSteps,           \* MAX_OPERATION_STEPS, 64
    MaxAttempts,        \* STATE_WRITE_ATTEMPTS, 8
    NoCookie, NoSession, NoUrl

Kinds == {"test", "captcha", "search", "grab"}
Logins == {"none", "cookie", "form", "direct", "unsupported"}

\* What decides a definition's control: its login block, its search paths
\* with their rendered URLs, and its download block.
Definition ==
    [login : Logins, loginTest : BOOLEAN, captcha : {"none", "image", "other"},
     loginUrl : Urls, grabUrl : Urls, follow : BOOLEAN,
     paths : Seq(Urls), get : SUBSET Nat, followed : SUBSET Nat,
     download : BOOLEAN, before : {"none", "resolve", "plain"}, useBefore : BOOLEAN,
     selectors : Nat, infohash : BOOLEAN, testLink : BOOLEAN,
     kinds : SUBSET Kinds, wanted : SUBSET SUBSET Nat,
     settings : SUBSET (Configured \union {NoCookie}), answers : SUBSET BOOLEAN]

ASSUME DefinitionsAssumption == Definitions \subseteq Definition
ASSUME UrlsAssumption == BaseUrl \in Urls /\ NoUrl \notin Urls
ASSUME LimitsAssumption == MaxHops \in Nat /\ MaxSteps \in Nat /\ MaxAttempts \in Nat \ {0}
ASSUME CookiesAssumption == NoCookie \notin Cookies \union Configured

VARIABLES
    definition,         \* the indexer's definition; it never changes
    stored,             \* the session cell of the component's state
    op,                 \* per operation: drive_operation's locals
    persisted           \* history: the cookies that were ever stored

vars == <<definition, stored, op, persisted>>

Jar == Cookies \union Configured \union {NoCookie}
Session == [cookie : Jar, dated : BOOLEAN]      \* dated: expires_at_millis is set
EmptySession == [cookie |-> NoCookie, dated |-> FALSE]

ASSUME NoSessionAssumption == NoSession \notin Session

Phases == {"LoginLanding", "LoginSubmit", "SimpleCaptcha", "CaptchaImage", "TestConnection",
           "SearchResponse", "GrabResolveBefore", "GrabBeforeResponse", "GrabPage",
           "GrabDownload"}
Ends == {"complete", "rejected", "error", "manual"}

LandingParts == {"form", "simple", "image", "foreign"}
ASSUME LandingsAssumption == Landings \subseteq SUBSET LandingParts

\* Context, and under `to` the step that carries it.
Context ==
    [to : Phases \union Ends, kind : Kinds, jar : Jar, config : Jar,
     url : Urls \union {NoUrl}, sent : Jar, hops : Nat, relogin : 0..1,
     wanted : SUBSET Nat, path : Nat \ {0}, seen : SUBSET Urls, answered : SUBSET Nat,
     answer : BOOLEAN, selection : BOOLEAN,
     body : (SUBSET LandingParts) \union {{"before"}}, index : Nat]

NewContext ==
    [to |-> "complete", kind |-> "search", jar |-> NoCookie, config |-> NoCookie,
     url |-> NoUrl, sent |-> NoCookie, hops |-> 0, relogin |-> 0,
     wanted |-> {}, path |-> 1, seen |-> {}, answered |-> {},
     answer |-> FALSE, selection |-> FALSE, body |-> {}, index |-> 0]

PCs == {"idle", "waiting", "saving", "swapping"}

Operation == [pc : PCs, steps : Nat, final : BOOLEAN, attempts : Nat,
              expected : Session \union {NoSession}, session : Session, ctx : Context]

IdleOperation == [pc |-> "idle", steps |-> 0, final |-> FALSE, attempts |-> 0,
                  expected |-> NoSession, session |-> EmptySession, ctx |-> NewContext]

TypeOK ==
    /\ definition \in Definitions
    /\ stored \in Session \union {NoSession}
    /\ op \in [Ops -> Operation]
    /\ persisted \subseteq Jar

Init ==
    /\ definition \in Definitions
    /\ stored = NoSession
    /\ op = [o \in Ops |-> IdleOperation]
    /\ persisted = {}

-----------------------------------------------------------------------------
(* Responses, and what a request carries.                                  *)

Links == {"none", "magnet", "unusable"} \union Urls

\* A class per test the code makes: the status, a redirect's Location, the
\* cookie it sets (or deletes, or leaves), whether a page shows a logged-in
\* user, and the link that the next matching download selector finds.
Response ==
    [status : {"ok", "redirect", "denied", "failed"}, location : Urls \union {NoUrl},
     cookie : Cookies \union {"keep", "delete"}, page : {"in", "out", "untyped", "bad"},
     landing : SUBSET LandingParts, link : Links, passed : Nat]

Plain == [status |-> "ok", location |-> NoUrl, cookie |-> "keep", page |-> "in",
          landing |-> {}, link |-> "none", passed |-> 0]

\* Whatever else it is, a response may set or delete the cookie.
SetCookies == Cookies \union {"keep", "delete"}

Failure(s, c) == [Plain EXCEPT !.status = s, !.cookie = c]
RedirectTo(u, c) == [Plain EXCEPT !.status = "redirect", !.location = u, !.cookie = c]
Page(p, c) == [Plain EXCEPT !.page = p, !.cookie = c]
LandingPage(l, c) == [Plain EXCEPT !.landing = l, !.cookie = c]
LinkPage(p, l, n, c) == [Plain EXCEPT !.page = p, !.link = l, !.passed = n, !.cookie = c]

StatusOnly == {Failure(s, c) : s \in {"denied", "failed"}, c \in SetCookies}
Redirects == {RedirectTo(u, c) : u \in Urls \union {NoUrl}, c \in SetCookies}
Pages == {Page(p, c) : p \in {"in", "out", "bad"}, c \in SetCookies}
LandingPages == {LandingPage(l, c) : l \in Landings, c \in SetCookies}
LinkPages == {LinkPage(p, l, n, c) : p \in {"in", "out"}, l \in Links, n \in 0..1, c \in SetCookies}
\* Only GrabDownload tells these from a page that is "out" or "in".
Downloads == {LinkPage(p, l, n, c) : p \in {"untyped", "bad"}, l \in Links, n \in 0..1, c \in SetCookies}

OnSite(url) == <<BaseUrl, url>> \in SameSite

\* merge_response_cookies on one jar
Merged(jar, r) == CASE r.cookie = "keep"   -> jar
                    [] r.cookie = "delete" -> NoCookie
                    [] OTHER               -> r.cookie

Taken(c, r) == [c EXCEPT !.jar = Merged(@, r)]

\* need_http: the request is built from the context's jar, and loses its
\* cookies when it leaves the configured site.
Ask(c, phase, url) ==
    [c EXCEPT !.to = phase, !.url = url, !.hops = 0,
              !.sent = IF OnSite(url) THEN c.jar ELSE NoCookie]

End(c, how) == [c EXCEPT !.to = how]

IsFollowed(r, enabled) == r.status = "redirect" /\ enabled

\* Mutant: only the hop is looked at, not the site the cookies are for.
FollowHopOnly(c, r) ==
    IF r.location = NoUrl \/ c.hops >= MaxHops
    THEN End(c, "error")
    ELSE [c EXCEPT !.url = r.location, !.hops = @ + 1,
                   !.sent = IF <<c.url, r.location>> \notin SameSite THEN NoCookie
                            ELSE IF c.jar # NoCookie THEN c.jar ELSE @]

\* follow_redirect and need_redirect.  A jar that a response emptied leaves
\* the previous request's cookie header in place.
Follow(c, r) ==
    IF r.location = NoUrl \/ c.hops >= MaxHops
    THEN End(c, "error")
    ELSE [c EXCEPT !.url = r.location, !.hops = @ + 1,
                   !.sent = IF <<c.url, r.location>> \notin SameSite \/ ~OnSite(r.location)
                            THEN NoCookie
                            ELSE IF c.jar # NoCookie THEN c.jar ELSE @]

-----------------------------------------------------------------------------
(* What the operation asks for, once it may start.                         *)

PathUrl(p) == definition.paths[p]
Gets(p) == p \in definition.get

\* The paths next_search may still ask for: wanted by the request's
\* categories, and no GET for an address it has asked for already.
Unasked(c) == {p \in c.path..Len(definition.paths) :
                  p \in c.wanted /\ ~(Gets(p) /\ PathUrl(p) \in c.seen)}

\* next_search, with its skipped paths taken at once
NextSearch(c) ==
    IF Unasked(c) = {}
    THEN End(c, "complete")
    ELSE LET p == CHOOSE q \in Unasked(c) : \A x \in Unasked(c) : q <= x
         IN  Ask([c EXCEPT !.path = p,
                           !.seen = IF Gets(p) THEN @ \union {PathUrl(p)} ELSE @],
                 "SearchResponse", PathUrl(p))

\* Mutant: a link is asked for without a look at its scheme.
CompleteGrabUnchecked(c, link) ==
    IF link = "magnet" THEN End(c, "complete") ELSE Ask(c, "GrabDownload", link)

\* complete_grab
CompleteGrab(c, link) ==
    CASE link = "magnet"   -> End(c, "complete")
      [] link = "unusable" -> End(c, "rejected")
      [] OTHER             -> Ask(c, "GrabDownload", link)

\* next_grab_selector: of the selectors left, some find nothing and are
\* passed over, and the next finds the link.
NextSelector(c, r) ==
    IF c.index + r.passed >= definition.selectors \/ r.link = "none"
    THEN End(c, "rejected")
    ELSE CompleteGrab([c EXCEPT !.index = @ + r.passed + 1], r.link)

FinishGrab(c, r) ==
    IF definition.infohash
    THEN End(c, IF r.link = "magnet" THEN "complete" ELSE "error")
    ELSE NextSelector([c EXCEPT !.index = 0], r)

\* continue_grab_after_before
AfterBefore(c, r) ==
    IF c.body # {} /\ definition.useBefore
    THEN FinishGrab(c, r)
    ELSE IF definition.selectors = 0 /\ ~definition.infohash
         THEN CompleteGrab(c, definition.grabUrl)
         ELSE Ask(c, "GrabPage", definition.grabUrl)

\* begin_grab; a before block's own address is on the configured site.
BeginGrab(c, r) ==
    IF ~definition.download
    THEN CompleteGrab(c, definition.grabUrl)
    ELSE CASE definition.before = "resolve" -> Ask(c, "GrabResolveBefore", definition.grabUrl)
           [] definition.before = "plain"   -> Ask(c, "GrabBeforeResponse", definition.grabUrl)
           [] OTHER                         -> AfterBefore(c, r)

\* continue_operation
Continue(c, r) ==
    CASE c.kind \in {"test", "captcha"} -> Ask(c, "TestConnection", BaseUrl)
      [] c.kind = "search"              -> NextSearch(c)
      [] c.kind = "grab"                -> BeginGrab(c, r)

-----------------------------------------------------------------------------
(* Login.                                                                  *)

\* begin_after_optional_login, direct_login
Login(c, r) ==
    CASE definition.login \in {"none", "cookie"} -> Continue(c, r)
      [] definition.login = "form"               -> Ask(c, "LoginLanding", definition.loginUrl)
      [] definition.login = "direct"             -> Ask(c, "LoginSubmit", definition.loginUrl)
      [] OTHER                                   -> End(c, "rejected")

\* submit_form_login on a landing page
SubmitForm(c, landing) ==
    IF "simple" \in landing /\ ~c.selection
    THEN Ask([c EXCEPT !.body = landing], "SimpleCaptcha", definition.loginUrl)
    ELSE IF definition.captcha # "none" /\ ~c.answer
    THEN LET kept == [c EXCEPT !.body = landing]
         IN  CASE definition.captcha = "image" /\ "image" \in landing ->
                      Ask(kept, "CaptchaImage", definition.loginUrl)
               [] definition.captcha = "image" /\ "foreign" \in landing -> End(kept, "error")
               [] OTHER -> End(kept, "manual")
    ELSE IF "form" \in landing
    THEN Ask(c, "LoginSubmit", definition.loginUrl)
    ELSE End(c, "error")

\* The login test fails on a page; a torrent that has no content type is
\* tested like a page.
LoggedOut(r) == r.page \in {"out", "untyped"} /\ definition.loginTest
LoginLost(r) == definition.login # "none" /\ (r.status # "ok" \/ LoggedOut(r))

\* Mutant: the URL that provoked the login still counts as asked for.
ReloginSeen(c, r) == Login([c EXCEPT !.relogin = 1, !.jar = c.config], r)

\* retry_login_if_needed up to its second attempt
Relogin(c, r) ==
    Login([c EXCEPT !.relogin = 1, !.jar = c.config, !.seen = @ \ {c.url}], r)

\* Mutant: every lost login is followed by another.
CheckedAgain(c, r, good) ==
    IF LoginLost(r) THEN Relogin(c, r)
    ELSE IF r.status # "ok" THEN End(c, "rejected") ELSE good

\* The head the search and grab arms share: log in again once when the login
\* is lost, refuse a cookie login that is lost twice and any other status
\* but success (http_status_failure), else go on with `good`.
Checked(c, r, good) ==
    IF LoginLost(r) /\ c.relogin = 0
    THEN Relogin(c, r)
    ELSE IF r.status # "ok" \/ (LoginLost(r) /\ definition.login = "cookie")
    THEN End(c, "rejected")
    ELSE good

-----------------------------------------------------------------------------
(* The arms of resume.                                                     *)

LoginLanding(c, r) ==
    CASE IsFollowed(r, TRUE) -> Follow(c, r)
      [] r.status = "ok"     -> SubmitForm(c, r.landing)
      [] OTHER               -> End(c, "rejected")

SimpleCaptcha(c, r) ==
    CASE r.status # "ok" -> End(c, "rejected")
      [] r.page = "bad"  -> End(c, "error")
      [] OTHER           -> SubmitForm([c EXCEPT !.selection = TRUE, !.body = {}], c.body)

LoginSubmit(c, r) ==
    CASE IsFollowed(r, TRUE)                  -> Follow(c, r)
      [] r.status # "ok" \/ r.page = "bad"    -> End(c, "rejected")
      [] OTHER                                -> Continue(c, r)

CaptchaImage(c, r) == End(c, IF r.status = "ok" THEN "manual" ELSE "rejected")

TestConnection(c, r) ==
    CASE IsFollowed(r, definition.follow)      -> Follow(c, r)
      [] r.status = "ok" /\ ~LoggedOut(r)      -> End(c, "complete")
      [] OTHER                                 -> End(c, "rejected")

FollowsSearch(p) == definition.follow \/ p \in definition.followed

SearchResponse(c, r) ==
    IF IsFollowed(r, FollowsSearch(c.path))
    THEN Follow(c, r)
    ELSE Checked(c, r,
             IF r.page = "bad"
             THEN End(c, "rejected")
             ELSE NextSearch([c EXCEPT !.answered = @ \union {c.path}, !.path = @ + 1]))

GrabResolveBefore(c, r) ==
    IF IsFollowed(r, definition.follow)
    THEN Follow(c, r)
    ELSE Checked(c, r, IF r.link \in Urls
                       THEN Ask(c, "GrabBeforeResponse", r.link)
                       ELSE End(c, "error"))

GrabBeforeResponse(c, r) ==
    IF IsFollowed(r, definition.follow)
    THEN Follow(c, r)
    ELSE Checked(c, r, AfterBefore([c EXCEPT !.body = {"before"}], r))

GrabPage(c, r) ==
    IF IsFollowed(r, definition.follow)
    THEN Follow(c, r)
    ELSE Checked(c, r, FinishGrab(c, r))

\* A link that was tried and is no torrent gives way to the next selector;
\* complete_grab_response refuses a page or an oversized body.
GrabDownload(c, r) ==
    IF IsFollowed(r, definition.follow)
    THEN Follow(c, r)
    ELSE Checked(c, r,
             CASE r.page \in {"in", "untyped"}           -> End(c, "complete")
               [] c.index > 0 /\ definition.testLink     -> NextSelector(c, r)
               [] OTHER                                  -> End(c, "rejected"))

-----------------------------------------------------------------------------
(* drive_operation.                                                        *)

Running == {o \in Ops : op[o].pc # "idle"}

\* One iteration of the loop on the step in hand: send its request, persist
\* before completing, or end.
Advance(b) ==
    IF b.steps >= MaxSteps \/ b.ctx.to \in {"rejected", "error", "manual"}
    THEN IdleOperation
    ELSE IF b.ctx.to = "complete"
    THEN [b EXCEPT !.pc = "saving", !.final = TRUE, !.steps = @ + 1]
    ELSE [b EXCEPT !.pc = "waiting", !.steps = @ + 1]

\* The stored session, unless its 30 days are over
Loaded(expired) ==
    LET cell == IF stored = NoSession THEN EmptySession ELSE stored
    IN  IF expired /\ cell.dated THEN EmptySession ELSE cell

Opened(kind, jar, wanted, answer) ==
    [NewContext EXCEPT !.kind = kind, !.jar = jar, !.config = jar,
                       !.wanted = IF kind = "search" THEN wanted ELSE {},
                       !.answer = answer /\ kind # "captcha"]

Opening(session, ctx) == [IdleOperation EXCEPT !.session = session, !.ctx = ctx]

\* The cookie setting goes over the stored jar, and begin asks for the login
\* or completes an unsupported search.
Begun(kind, setting, answer, wanted, supported, expired) ==
    LET live == Loaded(expired)
        jar  == IF setting = NoCookie THEN live.cookie ELSE setting
        ctx  == Opened(kind, jar, wanted, answer)
    IN  Advance(Opening([live EXCEPT !.cookie = jar],
                        IF kind = "search" /\ ~supported
                        THEN [ctx EXCEPT !.wanted = {}]
                        ELSE Login(ctx, Plain)))

Start(o) ==
    /\ op[o].pc = "idle"
    /\ Cardinality(Running) < MaxRunning[definition]
    /\ \E kind \in definition.kinds, setting \in definition.settings,
          answer \in definition.answers, wanted \in definition.wanted,
          supported, expired \in BOOLEAN :
          /\ kind = "captcha" => definition.captcha = "image"
          /\ op' = [op EXCEPT ![o] = Begun(kind, setting, answer, wanted, supported, expired)]
    /\ UNCHANGED <<definition, stored, persisted>>

\* Mutants: the session is persisted when the operation completes only; a
\* refreshed session takes over the expiry it replaces.
ReceiveUnsaved(o, phase, r, next) ==
    /\ op[o].pc = "waiting" /\ op[o].ctx.to = phase
    /\ LET jar == Merged(op[o].session.cookie, r)
       IN  op' = [op EXCEPT ![o] =
                     Advance([@ EXCEPT !.ctx = next,
                                       !.session = [cookie |-> jar, dated |-> jar # NoCookie]])]
    /\ UNCHANGED <<definition, stored, persisted>>

ReceiveUndated(o, phase, r, next) ==
    /\ op[o].pc = "waiting" /\ op[o].ctx.to = phase
    /\ LET jar == Merged(op[o].session.cookie, r)
       IN  op' = [op EXCEPT ![o] =
                     IF jar = @.session.cookie
                     THEN Advance([@ EXCEPT !.ctx = next])
                     ELSE [@ EXCEPT !.pc = "saving", !.ctx = next, !.session.cookie = jar]]
    /\ UNCHANGED <<definition, stored, persisted>>

\* The response reaches the driver, which persists the session first when its
\* cookies changed; `next` is the step resume makes of the response.
Receive(o, phase, r, next) ==
    /\ op[o].pc = "waiting" /\ op[o].ctx.to = phase
    /\ LET jar == Merged(op[o].session.cookie, r)
       IN  op' = [op EXCEPT ![o] =
                     IF jar = @.session.cookie
                     THEN Advance([@ EXCEPT !.ctx = next])
                     ELSE [@ EXCEPT !.pc = "saving", !.ctx = next,
                                    !.session = [cookie |-> jar, dated |-> jar # NoCookie]]]
    /\ UNCHANGED <<definition, stored, persisted>>

OnLoginLanding(o) == \E r \in LandingPages \union Redirects \union StatusOnly :
    Receive(o, "LoginLanding", r, LoginLanding(Taken(op[o].ctx, r), r))
OnSimpleCaptcha(o) == \E r \in Pages \union StatusOnly :
    Receive(o, "SimpleCaptcha", r, SimpleCaptcha(Taken(op[o].ctx, r), r))
OnLoginSubmit(o) == \E r \in Pages \union Redirects \union StatusOnly :
    Receive(o, "LoginSubmit", r, LoginSubmit(Taken(op[o].ctx, r), r))
OnCaptchaImage(o) == \E r \in Pages \union StatusOnly :
    Receive(o, "CaptchaImage", r, CaptchaImage(Taken(op[o].ctx, r), r))
\* This arm alone leaves the context's jar as it is.
OnTestConnection(o) == \E r \in Pages \union Redirects \union StatusOnly :
    Receive(o, "TestConnection", r, TestConnection(op[o].ctx, r))
OnSearchResponse(o) == \E r \in Pages \union Redirects \union StatusOnly :
    Receive(o, "SearchResponse", r, SearchResponse(Taken(op[o].ctx, r), r))
GrabAnswers == Pages \union LinkPages \union Redirects \union StatusOnly
OnGrabResolveBefore(o) == \E r \in GrabAnswers :
    Receive(o, "GrabResolveBefore", r, GrabResolveBefore(Taken(op[o].ctx, r), r))
OnGrabBeforeResponse(o) == \E r \in GrabAnswers :
    Receive(o, "GrabBeforeResponse", r, GrabBeforeResponse(Taken(op[o].ctx, r), r))
OnGrabPage(o) == \E r \in GrabAnswers :
    Receive(o, "GrabPage", r, GrabPage(Taken(op[o].ctx, r), r))
OnGrabDownload(o) == \E r \in GrabAnswers \union Downloads :
    Receive(o, "GrabDownload", r, GrabDownload(Taken(op[o].ctx, r), r))

\* state_set reads the cell it is about to replace ...
ReadCell(o) ==
    /\ op[o].pc = "saving"
    /\ op' = [op EXCEPT ![o].pc = "swapping", ![o].expected = stored]
    /\ UNCHANGED <<definition, stored, persisted>>

\* ... and replaces it, whole, when no one did meanwhile
SwapCell(o) ==
    /\ op[o].pc = "swapping" /\ stored = op[o].expected
    /\ stored' = op[o].session
    /\ persisted' = persisted \union {op[o].session.cookie}
    /\ op' = [op EXCEPT ![o] =
                 IF @.final THEN IdleOperation
                 ELSE Advance([@ EXCEPT !.expected = NoSession, !.attempts = 0])]
    /\ UNCHANGED definition

LoseCell(o) ==
    /\ op[o].pc = "swapping" /\ stored # op[o].expected
    /\ op' = [op EXCEPT ![o] =
                 IF op[o].attempts + 1 >= MaxAttempts THEN IdleOperation
                 ELSE [op[o] EXCEPT !.pc = "saving", !.expected = NoSession,
                                    !.attempts = @ + 1]]
    /\ UNCHANGED <<definition, stored, persisted>>

\* The request cannot be paced before the deadline or fails, or the component
\* is torn down wherever the operation stands.
Abort(o) ==
    /\ op[o].pc # "idle"
    /\ op' = [op EXCEPT ![o] = IdleOperation]
    /\ UNCHANGED <<definition, stored, persisted>>

Respond(o) ==
    \/ OnLoginLanding(o) \/ OnSimpleCaptcha(o) \/ OnLoginSubmit(o) \/ OnCaptchaImage(o)
    \/ OnTestConnection(o) \/ OnSearchResponse(o)
    \/ OnGrabResolveBefore(o) \/ OnGrabBeforeResponse(o) \/ OnGrabPage(o) \/ OnGrabDownload(o)

Next == \E o \in Ops :
    Start(o) \/ Respond(o) \/ ReadCell(o) \/ SwapCell(o) \/ LoseCell(o) \/ Abort(o)

Spec == Init /\ [][Next]_vars

-----------------------------------------------------------------------------
(* Properties.                                                             *)

\* A search that completes has asked for every address it was to ask for and
\* taken an answer to it, re-login in between or not, as long as none of its
\* requests follows a redirect.
SearchAnswered(c) ==
    \A p \in c.wanted \cap (1..Len(definition.paths)) :
        \E q \in c.answered : PathUrl(q) = PathUrl(p)

UnfollowedSearchAnswered ==
    \A o \in Ops :
        (/\ op[o].ctx.to = "complete"
         /\ ~definition.follow /\ definition.followed = {})
            => SearchAnswered(op[o].ctx)

\* The same of every search, as the comment on the re-login promises
\* (runtime.rs:2860-2862).
ReissuedAfterLogin == \A o \in Ops : op[o].ctx.to = "complete" => SearchAnswered(op[o].ctx)

\* No request to an address outside the configured site carries a cookie,
\* however the redirects that led there crossed sites.
CookieStaysOnSite ==
    \A o \in Ops : op[o].ctx.sent # NoCookie => OnSite(op[o].ctx.url)

\* The cookie a request carries is a setting, or was persisted before: a
\* session the tracker granted is never in use while only an operation that
\* may be aborted knows it.
PersistedBeforeSent ==
    \A o \in Ops : op[o].pc = "waiting" =>
        op[o].ctx.sent \in {NoCookie} \union Configured \union persisted

\* A stored session that holds a cookie of the tracker expires, whichever
\* operation stored it last.
StoredSessionExpires ==
    stored # NoSession /\ stored.cookie \in Cookies \ Configured => stored.dated

\* Requests an operation may make besides its redirects: those of two logins,
\* and its own, of which a re-login repeats one (a search) or all (a grab).
LoginRequests == CASE definition.login = "form"   -> 3
                   [] definition.login = "direct" -> 1
                   [] OTHER                       -> 0
Stages(kind) ==
    2 * LoginRequests
      + CASE kind = "search" -> Len(definition.paths) + 1
          [] kind = "grab"   -> 2 * (4 + definition.selectors)
          [] OTHER           -> 1

\* An operation's steps are bounded by its definition alone: the step limit
\* of drive_operation is out of reach when Stages * (MaxHops + 1) < MaxSteps.
StepsBounded ==
    \A o \in Ops : op[o].steps <= (MaxHops + 1) * Stages(op[o].ctx.kind) + 1
=============================================================================
