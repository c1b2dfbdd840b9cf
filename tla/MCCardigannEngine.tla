------------------------- MODULE MCCardigannEngine --------------------------
(***************************************************************************)
(* Definitions that between them take every branch: searches behind a      *)
(* form (with a simple CAPTCHA), behind a cookie setting and in the open,  *)
(* the last two with two operations at once; connection tests and CAPTCHA  *)
(* checks; grabs over a before request, selectors, an infohash or none.    *)
(* "cdn" is on the site of "root" but not on the configured site, so a     *)
(* chain of redirects can leave the site one step at a time and come back. *)
(***************************************************************************)
EXTENDS CardigannEngine, TLC

Plainest ==
    [login |-> "none", loginTest |-> TRUE, captcha |-> "none",
     loginUrl |-> "login", grabUrl |-> "www", follow |-> FALSE,
     paths |-> <<"page">>, get |-> {1, 2}, followed |-> {},
     download |-> TRUE, before |-> "none", useBefore |-> FALSE,
     selectors |-> 0, infohash |-> FALSE, testLink |-> FALSE,
     kinds |-> {"search"}, wanted |-> {{1}},
     settings |-> {"none"}, answers |-> {FALSE}]

FormSearch == [Plainest EXCEPT !.login = "form", !.paths = <<"page", "www">>,
                               !.wanted = {{1, 2}, {2}}]
CookieSearch == [Plainest EXCEPT !.login = "cookie", !.settings = {"set"}]
OpenSearch == [Plainest EXCEPT !.followed = {1}]
Captcha == [Plainest EXCEPT !.login = "form", !.captcha = "image", !.follow = TRUE,
                            !.kinds = {"captcha", "test"}, !.answers = BOOLEAN]
OtherCaptcha == [Captcha EXCEPT !.captcha = "other", !.kinds = {"test"}]
NoLogin == [Plainest EXCEPT !.login = "unsupported"]
Grab == [Plainest EXCEPT !.login = "direct", !.kinds = {"grab"}, !.before = "resolve",
                         !.useBefore = TRUE, !.selectors = 2, !.testLink = TRUE]
GrabHash == [Plainest EXCEPT !.kinds = {"grab"}, !.before = "plain", !.infohash = TRUE,
                             !.follow = TRUE]
GrabAway == [Plainest EXCEPT !.login = "cookie", !.kinds = {"grab"}, !.grabUrl = "cdn",
                             !.download = FALSE, !.settings = {"set"}, !.follow = TRUE]

MCDefinitions == {FormSearch, CookieSearch, OpenSearch, Captcha, OtherCaptcha, NoLogin,
                  Grab, GrabHash, GrabAway}
MCRunning == [d \in MCDefinitions |-> IF d \in {CookieSearch, OpenSearch} THEN 2 ELSE 1]

\* A search behind a form whose redirects are followed.
FollowedSearch == [FormSearch EXCEPT !.follow = TRUE]
MCFollowed == {FollowedSearch}
MCFollowedRunning == [d \in MCFollowed |-> 1]

MCUrls == {"www", "page", "login", "root", "cdn"}
MCSameSite == {p \in MCUrls \X MCUrls :
                  "cdn" \in {p[1], p[2]} => {p[1], p[2]} \subseteq {"cdn", "root"}}
MCLandings == {{"form"}, {"form", "simple"}, {"form", "image"}, {"form", "foreign"}, {}}
MCSymmetry == Permutations(Ops)
=============================================================================
