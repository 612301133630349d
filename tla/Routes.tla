------------------------------- MODULE Routes -------------------------------
(***************************************************************************)
(* Who may ask what, and what a request does: the two HTTP servers,        *)
(* live.py make_handler on :8080 and admin/server.py make_handler, which   *)
(* asks for a login and forwards a part of its paths to the first.         *)
(*                                                                         *)
(* A request names a path of Paths ("/s/app.js" stands for the assets,     *)
(* "/api/action/reboot" for the destructive actions, "/api/action/logs"    *)
(* for the other one) and carries credentials and the headers that matter. *)
(* An answer says its status, what data it shows and what it changes.      *)
(* Bodies, caching, cookies and the wording of errors are left out.        *)
(***************************************************************************)
EXTENDS Integers

CONSTANT Deadline  \* READ_TIMEOUT_S, in ticks

ASSUME DeadlineAssumption == Deadline \in Nat

VARIABLES
  req,      \* the request at the panel
  phase,    \* "arrived", "upstream", "relaying", "done"
  answer,   \* what the client was told
  runtime,  \* live.py: "up", "down", "wedged" (accepts, never answers)
  waited    \* ticks since the panel forwarded the request

routeVars == <<req, phase, answer, runtime, waited>>

SharePaths == {"/s", "/s/api/snapshot", "/s/api/stream", "/s/api/meta",
               "/s/app.js", "/s/api/history", "/s/api/share"}
OdometerPaths == {"/api/odometer", "/api/odometer/stream"}
Owner == {"/", "/app.js", "/api/meta", "/api/runs", "/api/history", "/api/sync",
          "/api/diagnostics", "/api/modes", "/api/snapshot", "/api/stream",
          "/api/share"}
ProxyGet == {"/api/snapshot", "/api/stream", "/api/meta", "/api/runs",
             "/api/history", "/api/sync", "/api/diagnostics", "/api/modes",
             "/api/share"}
ProxyPost == {"/api/mode", "/api/share", "/api/share/revoke"}
Streams == {"/api/stream", "/s/api/stream", "/api/odometer/stream"}
Destructive == {"/api/action/reboot"}
Actions == Destructive \cup {"/api/action/logs"}
Paths == SharePaths \cup OdometerPaths \cup Owner \cup ProxyPost \cup Actions
           \cup {"/healthz", "/dashboard/", "/api/status", "/nowhere"}

\* SHARE_ALLOWED and the assets, by the path under the prefix.
ShareAllowed == {"/s", "/s/api/snapshot", "/s/api/stream", "/s/api/meta",
                 "/s/app.js"}

\* login: the panel's; link: a share token that is valid; bearer: an API token
\* that is; json, header, confirm: the content type, X-F10-Admin, the body.
Request == [method : {"GET", "POST"}, path : Paths, login : BOOLEAN,
            link : BOOLEAN, bearer : BOOLEAN, json : BOOLEAN,
            header : BOOLEAN, confirm : BOOLEAN]

Say(status, shows, changes) ==
  [status |-> status, shows |-> shows, changes |-> changes]
NotFound == Say(404, "nothing", "nothing")
NoAnswer == Say(0, "nothing", "nothing")

-----------------------------------------------------------------------------
(* live.py *)

\* _serve_share: the token first, then the allowlist.  A dead link is told so
\* on a page of its own.
ServeShare(r) ==
  IF ~r.link THEN Say(200, "denied", "nothing")
  ELSE IF r.path \in ShareAllowed THEN Say(200, "live", "nothing")
  ELSE NotFound

\* The bearer token is judged before anything else is said.
ServeOdometer(r, loaded) ==
  IF ~r.bearer THEN Say(401, "nothing", "nothing")
  ELSE IF ~loaded THEN Say(503, "nothing", "nothing")
  ELSE Say(200, "odometer", "nothing")

\* do_GET, in the order of its tests.
LiveGet(r, loaded) ==
  IF r.path \in SharePaths THEN ServeShare(r)
  ELSE IF r.path \in OdometerPaths THEN ServeOdometer(r, loaded)
  ELSE IF r.path \in Owner THEN Say(200, "owner", "nothing")
  ELSE NotFound

\* do_POST: nothing under the share prefix, and three paths elsewhere.
LivePost(r) ==
  IF r.path = "/api/mode" THEN Say(200, "nothing", "polling")
  ELSE IF r.path \in {"/api/share", "/api/share/revoke"}
    THEN Say(200, "nothing", "links")
  ELSE NotFound

Live(r, loaded) == IF r.method = "GET" THEN LiveGet(r, loaded) ELSE LivePost(r)

-----------------------------------------------------------------------------
(* The panel *)

\* Mutation: the owner's list of links passes for the share surface.
OpenSharing(r) ==
  \/ r.path \in SharePaths \cup {"/api/share", "/api/share/revoke"}
  \/ r.method = "GET" /\ r.path \in OdometerPaths

\* What is forwarded without the login.
Open(r) ==
  \/ r.path \in SharePaths
  \/ r.method = "GET" /\ r.path \in OdometerPaths

\* ... and with it: a POST only if its body is declared as JSON.
Forwarded(r) ==
  \/ r.method = "GET" /\ r.path \in ProxyGet
  \/ r.method = "POST" /\ r.path \in ProxyPost /\ r.json

\* _proxy: the panel's own login stops here, and a bearer token goes through
\* on the odometer paths only.
Upstream(r) ==
  [r EXCEPT !.login = FALSE, !.bearer = r.bearer /\ r.path \in OdometerPaths]

\* POST /api/action/<name>
Act(r) ==
  IF ~r.header THEN Say(403, "nothing", "nothing")
  ELSE IF r.path \in Destructive /\ ~r.confirm THEN Say(400, "nothing", "nothing")
  ELSE IF r.path \in Destructive THEN Say(200, "nothing", "host")
  ELSE Say(200, "owner", "nothing")

\* What the panel answers itself.
Panel(r) ==
  IF r.method = "GET" /\ r.path = "/healthz" THEN Say(200, "nothing", "nothing")
  ELSE IF ~r.login THEN Say(401, "nothing", "nothing")
  ELSE IF r.method = "GET"
    THEN IF r.path \in {"/", "/dashboard/", "/api/status"}
           THEN Say(200, "owner", "nothing") ELSE NotFound
  ELSE IF r.path \in ProxyPost THEN Say(403, "nothing", "nothing")
  ELSE IF r.path \in Actions THEN Act(r)
  ELSE NotFound

RouteInit ==
  /\ req \in Request
  /\ phase = "arrived" /\ answer = NoAnswer /\ waited = 0
  /\ runtime \in {"up", "down", "wedged"}

\* do_GET, do_POST
Dispatch ==
  /\ phase = "arrived"
  /\ IF Open(req) \/ (req.login /\ Forwarded(req))
       THEN phase' = "upstream" /\ UNCHANGED answer
       ELSE phase' = "done" /\ answer' = Panel(req)
  /\ UNCHANGED <<req, runtime, waited>>

\* The runtime answers; a stream goes on until one side ends it.
Relay ==
  /\ phase = "upstream" /\ runtime = "up"
  /\ \E loaded \in BOOLEAN : answer' = Live(Upstream(req), loaded)
  /\ phase' = IF req.path \in Streams /\ answer'.status = 200
                   /\ answer'.shows # "denied" THEN "relaying" ELSE "done"
  /\ UNCHANGED <<req, runtime, waited>>

\* Mutation: nobody gives up on a runtime that does not answer.
GiveUpOnRefusal == runtime = "down"

\* A refused connection, or the deadline: for a stream there is none.
GivesUp ==
  runtime = "down" \/ (waited >= Deadline /\ req.path \notin Streams)

\* _runtime_down
RuntimeDown ==
  /\ phase = "upstream" /\ GivesUp
  /\ answer' = Say(503, "nothing", "nothing")
  /\ phase' = "done"
  /\ UNCHANGED <<req, runtime, waited>>

Wait ==
  /\ phase = "upstream" /\ waited < Deadline
  /\ waited' = waited + 1
  /\ UNCHANGED <<req, phase, answer, runtime>>

\* Either end of a stream goes away.
StreamEnds ==
  /\ phase = "relaying"
  /\ phase' = "done"
  /\ UNCHANGED <<req, answer, runtime, waited>>

\* The runtime is restarted, or hangs.
RuntimeChanges ==
  /\ phase # "done"
  /\ runtime' \in {"up", "down", "wedged"} \ {runtime}
  /\ UNCHANGED <<req, phase, answer, waited>>

RouteStep == Dispatch \/ Relay \/ RuntimeDown \/ Wait
RouteNext == RouteStep \/ StreamEnds \/ RuntimeChanges

RouteSpec == RouteInit /\ [][RouteNext]_routeVars

-----------------------------------------------------------------------------
(* Properties *)

\* Without the login the panel changes nothing and shows nothing but what a
\* live link or the bearer token is for (admin/server.py:1548-1640).
NoLoginNoEffect ==
  ~req.login =>
    /\ answer.changes = "nothing"
    /\ answer.shows = "live" => req.link
    /\ answer.shows = "odometer" => req.bearer
    /\ answer.shows \in {"nothing", "denied", "live", "odometer"}

\* A request that is not a stream is answered, even by a runtime that accepts
\* the connection and says nothing (admin/server.py:207-212, 1385-1390).
RequestEnds == (phase = "upstream" /\ req.path \notin Streams) ~> phase = "done"
=============================================================================
