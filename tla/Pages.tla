------------------------------- MODULE Pages -------------------------------
(***************************************************************************)
(* The pages of the web interface (edda-web): reactive components that     *)
(* load what they show (use_resource) and send what their reader clicks    *)
(* (spawn), against a server whose answers arrive in any order or not at   *)
(* all.  A panel is a component, or a part of one that shares no signal    *)
(* and no resource with the rest of it.                                    *)
(*                                                                         *)
(* A page is four tables over the names of its buttons and forms:          *)
(*   Effects   which resources' answers the request changes on the server  *)
(*   Spawned   what its handler does to the page, before and after the     *)
(*             request                                                     *)
(*   Signalled what a handler without a request does                       *)
(*   View      when the page offers it                                     *)
(* What a resource holds is its version.  Texts, error messages and the    *)
(* reader's input are left out.                                            *)
(***************************************************************************)
EXTENDS Integers, FiniteSets, TLC

CONSTANT MaxClicks      \* bound, by panel: clicks that send a request or pick something

VARIABLES
  panel,    \* the panel on the screen
  left,     \* whether a handler has navigated away from it
  up,       \* its raised signals: forms shown, requests under way
  db,       \* the server: the version each resource would be answered with
  loading,  \* the version a resource's fetch was sent at, 0 if there is none
  shown,    \* the version it shows: 0 at first, Failed, or Assumed
  told,     \* the last version whose writing the page has been told of
  held,     \* the one-time secrets on display, by version, 0 for none
  calls,    \* the requests under way
  clicks

vars == <<panel, left, up, db, loading, shown, told, held, calls, clicks>>

Failed  == -1     \* the fetch ended in an error, which the page shows
Assumed == -2     \* the page concludes without asking

(***************************************************************************)
(* Forms of handlers.                                                      *)
(***************************************************************************)
Ending == [raises |-> {}, lowers |-> {}, gives |-> {}, takes |-> {},
           starts |-> {}, leaves |-> FALSE]
Leaving == [Ending EXCEPT !.leaves = TRUE]

\* if request().await.is_ok() { resources restart }
Bare(restarts) ==
  [flag |-> {}, ok |-> {[Ending EXCEPT !.starts = restarts]}, err |-> Ending,
   sets |-> {}]

\* flag.set(true); ...await; flag.set(false), with the restart in between
Guarded(flag, restarts) == [Bare(restarts) EXCEPT !.flag = {flag}]

\* a success puts a value on display that the server gives once
Giving(handler, secret) ==
  [handler EXCEPT !.ok = {[o EXCEPT !.gives = {secret}] : o \in @}]

\* a success hides the form
Hiding(handler, signals) ==
  [handler EXCEPT !.ok = {[o EXCEPT !.lowers = signals] : o \in @}]

\* what a click on something that is no request does to the signals
Signal(raises, lowers) ==
  [raises |-> raises, lowers |-> lowers, takes |-> {}, starts |-> {}, drops |-> {}]
Picking(restarts) == [Signal({}, {}) EXCEPT !.starts = restarts]

\* offered inside the loaded view of some resources, with signals up and down
Offer(within, needs, hides, disabled) ==
  [within |-> within, needs |-> needs, hides |-> hides \cup disabled]

(***************************************************************************)
(* Signing in: login.rs, signup.rs, reset_password.rs and the navigation   *)
(* bar above every page, which asks once who is signed in.                 *)
(***************************************************************************)
LoginEffects == [f \in {"login", "login_totp", "login_passkey"} |-> {"auth"}]

LoginSpawned ==
  [login |-> [Guarded("submitting", {}) EXCEPT
      !.ok = {Leaving, [Ending EXCEPT !.raises = {"pending_totp"},
                                      !.starts = {"webauthn_options"}]}],
   login_totp    |-> [Guarded("submitting", {})    EXCEPT !.ok = {Leaving}],
   login_passkey |-> [Guarded("webauthn_busy", {}) EXCEPT !.ok = {Leaving}]]

LoginView ==
  [login         |-> Offer({}, {}, {"pending_totp"}, {"submitting"}),
   login_totp    |-> Offer({}, {"pending_totp"}, {}, {"submitting"}),
   login_passkey |-> Offer({"webauthn_options"}, {"pending_totp"}, {}, {"webauthn_busy"})]

SignupEffects == [signup |-> {"auth"}]

SignupSpawned ==
  [signup |-> [Guarded("submitting", {}) EXCEPT
                 !.ok = {Leaving, [Ending EXCEPT !.raises = {"pending_notice"}]}]]

SignupView == [signup |-> Offer({}, {}, {}, {"submitting"})]

ResetEffects == [f \in {"request_reset", "consume_reset"} |-> {}]

\* a request for a link ends the same way whatever the server says
ResetRequest ==
  [request_reset |-> LET sent == [Ending EXCEPT !.raises = {"requested"}]
                     IN [Guarded("submitting", {}) EXCEPT !.ok = {sent}, !.err = sent]]
ResetConsume ==
  [consume_reset |-> [Guarded("submitting", {}) EXCEPT
                        !.ok = {[Ending EXCEPT !.raises = {"done"}]}]]

ResetView ==
  [request_reset |-> Offer({}, {}, {"requested"}, {"submitting"}),
   consume_reset |-> Offer({}, {}, {"done"}, {"submitting"})]

\* the answer of the sign-out request is not looked at
NavbarSpawned ==
  [sign_out |-> [Bare({}) EXCEPT !.sets = {"auth"}, !.ok = {Leaving}, !.err = Leaving]]

NavbarView == [sign_out |-> Offer({"auth"}, {}, {}, {})]

(***************************************************************************)
(* The list of repositories: home.rs, components/repo.rs.  Typing a search *)
(* that nothing matches unmounts the row that creates a repository, and    *)
(* with it the request it has under way.                                   *)
(***************************************************************************)
HomeEffects == [sign_out |-> {"auth"}, create_repo |-> {"repos"}]

HomeSpawned == [create_repo |-> Hiding(Bare({"repos"}), {"creating"})]

HomeSignalled ==
  [open_row     |-> Signal({"creating"}, {}),
   escape       |-> Signal({}, {"creating"}),
   search       |-> [Signal({"nothing_matches"}, {"creating"}) EXCEPT !.drops = {"create_repo"}],
   clear_search |-> Signal({}, {"nothing_matches"})]

HomeView ==
  [create_repo  |-> Offer({"auth", "repos"}, {"creating"}, {"nothing_matches"}, {}),
   open_row     |-> Offer({"auth", "repos"}, {}, {"creating", "nothing_matches"}, {}),
   escape       |-> Offer({"auth", "repos"}, {"creating"}, {"nothing_matches"}, {}),
   search       |-> Offer({"auth", "repos"}, {}, {"nothing_matches"}, {}),
   clear_search |-> Offer({"auth", "repos"}, {"nothing_matches"}, {}, {})]

(***************************************************************************)
(* A repository's page: repo.rs.  Its tabs are resources that read the     *)
(* chosen branch, path, file, commit and query: to choose is to change     *)
(* what they are asked for, and each of them asks again by itself.         *)
(***************************************************************************)
RepoEffects ==
  [watch |-> {"subscription"}, visibility |-> {"repo"}, description |-> {"repo"},
   fork |-> {}, delete_repo |-> {}]

\* watch restarts its resource whatever the answer
WatchSpawned ==
  [watch |-> [Guarded("watch_pending", {"subscription"}) EXCEPT
                !.err = [Ending EXCEPT !.starts = {"subscription"}]]]

VisibilityAndFork ==
  [visibility |-> Guarded("visibility_pending", {"repo"}),
   fork       |-> [Guarded("fork_pending", {}) EXCEPT !.ok = {Leaving}]]

DescriptionSpawned == [description |-> Hiding(Bare({"repo"}), {"editing_description"})]

DeleteSpawned ==
  [delete_repo |-> [Bare({}) EXCEPT !.ok = {Leaving},
                      !.err = [Ending EXCEPT !.lowers = {"confirming_delete"}]]]

RepoSignalled ==
  [edit_description |-> Signal({"editing_description"}, {}),
   cancel_edit      |-> Signal({}, {"editing_description"}),
   ask_delete       |-> Signal({"confirming_delete"}, {}),
   cancel_delete    |-> Signal({}, {"confirming_delete"})]

RepoView ==
  [watch            |-> Offer({"repo"}, {}, {}, {"watch_pending"}),
   visibility       |-> Offer({"repo"}, {}, {}, {"visibility_pending"}),
   fork             |-> Offer({"repo"}, {}, {}, {"fork_pending"}),
   description      |-> Offer({"repo"}, {"editing_description"}, {}, {}),
   cancel_edit      |-> Offer({"repo"}, {"editing_description"}, {}, {}),
   edit_description |-> Offer({"repo"}, {}, {"editing_description"}, {}),
   delete_repo      |-> Offer({"repo"}, {"confirming_delete"}, {}, {}),
   cancel_delete    |-> Offer({"repo"}, {"confirming_delete"}, {}, {}),
   ask_delete       |-> Offer({"repo"}, {}, {"confirming_delete"}, {})]

\* which of a repository's tabs read what was chosen
BrowseSignalled ==
  [pick_branch |-> [Picking({"tree", "blob", "commits", "readme", "results"}) EXCEPT
                      !.lowers = {"viewing_file"}],
   pick_path   |-> Picking({"tree", "readme"}),
   pick_file   |-> [Picking({"blob", "readme"}) EXCEPT !.raises = {"viewing_file"}],
   close_file  |-> [Picking({"blob", "readme"}) EXCEPT !.lowers = {"viewing_file"}],
   files_tab   |-> [Picking({"commits", "readme"}) EXCEPT !.lowers = {"commits_tab", "search_tab"}],
   commits_tab |-> [Picking({"commits", "readme"}) EXCEPT !.raises = {"commits_tab"},
                                                          !.lowers = {"search_tab"}],
   search_tab  |-> [Picking({"commits", "readme"}) EXCEPT !.raises = {"search_tab"},
                                                          !.lowers = {"commits_tab"}],
   pick_commit |-> Picking({"diff"}),
   run_search  |-> Picking({"results"})]

BrowseView ==
  LET files == {"commits_tab", "search_tab"} IN
  [pick_branch |-> Offer({"branches"}, {}, {}, {}),
   pick_path   |-> Offer({"tree"}, {}, files \cup {"viewing_file"}, {}),
   pick_file   |-> Offer({"tree"}, {}, files \cup {"viewing_file"}, {}),
   close_file  |-> Offer({}, {"viewing_file"}, files, {}),
   files_tab   |-> Offer({}, {}, {}, {}),
   commits_tab |-> Offer({}, {}, {"commits_tab"}, {}),
   search_tab  |-> Offer({}, {}, {"search_tab"}, {}),
   pick_commit |-> Offer({"commits"}, {"commits_tab"}, {}, {}),
   run_search  |-> Offer({}, {"search_tab"}, {}, {})]

\* the README is looked up in the tree that was answered
Follow == [r \in {"tree"} |-> {"readme"}]

(***************************************************************************)
(* Issues: issues.rs and api/issues.rs.                                    *)
(***************************************************************************)
IssueEffects ==
  [f \in {"open_issue"} |-> {"issues"}] @@
  [f \in {"comment_issue", "assign", "unassign", "toggle_state", "apply_label"} |-> {"issue"}] @@
  [f \in {"create_label"} |-> {"labels"}]

IssuesSpawned == [open_issue |-> Hiding(Guarded("submitting", {"issues"}), {"show_form"})]

IssuesView == [open_issue |-> Offer({}, {"show_form"}, {}, {"submitting"})]

CommentAssignSpawned ==
  [f \in {"comment_issue", "assign", "unassign"} |-> Guarded("busy", {"issue"})]
ToggleStateSpawned == [toggle_state |-> Guarded("busy", {"issue"})]

\* restarts whatever the answer
ApplyLabelSpawned ==
  [apply_label |-> [Bare({"issue"}) EXCEPT !.err = [Ending EXCEPT !.starts = {"issue"}]]]
CreateLabelSpawned == [create_label |-> Bare({"labels"})]

IssueDetailView ==
  [f \in {"comment_issue", "assign", "unassign", "toggle_state"} |->
      Offer({"issue"}, {}, {}, {"busy"})] @@
  [apply_label |-> Offer({"issue", "labels"}, {}, {}, {})] @@
  [create_label |-> Offer({}, {}, {}, {})]

(***************************************************************************)
(* Pull requests: pulls.rs and api/pulls.rs.                               *)
(***************************************************************************)
PullButtons == {"comment_pull", "approve", "request_changes", "merge", "close_pull",
                "toggle_draft", "request_review", "cancel_review_request"}

PullEffects == [f \in {"open_pull"} |-> {"pulls"}] @@ [f \in PullButtons |-> {"pull"}]

PullsSpawned == [open_pull |-> Hiding(Guarded("submitting", {"pulls"}), {"show_form"})]

PullsView == [open_pull |-> Offer({}, {"show_form"}, {}, {"submitting"})]

PullDetailSpawned == [f \in PullButtons |-> Guarded("busy", {"pull"})]

PullDetailView == [f \in PullButtons |-> Offer({"pull"}, {}, {}, {"busy"})]

(***************************************************************************)
(* Releases, organizations, teams, webhooks, notifications.                *)
(***************************************************************************)
ReleaseEffects == [create_release |-> {"releases"}]
ReleasesSpawned == [create_release |-> Hiding(Guarded("submitting", {"releases"}), {"show_form"})]
ReleasesView == [create_release |-> Offer({}, {"show_form"}, {}, {"submitting"})]

OrgEffects  == [create_org |-> {"orgs"}]
OrgsForm    == [create_org |-> Guarded("submitting", {"orgs"})]
OrgsView    == [create_org |-> Offer({}, {}, {}, {"submitting"})]
TeamsForm   == [create_team |-> Guarded("submitting", {"teams"})]
TeamsView   == [create_team |-> Offer({"org"}, {}, {}, {"submitting"})]

TeamEffects == [create_team |-> {"teams"}] @@
  [f \in {"set_permission", "add_member", "remove_member"} |-> {"team"}]
AddMemberSpawned == [add_member |-> Guarded("submitting", {"team"})]
TeamSpawned == [f \in {"set_permission", "remove_member"} |-> Bare({"team"})]
TeamView ==
  [f \in {"set_permission", "remove_member"} |-> Offer({"team"}, {}, {}, {})] @@
  [add_member |-> Offer({"team"}, {}, {}, {"submitting"})]

WebhookEffects == [f \in {"create_webhook", "delete_webhook"} |-> {"webhooks"}]
CreateWebhookSpawned ==
  [create_webhook |-> Giving(Guarded("submitting", {"webhooks"}), "webhook_secret")]
WebhooksSpawned == [delete_webhook |-> Bare({"webhooks"})]
WebhooksSignalled == [dismiss_webhook_secret |-> [Signal({}, {}) EXCEPT !.takes = {"webhook_secret"}]]
WebhooksView ==
  [create_webhook |-> Offer({}, {}, {}, {"submitting"}),
   delete_webhook |-> Offer({"webhooks"}, {}, {}, {}),
   dismiss_webhook_secret |-> Offer({}, {"webhook_secret"}, {}, {})]

NotificationEffects == [mark_read |-> {"notifications", "unread"}]
NotificationsSpawned == [mark_read |-> Bare({"notifications"})]
NotificationsView == [mark_read |-> Offer({"notifications"}, {}, {}, {})]

\* the buttons that show and hide the form of a list
FormToggle == [show_form |-> Signal({"show_form"}, {}), hide_form |-> Signal({}, {"show_form"})]
FormToggleView ==
  [show_form |-> Offer({}, {}, {"show_form"}, {}),
   hide_form |-> Offer({}, {"show_form"}, {}, {})]

(***************************************************************************)
(* Settings: settings.rs.  Each section is a panel.                        *)
(***************************************************************************)
KeyEffects   == [f \in {"add_key", "revoke_key"} |-> {"keys"}]
TokenEffects == [f \in {"create_token", "revoke_token"} |-> {"tokens"}]
TotpEffects  == [totp_enroll |-> {"totp_secret"}, totp_activate |-> {"totp"}, totp_disable |-> {"totp"}]
PasskeyEffects == [f \in {"add_passkey", "revoke_passkey"} |-> {"passkeys"}]
EmailEffects == [toggle_email |-> {"email"}]

AddKeySpawned      == [add_key |-> Guarded("submitting", {"keys"})]
CreateTokenSpawned == [create_token |-> Giving(Guarded("token_submitting", {"tokens"}), "token")]

TotpSpawned ==
  [totp_enroll   |-> Giving(Guarded("totp_busy", {}), "enrollment"),
   totp_activate |-> [Guarded("totp_busy", {}) EXCEPT
                        !.ok = {[Ending EXCEPT !.gives = {"codes"}, !.takes = {"enrollment"}]}],
   totp_disable  |-> [Guarded("totp_busy", {}) EXCEPT
                        !.ok = {[Ending EXCEPT !.takes = {"codes", "enrollment"}]}]]

\* nothing is restarted: the box goes on showing what was fetched first
EmailSpawned == [toggle_email |-> Guarded("email_notifications_busy", {})]

AddPasskeySpawned == [add_passkey |-> Guarded("webauthn_busy", {"passkeys"})]

KeysView ==
  [add_key    |-> Offer({}, {}, {}, {"submitting"}),
   revoke_key |-> Offer({"keys"}, {}, {}, {})]
RevokeKeySpawned == [revoke_key |-> Bare({"keys"})]

TokensView ==
  [create_token  |-> Offer({}, {}, {}, {"token_submitting"}),
   revoke_token  |-> Offer({"tokens"}, {}, {}, {}),
   dismiss_token |-> Offer({}, {"token"}, {}, {})]
RevokeTokenSpawned == [revoke_token |-> Bare({"tokens"})]
TokensSignalled == [dismiss_token |-> [Signal({}, {}) EXCEPT !.takes = {"token"}]]

TotpView ==
  [totp_enroll   |-> Offer({}, {}, {"codes", "enrollment"}, {"totp_busy"}),
   totp_activate |-> Offer({}, {"enrollment"}, {"codes"}, {"totp_busy"}),
   totp_disable  |-> Offer({}, {}, {"codes", "enrollment"}, {"totp_busy"})]

PasskeysView ==
  [add_passkey    |-> Offer({"webauthn_enabled"}, {}, {}, {"webauthn_busy"}),
   revoke_passkey |-> Offer({"webauthn_enabled", "passkeys"}, {}, {}, {})]
RevokePasskeySpawned == [revoke_passkey |-> Bare({"passkeys"})]

EmailView == [toggle_email |-> Offer({}, {}, {}, {"email_notifications_busy"})]

(***************************************************************************)
(* Administration: admin.rs and admin_routes.rs.  Every request is written *)
(* to the audit log, and most change what the system section counts.       *)
(***************************************************************************)
UserEffects == [set_disabled |-> {"users", "events"}, delete_user |-> {"users", "events", "system"}]
SettingsEffects == [save_settings |-> {"events"}]
AdminRepoEffects == [delete_admin_repo |-> {"admin_repos", "events", "system"}]
JobEffects == [f \in {"retry_job", "cancel_job"} |-> {"jobs", "events", "system"}]
ScheduledEffects == [f \in {"run_scheduled", "toggle_scheduled"} |-> {"scheduled", "events"}]

AdminActions ==
  [f \in {"retry_job", "cancel_job"} |-> Bare({"jobs"})] @@
  [f \in {"delete_admin_repo"} |-> Bare({"admin_repos"})] @@
  [f \in {"run_scheduled", "toggle_scheduled"} |-> Bare({"scheduled"})]

AdminActionsView ==
  [f \in {"retry_job", "cancel_job"} |-> Offer({"jobs"}, {}, {}, {})] @@
  [f \in {"delete_admin_repo"} |-> Offer({"admin_repos"}, {}, {}, {})] @@
  [f \in {"run_scheduled", "toggle_scheduled"} |-> Offer({"scheduled"}, {}, {}, {})]

UserActions == [f \in {"set_disabled", "delete_user"} |-> Bare({"users"})]
UserActionsView == [f \in {"set_disabled", "delete_user"} |-> Offer({"users"}, {}, {}, {})]

\* the form is its own component: it shows the reader's values, not the settings it was
\* opened with, which are not fetched again
SettingsFormSpawned == [save_settings |-> Guarded("saving", {})]
SettingsFormView == [save_settings |-> Offer({"settings"}, {}, {}, {"saving"})]

(***************************************************************************)
(* The pages.                                                              *)
(***************************************************************************)
Effects ==
  LoginEffects @@ SignupEffects @@ ResetEffects @@ HomeEffects @@ RepoEffects @@
  IssueEffects @@ PullEffects @@ ReleaseEffects @@ OrgEffects @@ TeamEffects @@
  WebhookEffects @@ NotificationEffects @@ KeyEffects @@ TokenEffects @@ TotpEffects @@
  PasskeyEffects @@ EmailEffects @@ UserEffects @@ SettingsEffects @@ AdminRepoEffects @@
  JobEffects @@ ScheduledEffects

Spawned ==
  LoginSpawned @@ SignupSpawned @@ ResetRequest @@ ResetConsume @@ NavbarSpawned @@
  HomeSpawned @@ WatchSpawned @@ VisibilityAndFork @@ DescriptionSpawned @@ DeleteSpawned @@
  IssuesSpawned @@ CommentAssignSpawned @@ ToggleStateSpawned @@ ApplyLabelSpawned @@
  CreateLabelSpawned @@ PullsSpawned @@ PullDetailSpawned @@ ReleasesSpawned @@ OrgsForm @@
  TeamsForm @@ AddMemberSpawned @@ TeamSpawned @@ CreateWebhookSpawned @@ WebhooksSpawned @@
  NotificationsSpawned @@ AddKeySpawned @@ RevokeKeySpawned @@ CreateTokenSpawned @@
  RevokeTokenSpawned @@ TotpSpawned @@ EmailSpawned @@ AddPasskeySpawned @@
  RevokePasskeySpawned @@ AdminActions @@ UserActions @@ SettingsFormSpawned

Signalled ==
  HomeSignalled @@ RepoSignalled @@ BrowseSignalled @@ FormToggle @@ WebhooksSignalled @@
  TokensSignalled

View ==
  LoginView @@ SignupView @@ ResetView @@ NavbarView @@ HomeView @@ RepoView @@ BrowseView @@
  IssuesView @@ IssueDetailView @@ PullsView @@ PullDetailView @@ ReleasesView @@ OrgsView @@
  TeamsView @@ TeamView @@ WebhooksView @@ NotificationsView @@ FormToggleView @@ KeysView @@
  TokensView @@ TotpView @@ PasskeysView @@ EmailView @@ AdminActionsView @@ UserActionsView @@
  SettingsFormView

\* the buttons and forms of each panel
Buttons ==
  [login |-> DOMAIN LoginView, signup |-> DOMAIN SignupView, reset |-> DOMAIN ResetView,
   home |-> DOMAIN NavbarView \cup DOMAIN HomeView, repo |-> DOMAIN RepoView,
   browse |-> DOMAIN BrowseView,
   issues |-> DOMAIN IssuesView \cup DOMAIN FormToggle, issue |-> DOMAIN IssueDetailView,
   pulls |-> DOMAIN PullsView \cup DOMAIN FormToggle, pull |-> DOMAIN PullDetailView,
   releases |-> DOMAIN ReleasesView \cup DOMAIN FormToggle, orgs |-> DOMAIN OrgsView,
   org |-> DOMAIN TeamsView, team |-> DOMAIN TeamView, webhooks |-> DOMAIN WebhooksView,
   notifications |-> DOMAIN NotificationsView, keys |-> DOMAIN KeysView,
   tokens |-> DOMAIN TokensView, totp |-> DOMAIN TotpView, passkeys |-> DOMAIN PasskeysView,
   email |-> DOMAIN EmailView, settings |-> DOMAIN SettingsFormView,
   admin |-> DOMAIN AdminActionsView \cup DOMAIN UserActionsView]

\* what the navigation bar and the panels fetch when they are mounted
Navbar == {"auth", "unread"}
RepoLoads   == [repo |-> {"repo", "subscription"}]
BrowseLoads == [browse |-> {"branches", "tree", "blob", "commits", "readme", "diff", "results"}]
AdminLoads  == [admin |-> {"users", "events", "system", "admin_repos", "jobs", "scheduled"}]
Loads ==
  RepoLoads @@ BrowseLoads @@ AdminLoads @@
  [login |-> {"auth", "oauth", "welcome"}, signup |-> {"auth"}, reset |-> {},
   home |-> {"auth", "repos"}, issues |-> {"issues"}, issue |-> {"issue", "labels"},
   pulls |-> {"pulls"}, pull |-> {"pull"}, releases |-> {"releases"}, orgs |-> {"orgs"},
   org |-> {"org", "teams"}, team |-> {"team"}, webhooks |-> {"webhooks"},
   notifications |-> {"notifications", "unread"}, keys |-> {"keys"}, tokens |-> {"tokens"},
   totp |-> {}, passkeys |-> {"webauthn_enabled", "passkeys"}, email |-> {"email"},
   settings |-> {"settings", "events"}]

ASSUME ClicksAssumption == MaxClicks \in [DOMAIN Loads -> Nat \ {0}]

\* the resources a panel shows, and what its requests change
Of(p) ==
  Loads[p] \cup (IF p = "login" THEN {"webauthn_options"} ELSE {}) \cup
  UNION {Effects[f] : f \in Buttons[p] \cap DOMAIN Effects}
Secrets   == {"token", "webhook_secret", "enrollment", "codes"}
Flags     == UNION {Spawned[f].flag : f \in DOMAIN Spawned}

\* the writes whose result the page that makes them does not fetch again: the reader sees
\* it on the next visit
Untended ==
  {"login", "login_totp", "login_passkey", "signup"} \X {"auth"} \cup
  {<<"mark_read", "unread">>, <<"toggle_email", "email">>} \cup
  (DOMAIN AdminActions \cup DOMAIN UserActions \cup DOMAIN SettingsFormSpawned) \X {"events", "system"}

\* every way a request can end, and what is ever fetched again
Endings(f) == Spawned[f].ok \cup {Spawned[f].err}
Restarts ==
  (UNION {UNION {e.starts : e \in Endings(f)} : f \in DOMAIN Spawned}) \cup
  (UNION {Signalled[f].starts : f \in DOMAIN Signalled}) \cup
  (UNION {Follow[r] : r \in DOMAIN Follow})
Gives(f, s) == \E e \in Endings(f) : s \in e.gives

\* a request's flag disables its own button, and nothing else touches a flag
FlagsGuard ==
  /\ \A f \in DOMAIN Spawned :
       /\ Spawned[f].flag \subseteq View[f].hides
       /\ \A e \in Endings(f) : e.leaves \in BOOLEAN /\ (e.raises \cup e.lowers) \cap Flags = {}
  /\ \A f \in DOMAIN Signalled :
       /\ (Signalled[f].raises \cup Signalled[f].lowers) \cap Flags = {}
       /\ \A g \in DOMAIN Spawned : g \in Signalled[f].drops => Spawned[g].flag = {}

\* what a request writes is its page's, and a success fetches it again, unless it is Untended,
\* the page goes away with it, concludes it by itself, or never shows it
WritesTended ==
  \A p \in DOMAIN Loads : \A f \in Buttons[p] \cap DOMAIN Spawned :
      /\ f \in DOMAIN Effects /\ Effects[f] \subseteq Of(p)
      /\ Spawned[f].sets \subseteq View[f].within \ Restarts
      /\ \A e \in Spawned[f].ok : \A r \in Effects[f] :
           \/ <<f, r>> \in Untended \/ r \in e.starts
           \/ e.leaves /\ r \notin Navbar
           \/ r \in Spawned[f].sets
           \/ r \notin Loads[p] \cup Restarts

\* a secret has one giver, which writes something and has a flag; who takes it gives the codes
\* for the enrolment, or is not offered while it is on display nor beside its giver
SecretsGuard ==
  \A f \in DOMAIN Spawned : \A e \in Endings(f) :
    /\ e.gives # {} => Effects[f] # {} /\ e # Spawned[f].err
    /\ \A s \in e.gives : \A g \in DOMAIN Spawned :
         Gives(g, s) => f = g /\ Spawned[f].flag # {}
    /\ \A s \in e.takes : s \in Secrets /\
         \/ s = "enrollment" /\ "codes" \in e.gives
         \/ /\ s \in View[f].hides
            /\ \A g \in DOMAIN Spawned : Gives(g, s) => Spawned[f].flag \cap Spawned[g].flag # {}

\* that the tables are as the code's pages have them
ASSUME TablesAssumption == FlagsGuard /\ WritesTended /\ SecretsGuard

(***************************************************************************)
(* The behaviour of a page.                                                *)
(***************************************************************************)
OnScreen == up \cup {s \in Secrets : held[s] > 0}

Answered(r) == shown[r] > 0 \/ shown[r] = Assumed

Offered(f) ==
  /\ ~left
  /\ \A r \in View[f].within : Answered(r)
  /\ View[f].needs \subseteq OnScreen
  /\ View[f].hides \cap OnScreen = {}

\* mutant: a restart is ignored while a fetch is under way
Restarted_Waits(restarts, version) ==
  [r \in Of(panel) |-> IF r \in restarts /\ loading[r] = 0 THEN version[r] ELSE loading[r]]
\* a restart drops the fetch under way and sends another
Restarted(restarts, version) ==
  [r \in Of(panel) |-> IF r \in restarts THEN version[r] ELSE loading[r]]

Init ==
  /\ panel \in DOMAIN Loads
  /\ left = FALSE
  /\ up = {}
  /\ db = [r \in Of(panel) |-> 1]
  /\ loading = [r \in Of(panel) |-> IF r \in Loads[panel] THEN 1 ELSE 0]
  /\ shown = [r \in Of(panel) |-> 0]
  /\ told = [r \in Of(panel) |-> 1]
  /\ held = [s \in Secrets |-> 0]
  /\ calls = {}
  /\ clicks = 0

\* a click or a submit that sends a request
Send(f) ==
  /\ Offered(f) /\ clicks < MaxClicks[panel]
  /\ clicks' = clicks + 1
  /\ up' = up \cup Spawned[f].flag
  /\ calls' = calls \cup {[form |-> f, no |-> clicks', served |-> FALSE,
                          wrote |-> [r \in Effects[f] |-> 0]]}
  /\ UNCHANGED <<panel, left, db, loading, shown, told, held>>

\* a click that only changes signals; what it picks, the resources ask for anew
Pick(f) ==
  LET s == Signalled[f] IN
  /\ Offered(f)
  /\ s.starts # {} => clicks < MaxClicks[panel]
  /\ clicks' = IF s.starts = {} THEN clicks ELSE clicks + 1
  /\ up' = (up \ s.lowers) \cup s.raises
  /\ db' = [r \in Of(panel) |-> IF r \in s.starts THEN db[r] + 1 ELSE db[r]]
  /\ told' = [r \in Of(panel) |-> IF r \in s.starts THEN db'[r] ELSE told[r]]
  /\ loading' = Restarted(s.starts, db')
  /\ held' = [x \in Secrets |-> IF x \in s.takes THEN 0 ELSE held[x]]
  /\ calls' = {c \in calls : c.form \notin s.drops}
  /\ UNCHANGED <<panel, left, shown>>

\* the server carries the request out
Serve(c) ==
  /\ ~c.served
  /\ db' = [r \in Of(panel) |-> IF r \in Effects[c.form] THEN db[r] + 1 ELSE db[r]]
  /\ calls' = (calls \ {c}) \cup
       {[c EXCEPT !.served = TRUE, !.wrote = [r \in Effects[c.form] |-> db'[r]]]}
  /\ UNCHANGED <<panel, left, up, loading, shown, told, held, clicks>>

\* mutant: an error returns before the flag is lowered
SignalsAfter_Returns(c, ending) ==
  IF ending.leaves THEN {} ELSE (up \ ending.lowers) \cup ending.raises
SignalsAfter(c, ending) ==
  IF ending.leaves THEN {}
  ELSE (up \ (Spawned[c.form].flag \cup ending.lowers)) \cup ending.raises

\* mutant: the sections of a page share the signal that holds what was given
DisplayedAfter_OneSignal(c, ending) ==
  [s \in Secrets |-> IF s \in ending.gives THEN c.wrote[CHOOSE r \in Effects[c.form] : TRUE] ELSE 0]
DisplayedAfter(c, ending) ==
  [s \in Secrets |-> IF s \in ending.gives THEN c.wrote[CHOOSE r \in Effects[c.form] : TRUE]
                     ELSE IF s \in ending.takes THEN 0 ELSE held[s]]

\* the handler goes on after its await; one that navigates away takes the page, its
\* fetches and its requests with it
Resume(c, ending) ==
  /\ left' = ending.leaves
  /\ up' = SignalsAfter(c, ending)
  /\ loading' = [r \in Of(panel) |->
                   IF ending.leaves /\ r \notin Navbar THEN 0
                   ELSE Restarted(ending.starts, db)[r]]
  /\ shown' = [r \in Of(panel) |-> IF r \in Spawned[c.form].sets THEN Assumed ELSE shown[r]]
  /\ held' = DisplayedAfter(c, ending)
  /\ calls' = IF ending.leaves THEN {} ELSE calls \ {c}
  /\ UNCHANGED <<panel, db, clicks>>

Succeed(c) ==
  /\ c.served
  /\ \E ending \in Spawned[c.form].ok : Resume(c, ending)
  /\ told' = [r \in Of(panel) |->
                IF r \in Effects[c.form] /\ <<c.form, r>> \notin Untended /\ c.wrote[r] > told[r]
                THEN c.wrote[r] ELSE told[r]]

\* refused by the server, or carried out and its answer lost
Fail(c) == Resume(c, Spawned[c.form].err) /\ UNCHANGED told

\* a resource's fetch is answered as of some moment since it was sent, or fails
FetchEnds(r) ==
  /\ loading[r] > 0
  /\ \E v \in loading[r]..db[r] \cup {Failed} : shown' = [shown EXCEPT ![r] = v]
  /\ loading' = [Restarted(IF r \in DOMAIN Follow THEN Follow[r] ELSE {}, db) EXCEPT ![r] = 0]
  /\ UNCHANGED <<panel, left, up, db, told, held, calls, clicks>>

Next ==
  \/ \E f \in Buttons[panel] \cap DOMAIN Spawned : Send(f)
  \/ \E f \in Buttons[panel] \cap DOMAIN Signalled : Pick(f)
  \/ \E c \in calls : Serve(c) \/ Succeed(c) \/ Fail(c)
  \/ \E r \in Of(panel) : FetchEnds(r)

Spec == Init /\ [][Next]_vars

(***************************************************************************)
(* Properties.                                                             *)
(***************************************************************************)

\* A busy flag is up exactly while one request that raised it is under way, however the
\* buttons that share it are clicked and however their requests end: a button is never
\* left disabled, and none sends beside another that shares its flag
\* (`busy.set(true)` ... `busy.set(false)` and `disabled: busy()` on every page).
FlagsMeanCalls ==
  \A g \in Flags :
    Cardinality({c \in calls : g \in Spawned[c.form].flag}) = IF g \in up THEN 1 ELSE 0

\* Once a page has been told that its reader's write succeeded, or the reader has picked
\* something, no resource that depends on it goes on showing an older answer unless it is
\* being fetched: with answers of several requests and fetches in any order, the restarts
\* after the awaits bring the page up to its own writes (what they leave out is Untended).
OwnWritesShown ==
  \A r \in Of(panel) :
    (loading[r] = 0 /\ shown[r] > 0 /\ (left => r \in Navbar)) => shown[r] >= told[r]

\* What the server gives only once - a token, a webhook's secret, recovery codes, the
\* secret of an enrolment - stays on the page: it goes only when its reader dismisses it
\* or, for the enrolment, when the codes replace it, and never for an older one that
\* another request's answer brings.
SecretsKept ==
  [][\A s \in Secrets :
       \/ held'[s] >= held[s]
       \/ \E f \in Buttons[panel] \cap DOMAIN Signalled : Pick(f) /\ s \in Signalled[f].takes
       \/ s = "enrollment" /\ held'["codes"] > 0]_vars
============================================================================
