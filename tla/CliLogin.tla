------------------------------ MODULE CliLogin ------------------------------
(***************************************************************************)
(* `lucida auth login` beside the browser sign-in of SignIn: the CLI       *)
(* stores an authorization request with the hash of a token it made up, a  *)
(* signed-in person approves it in a browser (two statements: the token is *)
(* created, then the request is marked), the CLI polls until it is         *)
(* approved, expired or its own deadline passes, and later logs out by     *)
(* revoking the token it holds.                                            *)
(*                                                                         *)
(* Each login has its own request id, poll secret and token hash, so a     *)
(* login names its request and its token.                                  *)
(***************************************************************************)
EXTENDS SignIn

CONSTANTS
    Login,                  \* runs of `lucida auth login`
    RequestTtl,             \* CLI_AUTH_REQUEST_TTL
    MinTtl, AskedTtl,       \* MIN_CLI_TOKEN_TTL and what the CLI asks for
    CliTimeout              \* --timeout-seconds

\* CliTokenAuthorization and BearerToken
AuthorizationRow == [expires : Nat, token_expires : Nat, approved : BOOLEAN,
                     token_id : Tab \cup {None}, email : Account \cup {None}]
TokenRow == [id : Tab, email : Account \cup {None}, expires : Nat, revoked : Nat \cup {None}]

CliAssumption ==
    /\ SignInAssumption
    /\ {RequestTtl, MinTtl, AskedTtl} \subseteq Nat
    /\ None \notin AuthorizationRow /\ None \notin TokenRow

VARIABLES
    request,      \* per login: its CliTokenAuthorization row, or None
    token,        \* per login: the BearerToken row under its hash, or None
    approving,    \* per tab: the approval it is submitting
    cli,          \* per login: where the CLI process is
    deadline,     \* per login: when the CLI stops waiting
    cut           \* logins an approval of which failed or died between its
                  \* two statements

cliVars == <<request, token, approving, cli, deadline, cut>>
allVars == <<signInVars, cliVars>>

NoApproval == [step |-> "none", login |-> None, by |-> None, id |-> None]

CliInit ==
    /\ SignInInit
    /\ request = [l \in Login |-> None] /\ token = [l \in Login |-> None]
    /\ approving = [t \in Tab |-> NoApproval]
    /\ cli = [l \in Login |-> "idle"] /\ deadline = [l \in Login |-> 0]
    /\ cut = {}

requested_token_ttl == Max({MinTtl, Min({AskedTtl, Max({HardCap, MinTtl})})})

\* cli_auth_start, and the CLI begins to poll.
cli_auth_start(l) ==
    /\ cli[l] = "idle" /\ request[l] = None /\ Spend("logins")
    /\ now + RequestTtl <= left.time      \* bound: the request can expire
    /\ request' = [request EXCEPT ![l] =
           [expires |-> now + RequestTtl, token_expires |-> now + requested_token_ttl,
            approved |-> FALSE, token_id |-> None, email |-> None]]
    /\ cli' = [cli EXCEPT ![l] = "polling"]
    /\ deadline' = [deadline EXCEPT ![l] = now + CliTimeout]
    /\ UNCHANGED <<now, store, jar, flow, touches, ghosts, token, approving, cut>>

is_expired(row) == row.expires <= now

\* cli_auth_approve_submit: the middleware authenticates the browser, then the
\* request is loaded and must be neither expired nor approved.
ApproveLoad(t, l) ==
    /\ At(t, "idle") /\ approving[t] = NoApproval /\ request[l] # None
    /\ extract(BrowserOf[t])
    /\ ~is_expired(request[l]) /\ ~request[l].approved
    /\ approving' = [approving EXCEPT ![t] = [step |-> "create", login |-> l, id |-> t,
                         by |-> sessions[cookie[BrowserOf[t]]].email]]
    /\ UNCHANGED <<now, store, jar, flow, left, minted, ended, reordered, signedOut,
                   request, token, cli, deadline, cut>>

\* Mutant: a second token replaces the first.
token_createReplacing(l, row) == [token EXCEPT ![l] = row]

\* One identity per hash: a duplicate is refused.
token_create(l, row) == IF token[l] = None THEN [token EXCEPT ![l] = row] ELSE token

ApproveCreate(t) ==
    /\ approving[t].step = "create"
    /\ LET l == approving[t].login
           row == [id |-> approving[t].id, email |-> approving[t].by,
                   expires |-> request[l].token_expires, revoked |-> None]
       IN  \/ /\ token' = token_create(l, row)
              /\ approving' = [approving EXCEPT ![t] =
                     IF token' # token THEN [@ EXCEPT !.step = "mark"] ELSE NoApproval]
              /\ UNCHANGED left
           \/ Fault /\ approving' = [approving EXCEPT ![t] = NoApproval] /\ UNCHANGED token
    /\ UNCHANGED <<now, store, jar, flow, touches, ghosts, request, cli, deadline, cut>>

\* Mutant: the mark is not made on a request that has expired meanwhile.
mark_approvedInTime(row, id, email) ==
    IF is_expired(row) \/ row.approved THEN row
    ELSE [row EXCEPT !.approved = TRUE, !.token_id = id, !.email = email]

\* COALESCE: the first approval wins.
mark_approved(row, id, email) ==
    IF row.approved THEN row
    ELSE [row EXCEPT !.approved = TRUE, !.token_id = id, !.email = email]

\* A failed mark leaves the token: submitting again is refused as a duplicate.
ApproveMark(t) ==
    /\ approving[t].step = "mark"
    /\ LET l == approving[t].login IN
       \/ /\ request' = [request EXCEPT ![l] =
                 mark_approved(@, approving[t].id, approving[t].by)]
          /\ UNCHANGED <<left, cut>>
       \/ Fault /\ cut' = cut \cup {l} /\ UNCHANGED request
    /\ approving' = [approving EXCEPT ![t] = NoApproval]
    /\ UNCHANGED <<now, store, jar, flow, touches, ghosts, token, cli, deadline>>

\* The CLI gives up on expiry, or after its deadline on a pending answer.
gives_up(l) == is_expired(request[l]) \/ (~request[l].approved /\ now >= deadline[l])

\* cli_auth_poll answers expired before it looks at the approval; an error of
\* the poll itself ends the login.
poll_login(l) ==
    /\ cli[l] = "polling"
    /\ \/ gives_up(l) /\ cli' = [cli EXCEPT ![l] = "failed"] /\ UNCHANGED left
       \/ /\ ~is_expired(request[l]) /\ request[l].approved
          /\ cli' = [cli EXCEPT ![l] = "loggedIn"] /\ UNCHANGED left
       \/ Fault /\ cli' = [cli EXCEPT ![l] = "failed"]
    /\ UNCHANGED <<now, store, jar, flow, touches, ghosts, request, token, approving,
                   deadline, cut>>

\* BearerTokenExtractor
usable(l) == token[l] # None /\ token[l].revoked = None /\ now < token[l].expires

\* `auth logout`: the server revokes, or says the token was no longer valid;
\* only then is the local copy removed.  With --local-only the server is not
\* asked.
CliLogout(l) ==
    /\ cli[l] = "loggedIn"
    /\ cli' = [cli EXCEPT ![l] = "loggedOut"]
    /\ token' = [token EXCEPT ![l] = IF usable(l) THEN [@ EXCEPT !.revoked = now] ELSE @]
    /\ UNCHANGED <<signInVars, request, approving, deadline, cut>>
CliLogoutLocal(l) ==
    /\ cli[l] = "loggedIn"
    /\ cli' = [cli EXCEPT ![l] = "forgotten"]
    /\ UNCHANGED <<signInVars, request, token, approving, deadline, cut>>

\* A restart ends the approvals under way as well.
Restart ==
    /\ ServerRestart
    /\ cut' = cut \cup {approving[t].login : t \in {u \in Tab : approving[u].step = "mark"}}
    /\ approving' = [t \in Tab |-> NoApproval]
    /\ UNCHANGED <<request, token, cli, deadline>>

CliNext ==
    \/ SignInStep /\ UNCHANGED cliVars
    \/ Restart
    \/ \E l \in Login : \/ cli_auth_start(l) \/ poll_login(l) \/ CliLogout(l)
                        \/ CliLogoutLocal(l) \/ \E t \in left.tabs : ApproveLoad(t, l)
    \/ \E t \in left.tabs : ApproveCreate(t) \/ ApproveMark(t)

CliSpec == CliInit /\ [][CliNext]_allVars

-----------------------------------------------------------------------------
(* Properties.                                                             *)

\* Two people may approve one request at once: the request still names the
\* token that exists and the person it belongs to.
ApprovalNamesItsToken ==
    \A l \in Login : request[l] # None /\ request[l].approved =>
        token[l] # None /\ token[l].id = request[l].token_id
                        /\ token[l].email = request[l].email

\* A token does not come into being unannounced: its request says approved,
\* or is about to, unless the approval was cut short between its statements.
TokensAreAnnounced ==
    \A l \in Login \ cut : token[l] # None =>
        request[l].approved \/ \E t \in Tab : approving[t].step = "mark"
                                              /\ approving[t].login = l

\* A request two people approve at once names the token that exists and the
\* person it belongs to, and no token is unannounced unless its approval was
\* cut between its two statements (cli_auth_approve_submit).
ApprovalsMatchTokens == ApprovalNamesItsToken /\ TokensAreAnnounced

=============================================================================
