------------------------------- MODULE SignIn -------------------------------
(***************************************************************************)
(* Signing in with Google and staying signed in (lucida-server auth/):     *)
(* auth_start and auth_callback with their single-use state tokens, the    *)
(* session cookie and the signed-out marker, the session rows with their   *)
(* idle timeout and hard cap, the fire-and-forget bump of last_used_at,    *)
(* logout, and the periodic sweep.                                         *)
(*                                                                         *)
(* A browser has several tabs that share its cookies.  The identity        *)
(* provider is external: it returns a browser with the account its own     *)
(* session holds, or, when asked for the chooser, with any account.        *)
(***************************************************************************)
EXTENDS Integers, FiniteSets, FiniteSetsExt, Functions

CONSTANTS
    Browser, Tab, BrowserOf,     \* BrowserOf[t]: whose cookies tab t has
    Account, Verified, Domain,   \* what the verified claims say of an account
    AllowedDomains,              \* LUCIDA_ALLOWED_HOSTED_DOMAINS
    IdleTimeout, HardCap, PendingTtl,
    None,
    Scenarios       \* bounds: the tabs in use, how often each thing may
                    \* happen, and the last tick

SignInAssumption ==
    /\ BrowserOf \in [Tab -> Browser]
    /\ {IdleTimeout, HardCap, PendingTtl} \subseteq Nat
    /\ Scenarios \subseteq [tabs : SUBSET Tab, starts : Nat, requests : Nat, logouts : Nat,
                            duplicates : Nat, faults : Nat, logins : Nat, time : Nat]

VARIABLES
    now,
    pending,      \* state token -> when auth_start stored it
    sessions,     \* session id -> [email, last_used, expires]
    cookie,       \* per browser: the session id it holds, or None
    marker,       \* per browser: lucida_signed_out
    flow,         \* per tab: where its sign-in or sign-out is
    touches,      \* spawned bumps that have not run yet
    left,         \* what the scenario still allows
    minted,       \* session id -> state token it was minted for
    ended,        \* session ids a logout deleted
    used,         \* session id -> when a request was last accepted on it
    reordered,    \* session ids on which an older bump landed after a newer
    signedOut     \* per browser: logged out and not signed in since

store == <<pending, sessions>>
jar == <<cookie, marker>>
ghosts == <<minted, ended, used, reordered, signedOut>>
signInVars == <<now, store, jar, flow, touches, left, ghosts>>

NoFlow == [step |-> "idle", state |-> 0, chooser |-> FALSE, account |-> None,
           id |-> 0, late |-> FALSE]

SignInInit ==
    /\ now = 0
    /\ pending = [s \in {} |-> 0] /\ sessions = [s \in {} |-> 0]
    /\ cookie = [b \in Browser |-> None] /\ marker = [b \in Browser |-> FALSE]
    /\ flow = [t \in Tab |-> NoFlow]
    /\ touches = {} /\ left \in Scenarios
    /\ minted = [s \in {} |-> 0] /\ ended = {} /\ used = [s \in {} |-> 0]
    /\ reordered = {} /\ signedOut = [b \in Browser |-> FALSE]

Put(f, k, v) == [x \in DOMAIN f \cup {k} |-> IF x = k THEN v ELSE f[x]]
Spend(what) == left[what] > 0 /\ left' = [left EXCEPT ![what] = @ - 1]
Fault == Spend("faults")
At(t, step) == flow[t].step = step
Goto(t, step) == flow' = [flow EXCEPT ![t].step = step]
Leave(t) == flow' = [flow EXCEPT ![t] = NoFlow]

-----------------------------------------------------------------------------
(* Signing in.                                                             *)

\* Mutant: the marker is spent when the sign-in starts.
marker_after_startSpent(b) == FALSE

\* auth_start leaves the marker for the callback to clear.
marker_after_start(b) == marker[b]

auth_start(t) ==
    /\ At(t, "idle") /\ Spend("starts")
    /\ LET b == BrowserOf[t]
           s == left.starts       \* a state token no other start has
       IN  /\ pending' = Put(pending, s, now)
           /\ flow' = [flow EXCEPT ![t] = [NoFlow EXCEPT !.step = "google", !.state = s,
                                                         !.chooser = marker[b]]]
           /\ marker' = [marker EXCEPT ![b] = marker_after_start(b)]
    /\ UNCHANGED <<now, sessions, cookie, touches, ghosts>>

\* The person goes back, or closes the provider's page.
BackOut(t) ==
    /\ At(t, "google") /\ Leave(t)
    /\ UNCHANGED <<now, store, jar, touches, left, ghosts>>

\* The redirect back to the server is delivered in a second tab too.
Duplicate(t, u) ==
    /\ Spend("duplicates")
    /\ t # u /\ BrowserOf[t] = BrowserOf[u] /\ At(t, "google") /\ At(u, "idle")
    /\ flow' = [flow EXCEPT ![u] = flow[t]]
    /\ UNCHANGED <<now, store, jar, touches, ghosts>>

\* Mutant: the row is read, not taken.
consumeKeeping(s) == pending

\* DELETE ... RETURNING: whoever takes the row is the only one served.
consume(s) == Restrict(pending, DOMAIN pending \ {s})

\* auth_callback up to the consumed state token; a token that is gone, or a
\* store error, ends at the error page.
CallbackConsume(t) ==
    /\ At(t, "google")
    /\ IF flow[t].state \in DOMAIN pending
       THEN /\ pending' = consume(flow[t].state)
            /\ Goto(t, "exchange")
       ELSE Leave(t) /\ UNCHANGED pending
    /\ UNCHANGED <<now, sessions, jar, touches, left, ghosts>>

\* principal_or_rejection_from_claims: email_verified first, then the domain.
accepted(a) == a \in Verified /\ (AllowedDomains = {} \/ Domain[a] \in AllowedDomains)

\* exchange_and_validate, then the policy on the claims.
CallbackExchange(t) ==
    /\ At(t, "exchange")
    /\ \/ \E a \in Account :
             flow' = [flow EXCEPT ![t] = IF accepted(a)
                         THEN [@ EXCEPT !.step = "mint", !.account = a] ELSE NoFlow]
          /\ UNCHANGED left
       \/ Fault /\ Leave(t)
    /\ UNCHANGED <<now, store, jar, touches, ghosts>>

\* session_store.create under a fresh id; when it fails the person sees the
\* error page, and must start again: the state token is spent.
CallbackMint(t) ==
    /\ At(t, "mint")
    /\ LET id == Cardinality(DOMAIN minted) + 1 IN
       \/ /\ sessions' = Put(sessions, id, [email |-> flow[t].account, last_used |-> now,
                                            expires |-> now + HardCap])
          /\ minted' = Put(minted, id, flow[t].state)
          /\ used' = Put(used, id, now)
          /\ flow' = [flow EXCEPT ![t].step = "respond", ![t].id = id]
          /\ UNCHANGED left
       \/ Fault /\ Leave(t) /\ UNCHANGED <<sessions, minted, used>>
    /\ UNCHANGED <<now, pending, jar, touches, ended, reordered, signedOut>>

\* The response sets the session cookie and clears the marker.
CallbackRespond(t) ==
    /\ At(t, "respond")
    /\ LET b == BrowserOf[t] IN
       /\ cookie' = [cookie EXCEPT ![b] = flow[t].id]
       /\ marker' = [marker EXCEPT ![b] = FALSE]
       /\ signedOut' = [signedOut EXCEPT ![b] = FALSE]
    /\ Leave(t)
    /\ UNCHANGED <<now, store, touches, left, minted, ended, used, reordered>>

-----------------------------------------------------------------------------
(* Being signed in.                                                        *)

\* classify_session
active(row) == now < row.expires /\ now < row.last_used + IdleTimeout
Authenticated(b) ==
    cookie[b] # None /\ cookie[b] \in DOMAIN sessions /\ active(sessions[cookie[b]])

\* Mutant: the bump writes back the time it read.
bumpAsRead(b) == [id |-> cookie[b], at |-> sessions[cookie[b]].last_used]

bump(b) == [id |-> cookie[b], at |-> now]

\* SessionCookieExtractor::extract on a row that is active spawns the bump.
extract(b) ==
    /\ Authenticated(b)
    /\ touches' = touches \cup {bump(b)}
    /\ used' = [used EXCEPT ![cookie[b]] = now]

UseSession(t) ==
    /\ At(t, "idle") /\ extract(BrowserOf[t]) /\ Spend("requests")
    /\ UNCHANGED <<now, store, jar, flow, minted, ended, reordered, signedOut>>

\* Mutant: the bump writes the row whether or not it is there.
touch_last_usedUpsert(id, at) ==
    Put(sessions, id, [email |-> CHOOSE a \in Account : TRUE, last_used |-> at,
                       expires |-> at + HardCap])

\* UPDATE ... WHERE id: nothing when the row is gone, and no comparison with
\* the time the row already has.
touch_last_used(id, at) ==
    IF id \in DOMAIN sessions THEN [sessions EXCEPT ![id].last_used = at] ELSE sessions

\* The spawned tasks run in any order; a failed write is logged.
Touch(e) ==
    /\ e \in touches /\ touches' = touches \ {e}
    /\ \/ /\ sessions' = touch_last_used(e.id, e.at)
          /\ reordered' = IF e.id \in DOMAIN sessions /\ e.at < sessions[e.id].last_used
                          THEN reordered \cup {e.id} ELSE reordered
          /\ UNCHANGED left
       \/ Fault /\ reordered' = reordered \cup {e.id} /\ UNCHANGED sessions
    /\ UNCHANGED <<now, pending, jar, flow, minted, ended, used, signedOut>>

-----------------------------------------------------------------------------
(* Signing out, and time.                                                  *)

\* A failed delete is logged: the row lingers, the cookie is cleared all the
\* same.
LogoutDelete(t) ==
    /\ At(t, "idle") /\ left.logouts > 0 /\ Goto(t, "leaving")
    /\ LET id == cookie[BrowserOf[t]] IN
       \/ /\ sessions' = Restrict(sessions, DOMAIN sessions \ {id})
          /\ ended' = ended \cup (DOMAIN sessions \cap {id})
          /\ Spend("logouts")
       \/ id \in DOMAIN sessions /\ Fault /\ UNCHANGED <<sessions, ended>>
    /\ UNCHANGED <<now, pending, jar, touches, minted, used, reordered, signedOut>>

\* The sign-ins already under way in other tabs are noted as such.
LogoutRespond(t) ==
    /\ At(t, "leaving")
    /\ LET b == BrowserOf[t] IN
       /\ cookie' = [cookie EXCEPT ![b] = None]
       /\ marker' = [marker EXCEPT ![b] = TRUE]
       /\ signedOut' = [signedOut EXCEPT ![b] = TRUE]
       /\ flow' = [u \in Tab |-> IF u = t THEN NoFlow
                                 ELSE IF BrowserOf[u] = b /\ ~At(u, "idle")
                                 THEN [flow[u] EXCEPT !.late = TRUE] ELSE flow[u]]
    /\ UNCHANGED <<now, store, touches, left, minted, ended, used, reordered>>

\* SIGNED_OUT_TTL_SECS pass.
MarkerExpires(b) ==
    /\ marker[b]
    /\ marker' = [marker EXCEPT ![b] = FALSE]
    /\ signedOut' = [signedOut EXCEPT ![b] = FALSE]
    /\ UNCHANGED <<now, store, cookie, flow, touches, left, minted, ended, used,
                   reordered>>

\* sweep_once: two statements, each of which may fail alone.
sweep_once ==
    /\ LET live == {id \in DOMAIN sessions : now < sessions[id].expires}
           fresh == {s \in DOMAIN pending : pending[s] >= now - PendingTtl}
       IN  /\ live # DOMAIN sessions \/ fresh # DOMAIN pending
           /\ \/ /\ sessions' = Restrict(sessions, live)
                 /\ pending' = Restrict(pending, fresh)
                 /\ UNCHANGED left
              \/ Fault /\ sessions' = Restrict(sessions, live) /\ UNCHANGED pending
              \/ Fault /\ pending' = Restrict(pending, fresh) /\ UNCHANGED sessions
    /\ UNCHANGED <<now, jar, flow, touches, ghosts>>

Tick ==
    /\ now < left.time /\ now' = now + 1
    /\ UNCHANGED <<store, jar, flow, touches, left, ghosts>>

\* A restart loses spawned bumps and the handlers under way, keeps the rows.
InHandler == {"exchange", "mint", "respond", "leaving"}
ServerRestart ==
    /\ Fault
    /\ touches' = {}
    /\ reordered' = reordered \cup {e.id : e \in touches}
    /\ flow' = [t \in Tab |-> IF flow[t].step \in InHandler THEN NoFlow ELSE flow[t]]
    /\ UNCHANGED <<now, store, jar, minted, ended, used, signedOut>>

SignInStep ==
    \/ \E t \in left.tabs :
         \/ auth_start(t) \/ BackOut(t) \/ CallbackConsume(t) \/ CallbackExchange(t)
         \/ CallbackMint(t) \/ CallbackRespond(t) \/ UseSession(t) \/ LogoutDelete(t)
         \/ LogoutRespond(t)
         \/ \E u \in left.tabs : Duplicate(t, u)
    \/ \E e \in touches : Touch(e)
    \/ \E b \in Browser : MarkerExpires(b)
    \/ sweep_once \/ Tick

-----------------------------------------------------------------------------
(* Properties.                                                             *)

\* A state token signs one browser in once, however often the redirect is
\* delivered and however the deliveries interleave.
OneSessionPerStart == IsInjective(minted)

\* Nobody who logged out is signed in again without the account chooser, but
\* for a sign-in that was already under way: going back and starting over
\* does not spend the marker.
NoSilentReturn ==
    \A t \in Tab : At(t, "respond") /\ signedOut[BrowserOf[t]] =>
        flow[t].chooser \/ flow[t].late

\* A session a logout deleted stays deleted: no late bump of last_used_at
\* brings its row back.
LogoutIsFinal == DOMAIN sessions \cap ended = {}

\* While no bump is outstanding, was lost, or overtook a newer one, the row
\* knows when the session was last used, so an active person is not timed out.
UseIsRemembered ==
    \A id \in DOMAIN sessions \ reordered :
        (\A e \in touches : e.id # id) => sessions[id].last_used = used[id]

\* A state token makes one session, a logout ends it for good, its row knows
\* when it was last used, and nobody who logged out comes back without the
\* account chooser (auth_callback, auth_start, touch_last_used).
SessionsAreSound ==
    OneSessionPerStart /\ LogoutIsFinal /\ UseIsRemembered /\ NoSilentReturn

=============================================================================
