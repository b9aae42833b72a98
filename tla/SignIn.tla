------------------------------- MODULE SignIn -------------------------------
(***************************************************************************)
(* Signing in with the shared password: the limiter and the verifier's     *)
(* places of the server (internal/app/app.go: allowLogin, loginPassword)   *)
(* and the page that is shown once it has a session (web/src/app/App.tsx:  *)
(* login() and the effect that restores a session where OIDC is offered).  *)
(*                                                                         *)
(* A bucket holds time: a token is Refill ticks, and a tick adds one to    *)
(* every bucket that is not full, up to Burst tokens.  The code adds what  *)
(* has passed since the last attempt when the next one comes.  An attempt  *)
(* of anybody is a request; those in Clicks are made by the page.          *)
(***************************************************************************)
EXTENDS Naturals, FiniteSets

CONSTANTS
  Addresses,  \* client addresses
  Requests,   \* requests that may be in flight at once
  Clicks,     \* those of them that are clicks on the page's button
  Burst,      \* tokens of a full bucket, 5
  Refill,     \* the time in which a token is earned, 12 seconds
  Known,      \* addresses beyond which no new one is taken on, 2048
  Places,     \* the capacity of App.verify, 2
  MaxClock,   \* a bound: ticks
  Attempts    \* a bound: attempts of an address that are let through

ASSUME SignInAssumption ==
  /\ IsFiniteSet(Addresses) /\ IsFiniteSet(Requests) /\ Clicks \subseteq Requests
  /\ Burst \in Nat \ {0} /\ Refill \in Nat \ {0} /\ Known \in Nat /\ Places \in Nat \ {0}
  /\ MaxClock \in Nat /\ Attempts \in Nat

VARIABLES
  clock,     \* time.Now()
  login,     \* App.login: the addresses that have a bucket
  tokens,    \* the tokens of each bucket, in ticks
  at,        \* when they were counted
  admitted,  \* history: attempts of each address let through
  latest,    \* history: when the latest of them was
  stage,     \* where each request is
  source,    \* the address each request comes from
  places,    \* tokens in App.verify
  oidc,      \* whether the page's configuration offers OIDC
  session,   \* whether the browser holds a valid cookie
  restoring, \* the effect that restores a session
  logged,    \* the page's state of that name
  failed,    \* whether the page says that the login failed
  asking     \* calls of /api/network-info that follow a login

limiter == <<login, tokens, at, admitted, latest>>
page == <<oidc, session, restoring, logged, failed, asking>>
vars == <<clock, limiter, stage, source, places, page>>

Full == Burst * Refill

Stages == {"idle", "sent", "allowed", "verifying", "limited", "busy", "rejected", "accepted"}

TypeOK ==
  /\ clock \in Nat
  /\ login \subseteq Addresses
  /\ tokens \in [Addresses -> 0..Full]
  /\ at \in [Addresses -> Nat] /\ latest \in [Addresses -> Nat]
  /\ admitted \in [Addresses -> Nat]
  /\ stage \in [Requests -> Stages]
  /\ source \in [Requests -> Addresses]
  /\ places \in 0..Places
  /\ oidc \in BOOLEAN /\ session \in BOOLEAN /\ logged \in BOOLEAN /\ failed \in BOOLEAN
  /\ restoring \in {"unasked", "known", "unknown", "over"}
  /\ asking \in 0..Cardinality(Clicks)

\* The browser may hold a cookie of an earlier visit.
Init ==
  /\ clock = 0
  /\ login = {} /\ tokens = [a \in Addresses |-> 0] /\ at = [a \in Addresses |-> 0]
  /\ admitted = [a \in Addresses |-> 0] /\ latest = [a \in Addresses |-> 0]
  /\ stage = [r \in Requests |-> "idle"]
  /\ source \in [Requests -> Addresses]
  /\ places = 0
  /\ oidc \in BOOLEAN /\ session \in BOOLEAN
  /\ restoring = "unasked" /\ logged = FALSE /\ failed = FALSE /\ asking = 0
-----------------------------------------------------------------------------
(* allowLogin                                                              *)

Tick ==
  /\ clock < MaxClock
  /\ clock' = clock + 1
  /\ UNCHANGED <<limiter, stage, source, places, page>>

Smaller(x, y) == IF x < y THEN x ELSE y

\* A bucket nobody has used is full: its time is the zero time.
Earned(a) == IF a \in login THEN Smaller(Full, tokens[a] + (clock - at[a])) ELSE Full

Count(a, n) ==
  /\ login' = login \cup {a}
  /\ tokens' = [tokens EXCEPT ![a] = n]
  /\ at' = [at EXCEPT ![a] = clock]

To(r, s) == stage' = [stage EXCEPT ![r] = s]

NewcomerRefused(a) == Cardinality(login) > Known /\ a \notin login

\* Fault: a bucket without a token is kept without what it has earned.
DenyForgetting(r) ==
  LET a == source[r] IN
  /\ stage[r] = "sent" /\ ~ NewcomerRefused(a)
  /\ Earned(a) < Refill
  /\ Count(a, 0) /\ To(r, "limited")
  /\ UNCHANGED <<clock, admitted, latest, source, places, page>>

\* Without a token an attempt costs nothing, and what is earned so far is kept.
Deny(r) ==
  LET a == source[r] IN
  /\ stage[r] = "sent" /\ ~ NewcomerRefused(a)
  /\ Earned(a) < Refill
  /\ Count(a, Earned(a)) /\ To(r, "limited")
  /\ UNCHANGED <<clock, admitted, latest, source, places, page>>

Refuse(r) ==
  /\ stage[r] = "sent" /\ NewcomerRefused(source[r])
  /\ To(r, "limited")
  /\ UNCHANGED <<clock, limiter, source, places, page>>

\* Fault: the bucket is refilled from the first attempt on, not from the latest.
AllowUncounted(r) ==
  LET a == source[r] IN
  /\ stage[r] = "sent" /\ ~ NewcomerRefused(a) /\ admitted[a] < Attempts
  /\ Earned(a) >= Refill
  /\ login' = login \cup {a}
  /\ tokens' = [tokens EXCEPT ![a] = Earned(a) - Refill]
  /\ UNCHANGED at
  /\ admitted' = [admitted EXCEPT ![a] = @ + 1] /\ latest' = [latest EXCEPT ![a] = clock]
  /\ To(r, "allowed")
  /\ UNCHANGED <<clock, source, places, page>>

Allow(r) ==
  LET a == source[r] IN
  /\ stage[r] = "sent" /\ ~ NewcomerRefused(a) /\ admitted[a] < Attempts
  /\ Earned(a) >= Refill
  /\ Count(a, Earned(a) - Refill)
  /\ admitted' = [admitted EXCEPT ![a] = @ + 1] /\ latest' = [latest EXCEPT ![a] = clock]
  /\ To(r, "allowed")
  /\ UNCHANGED <<clock, source, places, page>>
-----------------------------------------------------------------------------
(* loginPassword                                                           *)

TakePlace(r) ==
  /\ stage[r] = "allowed" /\ places < Places
  /\ places' = places + 1
  /\ To(r, "verifying")
  /\ UNCHANGED <<clock, limiter, source, page>>

Busy(r) ==
  /\ stage[r] = "allowed" /\ places = Places
  /\ To(r, "busy")
  /\ UNCHANGED <<clock, limiter, source, places, page>>

\* The password is right and a session made, or not; the place is given back on the way out,
\* after the pause that a wrong password costs.
Verified(r) ==
  /\ stage[r] = "verifying"
  /\ places' = places - 1
  /\ \E s \in {"accepted", "rejected"} : To(r, s)
  /\ UNCHANGED <<clock, limiter, source, page>>

Final == {"limited", "busy", "rejected", "accepted"}

\* An answer that the page does not wait for.
Answered(r) ==
  /\ r \notin Clicks /\ stage[r] \in Final
  /\ To(r, "idle")
  /\ UNCHANGED <<clock, limiter, source, places, page>>
-----------------------------------------------------------------------------
(* the page                                                                *)

\* The form with the button is shown until the page is logged in, and the button is not
\* disabled while an attempt is under way.
Send(r) ==
  /\ stage[r] = "idle" /\ (r \in Clicks => ~ logged)
  /\ To(r, "sent")
  /\ UNCHANGED <<clock, limiter, source, places, page>>

\* Fault: whatever comes back is taken for a success.
LoginAnswersUnread(r) ==
  /\ r \in Clicks /\ stage[r] \in Final /\ asking < Cardinality(Clicks)
  /\ To(r, "idle")
  /\ logged' = TRUE /\ failed' = FALSE /\ asking' = asking + 1
  /\ session' = (session \/ stage[r] = "accepted")
  /\ UNCHANGED <<clock, limiter, source, places, oidc, restoring>>

\* The answer of a click.  It says what is shown, whatever an earlier one said; only an
\* accepted one brings a cookie, and has the page ask for its network information.  As many of
\* those calls as there are clicks are under way at most: a bound.
LoginAnswers(r) ==
  LET ok == stage[r] = "accepted" IN
  /\ r \in Clicks /\ stage[r] \in Final /\ asking < Cardinality(Clicks)
  /\ To(r, "idle")
  /\ logged' = ok /\ failed' = ~ ok
  /\ session' = (session \/ ok)
  /\ asking' = IF ok THEN asking + 1 ELSE asking
  /\ UNCHANGED <<clock, limiter, source, places, oidc, restoring>>

\* No answer arrives, and no cookie.
LoginFails(r) ==
  /\ r \in Clicks /\ stage[r] \in Final
  /\ To(r, "idle")
  /\ failed' = TRUE
  /\ UNCHANGED <<clock, limiter, source, places, oidc, session, restoring, logged, asking>>

\* The network information asked for after a login arrives or not.
InfoAnswers ==
  /\ asking > 0
  /\ asking' = asking - 1
  /\ failed' \in {failed, TRUE}
  /\ UNCHANGED <<clock, limiter, stage, source, places, oidc, session, restoring, logged>>

\* The configuration arrives.  Where it offers OIDC the page asks for its network information,
\* with the cookie it has at that moment.
RestoreAsks ==
  /\ restoring = "unasked"
  /\ restoring' = IF ~ oidc THEN "over" ELSE IF session THEN "known" ELSE "unknown"
  /\ UNCHANGED <<clock, limiter, stage, source, places, oidc, session, logged, failed, asking>>

\* A request without a session is answered 401 and changes nothing.
RestoreAnswers ==
  /\ restoring = "known"
  /\ restoring' = "over" /\ logged' = TRUE
  /\ UNCHANGED <<clock, limiter, stage, source, places, oidc, session, failed, asking>>

RestoreFails ==
  /\ restoring \in {"unasked", "known", "unknown"}
  /\ restoring' = "over"
  /\ UNCHANGED <<clock, limiter, stage, source, places, oidc, session, logged, failed, asking>>

Attempt(r) ==
  \/ Send(r) \/ Deny(r) \/ Refuse(r) \/ Allow(r)
  \/ TakePlace(r) \/ Busy(r) \/ Verified(r)
  \/ Answered(r) \/ LoginAnswers(r) \/ LoginFails(r)

Next ==
  \/ Tick
  \/ \E r \in Requests : Attempt(r)
  \/ InfoAnswers \/ RestoreAsks \/ RestoreAnswers \/ RestoreFails

Spec == Init /\ [][Next]_vars
-----------------------------------------------------------------------------
Verifying == {r \in Requests : stage[r] = "verifying"}

\* The places of the verifier are taken by the attempts it verifies and by nobody else, on
\* whatever path an attempt leaves; and the page is shown only to a browser that has a session,
\* in whatever order the answers of two clicks and of the restoring request arrive
\* (app.go loginPassword, App.tsx login() and the restoring effect).
SignInInv ==
  /\ TypeOK
  /\ places = Cardinality(Verifying)
  /\ (logged \/ restoring = "known") => session

\* From one address no more attempts get through than the bucket is large and the refill
\* allows, however attempts and denials are spaced (app.go allowLogin).
RateIsLimited == \A a \in Addresses : admitted[a] * Refill <= Full + clock

\* An address that has a bucket is denied only if one of its attempts got through within the
\* last refill time: attempts that are denied never push the next token further away, so one
\* who waits for a token is let in though others at the address keep trying (app.go allowLogin).
DeniedOnlyWhenSpent ==
  [][\A r \in Requests :
       LET a == source[r] IN
       (stage'[r] = "limited" /\ stage[r] # "limited" /\ a \in login)
         => clock < latest[a] + Refill]_vars
=============================================================================
