---------------------------- MODULE SignInProofs ----------------------------
(***************************************************************************)
(* Proofs about SignIn, for every number of addresses, requests and clicks *)
(* and every limit.  The limiter's invariant LimiterInv accounts for every *)
(* tick a bucket was given; what it promises follows from it.  SignInInv   *)
(* is inductive as it stands.                                              *)
(***************************************************************************)
EXTENDS SignIn, FiniteSetTheorems, TLAPS

\* What was taken from a bucket and what is still in it never exceed what it was given:
\* the full bucket it starts with, and the time that had passed when it was last counted.
Accounted(a) == admitted[a] * Refill + tokens[a] <= Full + at[a]

\* What is in a bucket, or else has passed since an attempt got through.
Earning(a) == tokens[a] = Full \/ tokens[a] + latest[a] >= at[a]

\* Of the limiter: clock, buckets and their history.
LimiterInv ==
  /\ clock \in Nat
  /\ login \subseteq Addresses
  /\ tokens \in [Addresses -> 0..Full]
  /\ at \in [Addresses -> Nat] /\ latest \in [Addresses -> Nat]
  /\ admitted \in [Addresses -> Nat]
  /\ \A a \in Addresses : Accounted(a) /\ at[a] <= clock /\ latest[a] <= at[a] /\ Earning(a)
  /\ \A a \in Addresses \ login : admitted[a] = 0

\* Of the requests and the verifier.
PlacesInv ==
  /\ stage \in [Requests -> Stages]
  /\ source \in [Requests -> Addresses]
  /\ places \in 0..Places
  /\ places = Cardinality(Verifying)

\* Of the page and the browser's cookie.
PageInv ==
  /\ oidc \in BOOLEAN /\ session \in BOOLEAN /\ logged \in BOOLEAN /\ failed \in BOOLEAN
  /\ restoring \in {"unasked", "known", "unknown", "over"}
  /\ asking \in 0..Cardinality(Clicks)
  /\ (logged \/ restoring = "known") => session

Inv == LimiterInv /\ PlacesInv /\ PageInv

-----------------------------------------------------------------------------
(* Arithmetic of a bucket.                                                 *)

\* A full bucket holds at least one token.
LEMMA FullHoldsOne == Full \in Nat /\ Refill <= Full
  <1>1. Burst \in Nat /\ Burst >= 1 /\ Refill \in Nat BY SignInAssumption
  <1>2. Burst * Refill \in Nat BY <1>1
  <1>3. Burst * Refill >= 1 * Refill BY <1>1
  <1>. QED BY <1>1, <1>2, <1>3 DEF Full

\* What a bucket holds after it is refilled: no more than fits, and no more than it held and
\* what has passed.
LEMMA EarnedIsBounded ==
  ASSUME LimiterInv, NEW a \in Addresses
  PROVE  /\ Earned(a) \in 0..Full
         /\ admitted[a] * Refill + Earned(a) <= Full + clock
         /\ Earned(a) = Full \/ Earned(a) + latest[a] >= clock
  <1>1. /\ Full \in Nat /\ tokens[a] \in 0..Full /\ at[a] \in Nat /\ clock \in Nat
        /\ at[a] <= clock /\ admitted[a] \in Nat /\ latest[a] \in Nat /\ Refill \in Nat
    BY FullHoldsOne, SignInAssumption DEF LimiterInv
  <1>2. admitted[a] * Refill \in Nat BY <1>1
  <1>3. CASE a \in login
    <2>1. Earned(a) = IF Full < tokens[a] + (clock - at[a]) THEN Full
                      ELSE tokens[a] + (clock - at[a])
      BY <1>3 DEF Earned, Smaller
    <2>2. Accounted(a) /\ Earning(a) BY DEF LimiterInv
    <2>3. Earned(a) <= tokens[a] + (clock - at[a]) BY <1>1, <2>1
    <2>4. Earned(a) \in 0..Full BY <1>1, <2>1
    <2>5. admitted[a] * Refill + Earned(a) <= Full + clock
      <3>. DEFINE taken == admitted[a] * Refill
      <3>1. taken \in Nat /\ taken + tokens[a] <= Full + at[a] BY <1>2, <2>2 DEF Accounted
      <3>. HIDE DEF taken
      <3>2. taken + Earned(a) <= Full + clock BY <1>1, <2>3, <2>4, <3>1
      <3>. QED BY <3>2 DEF taken
    <2>6. Earned(a) = Full \/ Earned(a) + latest[a] >= clock
      BY <1>1, <2>1, <2>2 DEF Earning
    <2>. QED BY <2>4, <2>5, <2>6
  <1>4. CASE a \notin login
    <2>1. Earned(a) = Full /\ admitted[a] = 0 BY <1>4 DEF Earned, LimiterInv
    <2>2. admitted[a] * Refill = 0 BY <1>1, <2>1
    <2>. QED BY <1>1, <2>1, <2>2
  <1>. QED BY <1>3, <1>4

-----------------------------------------------------------------------------
(* The limiter.                                                            *)

LEMMA InitLimiter == Init => LimiterInv
  <1>. SUFFICES ASSUME Init PROVE LimiterInv OBVIOUS
  <1>1. /\ clock = 0 /\ login = {}
        /\ tokens = [a \in Addresses |-> 0] /\ at = [a \in Addresses |-> 0]
        /\ latest = [a \in Addresses |-> 0] /\ admitted = [a \in Addresses |-> 0]
    BY DEF Init
  <1>2. Full \in Nat /\ Refill \in Nat BY FullHoldsOne, SignInAssumption
  <1>3. 0 * Refill = 0 BY <1>2
  <1>. QED BY <1>1, <1>2, <1>3 DEF LimiterInv, Accounted, Earning

\* An attempt from a: the bucket is counted, n stays in it.
LEMMA CountKeeps ==
  ASSUME LimiterInv, NEW a \in Addresses, NEW n \in 0..Full, Count(a, n), clock' = clock,
         admitted' \in [Addresses -> Nat], latest' \in [Addresses -> Nat],
         \A b \in Addresses \ {a} : admitted'[b] = admitted[b] /\ latest'[b] = latest[b],
         admitted'[a] * Refill + n <= Full + clock,
         latest'[a] <= clock, n = Full \/ n + latest'[a] >= clock
  PROVE  LimiterInv'
  <1>1. /\ login' = login \cup {a} /\ clock' \in Nat
        /\ tokens' = [tokens EXCEPT ![a] = n] /\ at' = [at EXCEPT ![a] = clock]
    BY DEF Count, LimiterInv
  <1>2. /\ login' \subseteq Addresses /\ tokens' \in [Addresses -> 0..Full]
        /\ at' \in [Addresses -> Nat]
    BY <1>1 DEF LimiterInv
  <1>3. ASSUME NEW b \in Addresses
        PROVE  /\ Accounted(b)' /\ at'[b] <= clock' /\ latest'[b] <= at'[b] /\ Earning(b)'
    <2>1. CASE b = a
      <3>1. tokens'[a] = n /\ at'[a] = clock BY <1>1 DEF LimiterInv
      <3>. QED BY <2>1, <3>1 DEF Accounted, Earning, Full, LimiterInv
    <2>2. CASE b # a
      <3>1. /\ tokens'[b] = tokens[b] /\ at'[b] = at[b]
            /\ admitted'[b] = admitted[b] /\ latest'[b] = latest[b]
        BY <1>1, <2>2 DEF LimiterInv
      <3>2. Accounted(b) /\ at[b] <= clock /\ latest[b] <= at[b] /\ Earning(b)
        BY DEF LimiterInv
      <3>. QED BY <3>1, <3>2 DEF Accounted, Earning, Full
    <2>. QED BY <2>1, <2>2
  <1>4. ASSUME NEW b \in Addresses \ login' PROVE admitted'[b] = 0
    BY <1>1 DEF LimiterInv
  <1>. QED BY <1>1, <1>2, <1>3, <1>4 DEF LimiterInv, Full

LEMMA TickKeepsLimiter == LimiterInv /\ Tick => LimiterInv'
  <1>. SUFFICES ASSUME LimiterInv, Tick PROVE LimiterInv' OBVIOUS
  <1>1. /\ clock \in Nat /\ clock' = clock + 1
        /\ UNCHANGED <<login, tokens, at, admitted, latest>>
    BY DEF Tick, limiter, LimiterInv
  <1>2. ASSUME NEW a \in Addresses
        PROVE  Accounted(a)' /\ at'[a] <= clock' /\ latest'[a] <= at'[a] /\ Earning(a)'
    <2>1. /\ Accounted(a) /\ at[a] <= clock /\ latest[a] <= at[a] /\ Earning(a)
          /\ at[a] \in Nat
      BY DEF LimiterInv
    <2>. QED BY <1>1, <2>1 DEF Accounted, Earning, Full
  <1>. QED BY <1>1, <1>2 DEF LimiterInv, Full

LEMMA DenyKeepsLimiter ==
  ASSUME LimiterInv, PlacesInv, NEW r \in Requests, Deny(r)
  PROVE  LimiterInv'
  <1>. DEFINE a == source[r]
  <1>1. a \in Addresses BY DEF PlacesInv
  <1>2. Count(a, Earned(a)) /\ UNCHANGED <<clock, admitted, latest>> BY DEF Deny
  <1>3. /\ Earned(a) \in 0..Full
        /\ admitted[a] * Refill + Earned(a) <= Full + clock
        /\ Earned(a) = Full \/ Earned(a) + latest[a] >= clock
    BY <1>1, EarnedIsBounded
  <1>4. latest[a] <= clock
    <2>1. /\ latest[a] \in Nat /\ at[a] \in Nat /\ clock \in Nat
          /\ latest[a] <= at[a] /\ at[a] <= clock
      BY <1>1 DEF LimiterInv
    <2>. QED BY <2>1
  <1>5. admitted' \in [Addresses -> Nat] /\ latest' \in [Addresses -> Nat]
    BY <1>2 DEF LimiterInv
  <1>. HIDE DEF a
  <1>. QED BY <1>1, <1>2, <1>3, <1>4, <1>5, CountKeeps

LEMMA AllowKeepsLimiter ==
  ASSUME LimiterInv, PlacesInv, NEW r \in Requests, Allow(r)
  PROVE  LimiterInv'
  <1>. DEFINE a == source[r]
  <1>1. a \in Addresses /\ Refill \in Nat /\ clock \in Nat /\ admitted[a] \in Nat
    BY SignInAssumption DEF PlacesInv, LimiterInv
  <1>2. /\ Count(a, Earned(a) - Refill) /\ clock' = clock /\ Earned(a) >= Refill
        /\ admitted' = [admitted EXCEPT ![a] = @ + 1]
        /\ latest' = [latest EXCEPT ![a] = clock]
    BY DEF Allow
  <1>3. Earned(a) \in 0..Full /\ admitted[a] * Refill + Earned(a) <= Full + clock
    BY <1>1, EarnedIsBounded
  <1>4. Earned(a) - Refill \in 0..Full BY <1>1, <1>2, <1>3, FullHoldsOne
  <1>5. /\ admitted' \in [Addresses -> Nat] /\ latest' \in [Addresses -> Nat]
        /\ admitted'[a] = admitted[a] + 1 /\ latest'[a] = clock
        /\ \A b \in Addresses \ {a} : admitted'[b] = admitted[b] /\ latest'[b] = latest[b]
    BY <1>1, <1>2 DEF LimiterInv
  <1>6. admitted'[a] * Refill + (Earned(a) - Refill) <= Full + clock
    <2>1. (admitted[a] + 1) * Refill = admitted[a] * Refill + Refill BY <1>1
    <2>2. admitted[a] * Refill \in Nat /\ Full \in Nat BY <1>1, FullHoldsOne
    <2>. QED BY <1>1, <1>3, <1>5, <2>1, <2>2
  <1>7. (Earned(a) - Refill) + latest'[a] >= clock BY <1>1, <1>4, <1>5
  <1>8. latest'[a] <= clock BY <1>1, <1>5
  <1>. HIDE DEF a
  <1>. QED BY <1>1, <1>2, <1>4, <1>5, <1>6, <1>7, <1>8, CountKeeps

LEMMA LimiterKept == Inv /\ [Next]_vars => LimiterInv'
  <1>. SUFFICES ASSUME Inv, [Next]_vars PROVE LimiterInv' OBVIOUS
  <1>1. CASE Tick BY <1>1, TickKeepsLimiter DEF Inv
  <1>2. CASE \E r \in Requests : Deny(r) BY <1>2, DenyKeepsLimiter DEF Inv
  <1>3. CASE \E r \in Requests : Allow(r) BY <1>3, AllowKeepsLimiter DEF Inv
  <1>4. CASE UNCHANGED <<clock, login, tokens, at, admitted, latest>>
    BY <1>4 DEF Inv, LimiterInv, Accounted, Earning, Full
  <1>5. \/ Tick \/ \E r \in Requests : Deny(r) \/ Allow(r)
        \/ UNCHANGED <<clock, login, tokens, at, admitted, latest>>
    BY DEF Next, Attempt, vars, limiter, Send, Refuse, TakePlace, Busy, Verified, Answered,
           LoginAnswers, LoginFails, InfoAnswers, RestoreAsks, RestoreAnswers, RestoreFails
  <1>. QED BY <1>1, <1>2, <1>3, <1>4, <1>5

-----------------------------------------------------------------------------
(* The verifier's places.                                                  *)

LEMMA VerifyingFinite ==
  IsFiniteSet(Verifying) /\ Cardinality(Verifying) \in Nat
  <1>1. Verifying \in SUBSET Requests BY DEF Verifying
  <1>. QED BY <1>1, FS_Subset, FS_CardinalityType, SignInAssumption

\* An attempt that neither takes nor gives back a place moves on.
LEMMA MovingKeepsPlaces ==
  ASSUME PlacesInv, NEW r \in Requests, NEW s \in Stages \ {"verifying"},
         stage[r] # "verifying", To(r, s), UNCHANGED <<source, places>>
  PROVE  PlacesInv'
  <1>1. stage' = [stage EXCEPT ![r] = s] /\ stage' \in [Requests -> Stages]
    BY DEF To, PlacesInv
  <1>2. Verifying' = Verifying BY <1>1 DEF Verifying, PlacesInv
  <1>. QED BY <1>1, <1>2 DEF PlacesInv

LEMMA TakePlaceKeepsPlaces ==
  ASSUME PlacesInv, NEW r \in Requests, TakePlace(r)
  PROVE  PlacesInv'
  <1>1. /\ stage' = [stage EXCEPT ![r] = "verifying"] /\ stage' \in [Requests -> Stages]
        /\ stage[r] = "allowed" /\ places' = places + 1 /\ places < Places /\ source' = source
    BY DEF TakePlace, To, PlacesInv, Stages
  <1>2. Verifying' = Verifying \cup {r} /\ r \notin Verifying
    BY <1>1 DEF Verifying, PlacesInv
  <1>3. Cardinality(Verifying') = Cardinality(Verifying) + 1
    BY <1>2, VerifyingFinite, FS_AddElement
  <1>. QED BY <1>1, <1>3, SignInAssumption DEF PlacesInv

LEMMA VerifiedKeepsPlaces ==
  ASSUME PlacesInv, NEW r \in Requests, Verified(r)
  PROVE  PlacesInv'
  <1>1. PICK s \in {"accepted", "rejected"} : stage' = [stage EXCEPT ![r] = s]
    BY DEF Verified, To
  <1>2. /\ stage' \in [Requests -> Stages] /\ stage[r] = "verifying"
        /\ places' = places - 1 /\ source' = source
    BY <1>1 DEF Verified, PlacesInv, Stages
  <1>3. Verifying' = Verifying \ {r} /\ r \in Verifying
    BY <1>1, <1>2 DEF Verifying, PlacesInv
  <1>4. Cardinality(Verifying') = Cardinality(Verifying) - 1
    BY <1>3, VerifyingFinite, FS_RemoveElement
  <1>5. Cardinality(Verifying) >= 1
    BY <1>3, VerifyingFinite, FS_EmptySet
  <1>. QED BY <1>2, <1>4, <1>5, SignInAssumption DEF PlacesInv

LEMMA PlacesKept == Inv /\ [Next]_vars => PlacesInv'
  <1>. SUFFICES ASSUME Inv, [Next]_vars PROVE PlacesInv' OBVIOUS
  <1>1. CASE \E r \in Requests : TakePlace(r) BY <1>1, TakePlaceKeepsPlaces DEF Inv
  <1>2. CASE \E r \in Requests : Verified(r) BY <1>2, VerifiedKeepsPlaces DEF Inv
  <1>3. ASSUME NEW r \in Requests,
               \/ Send(r) \/ Deny(r) \/ Refuse(r) \/ Allow(r) \/ Busy(r)
               \/ Answered(r) \/ LoginAnswers(r) \/ LoginFails(r)
        PROVE  PlacesInv'
    <2>1. \E s \in Stages \ {"verifying"} :
            stage[r] # "verifying" /\ To(r, s) /\ UNCHANGED <<source, places>>
      BY <1>3 DEF Send, Deny, Refuse, Allow, Busy, Answered, LoginAnswers, LoginFails,
                  Stages, Final
    <2>. QED BY <2>1, MovingKeepsPlaces DEF Inv
  <1>4. CASE UNCHANGED <<stage, source, places>> BY <1>4 DEF Inv, PlacesInv, Verifying
  <1>5. \/ \E r \in Requests : Attempt(r)
        \/ UNCHANGED <<stage, source, places>>
    BY DEF Next, vars, Tick, InfoAnswers, RestoreAsks, RestoreAnswers, RestoreFails
  <1>. QED BY <1>1, <1>2, <1>3, <1>4, <1>5 DEF Attempt

-----------------------------------------------------------------------------
(* The page.                                                               *)

LEMMA PageKept == Inv /\ [Next]_vars => PageInv'
  <1>. SUFFICES ASSUME Inv, [Next]_vars PROVE PageInv' OBVIOUS
  <1>. USE DEF Inv, PageInv
  <1>1. CASE UNCHANGED page BY <1>1 DEF page
  <1>2. Cardinality(Clicks) \in Nat
    BY SignInAssumption, FS_Subset, FS_CardinalityType
  <1>3. ASSUME NEW r \in Requests, LoginAnswers(r) PROVE PageInv'
    <2>1. /\ oidc' = oidc /\ restoring' = restoring
          /\ logged' = (stage[r] = "accepted") /\ failed' = ~ (stage[r] = "accepted")
          /\ session' = (session \/ stage[r] = "accepted")
      BY <1>3 DEF LoginAnswers
    <2>2. asking' \in 0..Cardinality(Clicks) BY <1>2, <1>3 DEF LoginAnswers
    <2>3. /\ oidc' \in BOOLEAN /\ session' \in BOOLEAN
          /\ logged' \in BOOLEAN /\ failed' \in BOOLEAN
          /\ (logged' \/ restoring' = "known") => session'
      BY <2>1, Zenon
    <2>. QED BY <2>1, <2>2, <2>3, Zenon
  <1>4. CASE \E r \in Requests : LoginFails(r) BY <1>4 DEF LoginFails
  <1>5. CASE InfoAnswers
    <2>1. asking' \in 0..Cardinality(Clicks) BY <1>2, <1>5 DEF InfoAnswers
    <2>. QED BY <1>5, <2>1, Zenon DEF InfoAnswers
  <1>6. CASE RestoreAsks
    <2>1. restoring' \in {"unasked", "known", "unknown", "over"} BY <1>6 DEF RestoreAsks
    <2>2. restoring' = "known" => session BY <1>6 DEF RestoreAsks
    <2>. QED BY <1>6, <2>1, <2>2, Zenon DEF RestoreAsks
  <1>7. CASE RestoreAnswers \/ RestoreFails
    <2>1. restoring' \in {"unasked", "known", "unknown", "over"} /\ restoring' # "known"
      BY <1>7 DEF RestoreAnswers, RestoreFails
    <2>2. CASE RestoreAnswers BY <2>1, <2>2, Zenon DEF RestoreAnswers
    <2>3. CASE RestoreFails BY <2>1, <2>3, Zenon DEF RestoreFails
    <2>. QED BY <1>7, <2>2, <2>3
  <1>8. \/ UNCHANGED page
        \/ \E r \in Requests : LoginAnswers(r) \/ LoginFails(r)
        \/ InfoAnswers \/ RestoreAsks \/ RestoreAnswers \/ RestoreFails
    BY DEF Next, Attempt, vars, Tick, Send, Deny, Refuse, Allow, TakePlace, Busy, Verified,
           Answered
  <1>. QED BY <1>1, <1>3, <1>4, <1>5, <1>6, <1>7, <1>8

-----------------------------------------------------------------------------
(* The theorems.                                                           *)

LEMMA InitEstablishes == Init => Inv
  <1>. SUFFICES ASSUME Init PROVE Inv OBVIOUS
  <1>1. PlacesInv
    <2>1. Verifying = {} BY DEF Init, Verifying
    <2>. QED BY <2>1, FS_EmptySet, SignInAssumption DEF Init, PlacesInv, Stages
  <1>2. PageInv
    <2>1. Cardinality(Clicks) \in Nat
      BY SignInAssumption, FS_Subset, FS_CardinalityType
    <2>2. asking \in 0..Cardinality(Clicks) BY <2>1 DEF Init
    <2>3. restoring = "unasked" /\ restoring # "known" BY DEF Init
    <2>. QED BY <2>2, <2>3, Zenon DEF Init, PageInv
  <1>. QED BY <1>1, <1>2, InitLimiter DEF Inv

\* The three parts together are preserved by every step, for every number of addresses,
\* requests and clicks and every limit: the inductive invariant of the proofs below.
THEOREM SignInInductive == Spec => []Inv
  <1>1. Inv /\ [Next]_vars => Inv' BY LimiterKept, PlacesKept, PageKept DEF Inv
  <1>. QED BY <1>1, InitEstablishes, PTL DEF Spec

\* Type correctness, the places of the verifier, and a page shown only with a session.
THEOREM SignInInvariant == Spec => []SignInInv
  <1>1. Inv => SignInInv
    BY Zenon DEF Inv, LimiterInv, PlacesInv, PageInv, SignInInv, TypeOK
  <1>. QED BY <1>1, SignInInductive, PTL

\* From no address do more attempts get through than its bucket and the refill allow.
THEOREM RateAlwaysLimited == Spec => []RateIsLimited
  <1>1. Inv => RateIsLimited
    <2>. SUFFICES ASSUME Inv, NEW a \in Addresses
                  PROVE  admitted[a] * Refill <= Full + clock
      BY DEF RateIsLimited
    <2>1. /\ admitted[a] * Refill + Earned(a) <= Full + clock
          /\ Earned(a) \in Nat /\ Full \in Nat /\ clock \in Nat
      BY EarnedIsBounded, FullHoldsOne DEF Inv, LimiterInv
    <2>2. admitted[a] * Refill \in Nat
      BY SignInAssumption DEF Inv, LimiterInv
    <2>. QED BY <2>1, <2>2
  <1>. QED BY <1>1, SignInInductive, PTL

\* An address with a bucket is denied only within the refill time of an attempt let through.
THEOREM DeniedOnlyAfterSpending == Spec => DeniedOnlyWhenSpent
  <1>1. Inv /\ [Next]_vars
          => [\A r \in Requests :
                LET a == source[r] IN
                (stage'[r] = "limited" /\ stage[r] # "limited" /\ a \in login)
                  => clock < latest[a] + Refill]_vars
    <2>. SUFFICES ASSUME Inv, Next, NEW r \in Requests, stage'[r] = "limited",
                         stage[r] # "limited", source[r] \in login
                  PROVE  clock < latest[source[r]] + Refill
      OBVIOUS
    <2>1. stage \in [Requests -> Stages] BY DEF Inv, PlacesInv
    <2>2. PICK q \in Requests : Attempt(q)
      BY DEF Next, Tick, InfoAnswers, RestoreAsks, RestoreAnswers, RestoreFails
    <2>3. Deny(r) \/ Refuse(r)
      BY <2>1, <2>2 DEF Attempt, To, Send, Deny, Refuse, Allow, TakePlace, Busy, Verified,
                        Answered, LoginAnswers, LoginFails
    <2>4. ~ Refuse(r) BY DEF Refuse, NewcomerRefused
    <2>5. Earned(source[r]) < Refill BY <2>3, <2>4 DEF Deny
    <2>6. /\ source[r] \in Addresses /\ Earned(source[r]) \in 0..Full
          /\ Earned(source[r]) = Full \/ Earned(source[r]) + latest[source[r]] >= clock
      BY EarnedIsBounded DEF Inv, PlacesInv
    <2>7. latest[source[r]] \in Nat /\ clock \in Nat /\ Refill \in Nat
      BY <2>6, SignInAssumption DEF Inv, LimiterInv
    <2>. QED BY <2>5, <2>6, <2>7, FullHoldsOne
  <1>. QED BY <1>1, SignInInductive, PTL DEF Spec, DeniedOnlyWhenSpent

=============================================================================
