------------------------ MODULE LeaderElectionProofs ------------------------
(* Proofs about LeaderElection, for any candidates, tokens and durations.  *)
EXTENDS LeaderElection, TLAPS

\* What the actions assign are members of the types, stated once so that the
\* types themselves can stay folded.
LEMMA Members ==
    /\ \A r \in {"CANDIDATE", "FOLLOWER", "LEADER", "STEPPED_DOWN", "RELEASED",
                 "CLOSED"} : r \in Roles
    /\ \A p \in {"idle", "lease", "leased", "sleep", "renew", "renewed",
                 "strayLease", "strayRenew"} : p \in Points
    /\ \A p \in {"idle", "release", "released"} : p \in ReleasePoints
    /\ "owner" \in Releasers /\ "campaign" \in Releasers
    /\ NoToken \in TokenOrNone /\ \A t \in Tokens : t \in TokenOrNone
    /\ 0 \in Delay /\ MaxLag \in Delay /\ Interval + MaxLag \in Delay
    /\ \A d \in Delay : d > 0 => d - 1 \in Delay
    /\ 0 \in 0..TTL /\ TTL \in 0..TTL
BY TimeAssumption DEF Roles, Points, ReleasePoints, Releasers, TokenOrNone, Delay

\* Every field keeps its type: the role stays one of LeaderRole, what is left
\* of the key stays within the TTL, a delay within its longest.
THEOREM TypeCorrect == Spec => []TypeOK
<1> USE Members
<1>1. Init => TypeOK
  BY DEF Init, TypeOK
<1>2. TypeOK /\ [Next]_vars => TypeOK'
  <2> SUFFICES ASSUME TypeOK, [Next]_vars PROVE TypeOK'
    OBVIOUS
  <2> USE DEF TypeOK
  <2>1. ASSUME NEW c \in Candidates, TryAcquire(c) \/ Campaign(c) PROVE TypeOK'
    <3> USE <2>1 DEF TryAcquire, Campaign, EnterTryAcquire
    <3>1. role' \in [Candidates -> Roles]
      OBVIOUS
    <3>2. token' \in [Candidates -> TokenOrNone]
      OBVIOUS
    <3>3. pc' \in [Candidates -> Points]
      OBVIOUS
    <3>4. wait' \in [Candidates -> Delay]
      OBVIOUS
    <3>5. camp' \subseteq Candidates
      OBVIOUS
    <3> QED
      BY <3>1, <3>2, <3>3, <3>4, <3>5
  <2>2. ASSUME NEW c \in Candidates, ExecuteLease(c) PROVE TypeOK'
    <3>0. Fresh \subseteq Tokens
      BY DEF Fresh
    <3> USE <2>2, <3>0 DEF ExecuteLease, Granted, Refused
    <3>1. holder' \in TokenOrNone
      OBVIOUS
    <3>2. left' \in 0..TTL
      OBVIOUS
    <3>3. wire' \in [Candidates -> TokenOrNone]
      OBVIOUS
    <3>4. pc' \in [Candidates -> Points]
      OBVIOUS
    <3>5. wait' \in [Candidates -> Delay]
      OBVIOUS
    <3> QED
      BY <3>1, <3>2, <3>3, <3>4, <3>5
  <2>3. ASSUME NEW c \in Candidates, AcquireReturns(c) PROVE TypeOK'
    <3> USE <2>3 DEF AcquireReturns
    <3>1. role' \in [Candidates -> Roles]
      OBVIOUS
    <3>2. token' \in [Candidates -> TokenOrNone]
      OBVIOUS
    <3>3. wire' \in [Candidates -> TokenOrNone]
      OBVIOUS
    <3>4. pc' \in [Candidates -> Points]
      OBVIOUS
    <3>5. wait' \in [Candidates -> Delay]
      OBVIOUS
    <3> QED
      BY <3>1, <3>2, <3>3, <3>4, <3>5
  <2>4. ASSUME NEW c \in Candidates, CampaignReturns(c) PROVE TypeOK'
    BY <2>4 DEF CampaignReturns
  <2>5. ASSUME NEW c \in Candidates, Renew(c) PROVE TypeOK'
    <3> USE <2>5 DEF Renew
    <3>1. role' \in [Candidates -> Roles]
      OBVIOUS
    <3>2. token' \in [Candidates -> TokenOrNone]
      OBVIOUS
    <3>3. wire' \in [Candidates -> TokenOrNone]
      OBVIOUS
    <3>4. pc' \in [Candidates -> Points]
      OBVIOUS
    <3>5. wait' \in [Candidates -> Delay]
      OBVIOUS
    <3>6. camp' \subseteq Candidates
      OBVIOUS
    <3> QED
      BY <3>1, <3>2, <3>3, <3>4, <3>5, <3>6
  <2>6. ASSUME NEW c \in Candidates, ExecuteRenew(c) PROVE TypeOK'
    <3> USE <2>6 DEF ExecuteRenew, LuaRenew
    <3>1. left' \in 0..TTL
      OBVIOUS
    <3>2. wire' \in [Candidates -> TokenOrNone]
      OBVIOUS
    <3>3. pc' \in [Candidates -> Points]
      OBVIOUS
    <3>4. wait' \in [Candidates -> Delay]
      OBVIOUS
    <3> QED
      BY <3>1, <3>2, <3>3, <3>4
  <2>7. ASSUME NEW c \in Candidates, RenewReturns(c) PROVE TypeOK'
    <3> USE <2>7 DEF RenewReturns
    <3>1. role' \in [Candidates -> Roles]
      OBVIOUS
    <3>2. token' \in [Candidates -> TokenOrNone]
      OBVIOUS
    <3>3. wire' \in [Candidates -> TokenOrNone]
      OBVIOUS
    <3>4. pc' \in [Candidates -> Points]
      OBVIOUS
    <3>5. wait' \in [Candidates -> Delay]
      OBVIOUS
    <3> QED
      BY <3>1, <3>2, <3>3, <3>4, <3>5
  <2>8. ASSUME NEW c \in Candidates, Release(c) PROVE TypeOK'
    <3> USE <2>8 DEF Release, EnterRelease, Forget
    <3>1. role' \in [Candidates -> Roles]
      OBVIOUS
    <3>2. token' \in [Candidates -> TokenOrNone]
      OBVIOUS
    <3>3. rel' \in [Candidates \X Releasers -> ReleasePoints]
      OBVIOUS
    <3>4. relTok' \in [Candidates \X Releasers -> TokenOrNone]
      OBVIOUS
    <3> QED
      BY <3>1, <3>2, <3>3, <3>4
  <2>9. ASSUME NEW c \in Candidates, CancelCampaign(c) PROVE TypeOK'
    <3> USE <2>9 DEF CancelCampaign, Abandon, EnterRelease, Forget
    <3>1. role' \in [Candidates -> Roles]
      OBVIOUS
    <3>2. token' \in [Candidates -> TokenOrNone]
      OBVIOUS
    <3>3. pc' \in [Candidates -> Points]
      OBVIOUS
    <3>4. wire' \in [Candidates -> TokenOrNone]
      OBVIOUS
    <3>5. rel' \in [Candidates \X Releasers -> ReleasePoints]
      OBVIOUS
    <3>6. relTok' \in [Candidates \X Releasers -> TokenOrNone]
      OBVIOUS
    <3> QED
      BY <3>1, <3>2, <3>3, <3>4, <3>5, <3>6
  <2>10. ASSUME NEW c \in Candidates, NEW k \in Releasers, ExecuteRelease(c, k)
         PROVE TypeOK'
    BY <2>10 DEF ExecuteRelease, LuaRelease
  <2>11. ASSUME NEW c \in Candidates, NEW k \in Releasers, ReleaseReturns(c, k)
         PROVE TypeOK'
    BY <2>11 DEF ReleaseReturns, Forget
  <2>12. ASSUME NEW c \in Candidates, NEW k \in Releasers, ReleaseRaises(c, k)
         PROVE TypeOK'
    BY <2>12 DEF ReleaseRaises
  <2>13. ASSUME NEW c \in Candidates, Close(c) PROVE TypeOK'
    BY <2>13 DEF Close
  <2>14. ASSUME NEW c \in Candidates, CallRaises(c) PROVE TypeOK'
    BY <2>14 DEF CallRaises, Abandon
  <2>15. CASE Tick
    <3>1. left' \in 0..TTL /\ holder' \in TokenOrNone
      BY <2>15, TimeAssumption DEF Tick
    <3>2. wait' \in [Candidates -> Delay]
      BY <2>15, TimeAssumption DEF Tick, Delay
    <3> QED
      BY <2>15, <3>1, <3>2 DEF Tick
  <2>16. CASE UNCHANGED vars
    BY <2>16 DEF vars
  <2> QED
    BY <2>1, <2>2, <2>3, <2>4, <2>5, <2>6, <2>7, <2>8, <2>9, <2>10, <2>11,
       <2>12, <2>13, <2>14, <2>15, <2>16 DEF Next, Main, Releasing
<1> QED
  BY <1>1, <1>2, PTL DEF Spec

\* A fresh token is nobody's.
LEMMA FreshIsNew ==
    ASSUME NEW t \in Fresh
    PROVE  /\ t \in Tokens /\ t # holder
           /\ \A c \in Candidates : t # token[c] /\ t # wire[c]
           /\ \A c \in Candidates, k \in Releasers : t # relTok[<<c, k>>]
BY DEF Fresh

\* The two fields are always written together.
LEMMA LeaderIffTokenStep ==
    ASSUME TypeOK, LeaderIffToken, [Next]_vars
    PROVE  LeaderIffToken'
<1> USE DEF TypeOK, LeaderIffToken
<1>1. ASSUME NEW c \in Candidates, TryAcquire(c) \/ Campaign(c)
      PROVE  LeaderIffToken'
  BY <1>1 DEF TryAcquire, Campaign, EnterTryAcquire
<1>2. ASSUME NEW c \in Candidates, ExecuteLease(c)
      PROVE  LeaderIffToken'
  BY <1>2 DEF ExecuteLease, Granted, Refused
<1>3. ASSUME NEW c \in Candidates, AcquireReturns(c)
      PROVE  LeaderIffToken'
  BY <1>3 DEF AcquireReturns
<1>4. ASSUME NEW c \in Candidates, CampaignReturns(c)
      PROVE  LeaderIffToken'
  BY <1>4 DEF CampaignReturns
<1>5. ASSUME NEW c \in Candidates, Renew(c)
      PROVE  LeaderIffToken'
  BY <1>5 DEF Renew
<1>6. ASSUME NEW c \in Candidates, ExecuteRenew(c)
      PROVE  LeaderIffToken'
  BY <1>6 DEF ExecuteRenew, LuaRenew, Renewed
<1>7. ASSUME NEW c \in Candidates, RenewReturns(c)
      PROVE  LeaderIffToken'
  BY <1>7 DEF RenewReturns
<1>8. ASSUME NEW c \in Candidates, Release(c)
      PROVE  LeaderIffToken'
  BY <1>8 DEF Release, EnterRelease, Forget
<1>9. ASSUME NEW c \in Candidates, CancelCampaign(c)
      PROVE  LeaderIffToken'
  BY <1>9 DEF CancelCampaign, Abandon, EnterRelease, Forget, Waiting
<1>10. ASSUME NEW c \in Candidates, NEW k \in Releasers, ExecuteRelease(c, k)
      PROVE  LeaderIffToken'
  BY <1>10 DEF ExecuteRelease, LuaRelease
<1>11. ASSUME NEW c \in Candidates, NEW k \in Releasers, ReleaseReturns(c, k)
      PROVE  LeaderIffToken'
  BY <1>11 DEF ReleaseReturns, Forget
<1>12. ASSUME NEW c \in Candidates, NEW k \in Releasers, ReleaseRaises(c, k)
      PROVE  LeaderIffToken'
  BY <1>12 DEF ReleaseRaises
<1>13. ASSUME NEW c \in Candidates, Close(c)
      PROVE  LeaderIffToken'
  BY <1>13 DEF Close
<1>14. ASSUME NEW c \in Candidates, CallRaises(c)
      PROVE  LeaderIffToken'
  BY <1>14 DEF CallRaises, Abandon, Waiting
<1>15. CASE Tick
  BY <1>15 DEF Tick
<1>16. CASE UNCHANGED vars
  BY <1>16 DEF vars
<1> QED
  BY <1>1, <1>2, <1>3, <1>4, <1>5, <1>6, <1>7, <1>8,
     <1>9, <1>10, <1>11, <1>12, <1>13, <1>14, <1>15, <1>16
     DEF Next, Main, Releasing

\* Only renewals and replies carry a token.
LEMMA WireQuietStep ==
    ASSUME TypeOK, LeaderIffToken, WireQuiet, [Next]_vars
    PROVE  WireQuiet'
<1> USE DEF TypeOK, WireQuiet
<1>1. ASSUME NEW c \in Candidates, TryAcquire(c) \/ Campaign(c)
      PROVE  WireQuiet'
  BY <1>1 DEF TryAcquire, Campaign, EnterTryAcquire
<1>2. ASSUME NEW c \in Candidates, ExecuteLease(c)
      PROVE  WireQuiet'
  BY <1>2 DEF ExecuteLease, Granted, Refused
<1>3. ASSUME NEW c \in Candidates, AcquireReturns(c)
      PROVE  WireQuiet'
  BY <1>3 DEF AcquireReturns
<1>4. ASSUME NEW c \in Candidates, CampaignReturns(c)
      PROVE  WireQuiet'
  BY <1>4 DEF CampaignReturns
<1>5. ASSUME NEW c \in Candidates, Renew(c)
      PROVE  WireQuiet'
  BY <1>5 DEF LeaderIffToken, Renew
<1>6. ASSUME NEW c \in Candidates, ExecuteRenew(c)
      PROVE  WireQuiet'
  BY <1>6 DEF ExecuteRenew, LuaRenew, Renewed
<1>7. ASSUME NEW c \in Candidates, RenewReturns(c)
      PROVE  WireQuiet'
  BY <1>7 DEF RenewReturns
<1>8. ASSUME NEW c \in Candidates, Release(c)
      PROVE  WireQuiet'
  BY <1>8 DEF Release, EnterRelease, Forget
<1>9. ASSUME NEW c \in Candidates, CancelCampaign(c)
      PROVE  WireQuiet'
  BY <1>9 DEF CancelCampaign, Abandon, EnterRelease, Forget, Waiting
<1>10. ASSUME NEW c \in Candidates, NEW k \in Releasers, ExecuteRelease(c, k)
      PROVE  WireQuiet'
  BY <1>10 DEF ExecuteRelease, LuaRelease
<1>11. ASSUME NEW c \in Candidates, NEW k \in Releasers, ReleaseReturns(c, k)
      PROVE  WireQuiet'
  BY <1>11 DEF ReleaseReturns, Forget
<1>12. ASSUME NEW c \in Candidates, NEW k \in Releasers, ReleaseRaises(c, k)
      PROVE  WireQuiet'
  BY <1>12 DEF ReleaseRaises
<1>13. ASSUME NEW c \in Candidates, Close(c)
      PROVE  WireQuiet'
  BY <1>13 DEF Close
<1>14. ASSUME NEW c \in Candidates, CallRaises(c)
      PROVE  WireQuiet'
  BY <1>14 DEF CallRaises, Abandon, Waiting
<1>15. CASE Tick
  BY <1>15 DEF Tick
<1>16. CASE UNCHANGED vars
  BY <1>16 DEF vars
<1> QED
  BY <1>1, <1>2, <1>3, <1>4, <1>5, <1>6, <1>7, <1>8,
     <1>9, <1>10, <1>11, <1>12, <1>13, <1>14, <1>15, <1>16
     DEF Next, Main, Releasing

\* try_acquire() is entered by a candidate that does not lead, and nothing but
\* its own reply makes it lead.
LEMMA AcquiringNotLeadingStep ==
    ASSUME TypeOK, WireQuiet, AcquiringNotLeading, [Next]_vars
    PROVE  AcquiringNotLeading'
<1> USE DEF TypeOK, WireQuiet, AcquiringNotLeading
<1>1. ASSUME NEW c \in Candidates, TryAcquire(c) \/ Campaign(c)
      PROVE  AcquiringNotLeading'
  BY <1>1 DEF TryAcquire, Campaign, EnterTryAcquire, RE_ACQUIRABLE
<1>2. ASSUME NEW c \in Candidates, ExecuteLease(c)
      PROVE  AcquiringNotLeading'
  BY <1>2, FreshIsNew DEF ExecuteLease, Granted, Refused
<1>3. ASSUME NEW c \in Candidates, AcquireReturns(c)
      PROVE  AcquiringNotLeading'
  BY <1>3 DEF AcquireReturns
<1>4. ASSUME NEW c \in Candidates, CampaignReturns(c)
      PROVE  AcquiringNotLeading'
  BY <1>4 DEF CampaignReturns
<1>5. ASSUME NEW c \in Candidates, Renew(c)
      PROVE  AcquiringNotLeading'
  BY <1>5 DEF Renew
<1>6. ASSUME NEW c \in Candidates, ExecuteRenew(c)
      PROVE  AcquiringNotLeading'
  BY <1>6 DEF ExecuteRenew, LuaRenew, Renewed
<1>7. ASSUME NEW c \in Candidates, RenewReturns(c)
      PROVE  AcquiringNotLeading'
  BY <1>7 DEF RenewReturns
<1>8. ASSUME NEW c \in Candidates, Release(c)
      PROVE  AcquiringNotLeading'
  BY <1>8 DEF Release, EnterRelease, Forget
<1>9. ASSUME NEW c \in Candidates, CancelCampaign(c)
      PROVE  AcquiringNotLeading'
  BY <1>9 DEF CancelCampaign, Abandon, EnterRelease, Forget, Waiting
<1>10. ASSUME NEW c \in Candidates, NEW k \in Releasers, ExecuteRelease(c, k)
      PROVE  AcquiringNotLeading'
  BY <1>10 DEF ExecuteRelease, LuaRelease
<1>11. ASSUME NEW c \in Candidates, NEW k \in Releasers, ReleaseReturns(c, k)
      PROVE  AcquiringNotLeading'
  BY <1>11 DEF ReleaseReturns, Forget
<1>12. ASSUME NEW c \in Candidates, NEW k \in Releasers, ReleaseRaises(c, k)
      PROVE  AcquiringNotLeading'
  BY <1>12 DEF ReleaseRaises
<1>13. ASSUME NEW c \in Candidates, Close(c)
      PROVE  AcquiringNotLeading'
  BY <1>13 DEF Close
<1>14. ASSUME NEW c \in Candidates, CallRaises(c)
      PROVE  AcquiringNotLeading'
  BY <1>14 DEF CallRaises, Abandon, Waiting
<1>15. CASE Tick
  BY <1>15 DEF Tick
<1>16. CASE UNCHANGED vars
  BY <1>16 DEF vars
<1> QED
  BY <1>1, <1>2, <1>3, <1>4, <1>5, <1>6, <1>7, <1>8,
     <1>9, <1>10, <1>11, <1>12, <1>13, <1>14, <1>15, <1>16
     DEF Next, Main, Releasing

\* No action but the server's grant gives a candidate a token it did not
\* already refer to.
LEMMA NoNewTokens ==
    ASSUME TypeOK, [Next]_vars,
           \A c \in Candidates : ~ExecuteLease(c),
           NEW d \in Candidates, NEW t \in Tokens, RefersTo(d, t)'
    PROVE  RefersTo(d, t)
<1> USE TokenAssumption DEF TypeOK, RefersTo
<1>1. ASSUME NEW c \in Candidates, TryAcquire(c) \/ Campaign(c)
      PROVE  RefersTo(d, t)
  BY <1>1 DEF TryAcquire, Campaign, EnterTryAcquire
<1>3. ASSUME NEW c \in Candidates, AcquireReturns(c)
      PROVE  RefersTo(d, t)
  BY <1>3 DEF AcquireReturns
<1>4. ASSUME NEW c \in Candidates, CampaignReturns(c)
      PROVE  RefersTo(d, t)
  BY <1>4 DEF CampaignReturns
<1>5. ASSUME NEW c \in Candidates, Renew(c)
      PROVE  RefersTo(d, t)
  BY <1>5 DEF Renew
<1>6. ASSUME NEW c \in Candidates, ExecuteRenew(c)
      PROVE  RefersTo(d, t)
  BY <1>6 DEF ExecuteRenew, LuaRenew, Renewed
<1>7. ASSUME NEW c \in Candidates, RenewReturns(c)
      PROVE  RefersTo(d, t)
  BY <1>7 DEF RenewReturns
<1>8. ASSUME NEW c \in Candidates, Release(c)
      PROVE  RefersTo(d, t)
  BY <1>8 DEF Release, EnterRelease, Forget
<1>9. ASSUME NEW c \in Candidates, CancelCampaign(c)
      PROVE  RefersTo(d, t)
  BY <1>9 DEF CancelCampaign, Abandon, EnterRelease, Forget, Waiting
<1>10. ASSUME NEW c \in Candidates, NEW k \in Releasers, ExecuteRelease(c, k)
      PROVE  RefersTo(d, t)
  BY <1>10 DEF ExecuteRelease, LuaRelease
<1>11. ASSUME NEW c \in Candidates, NEW k \in Releasers, ReleaseReturns(c, k)
      PROVE  RefersTo(d, t)
  BY <1>11 DEF ReleaseReturns, Forget
<1>12. ASSUME NEW c \in Candidates, NEW k \in Releasers, ReleaseRaises(c, k)
      PROVE  RefersTo(d, t)
  BY <1>12 DEF ReleaseRaises
<1>13. ASSUME NEW c \in Candidates, Close(c)
      PROVE  RefersTo(d, t)
  BY <1>13 DEF Close
<1>14. ASSUME NEW c \in Candidates, CallRaises(c)
      PROVE  RefersTo(d, t)
  BY <1>14 DEF CallRaises, Abandon, Waiting
<1>15. CASE Tick
  BY <1>15 DEF Tick
<1>16. CASE UNCHANGED vars
  BY <1>16 DEF vars
<1> QED
  BY <1>1, <1>3, <1>4, <1>5, <1>6, <1>7, <1>8, <1>9, <1>10, <1>11, <1>12,
     <1>13, <1>14, <1>15, <1>16 DEF Next, Main, Releasing

\* Tokens pass between the fields, calls and replies of one candidate only.
LEMMA TokensPrivateStep ==
    ASSUME TypeOK, TokensPrivate, [Next]_vars
    PROVE  TokensPrivate'
<1>1. ASSUME NEW c \in Candidates, ExecuteLease(c) PROVE TokensPrivate'
  <2> SUFFICES ASSUME NEW t \in Tokens, NEW d \in Candidates, NEW e \in Candidates,
                      RefersTo(d, t)', RefersTo(e, t)'
               PROVE  d = e
    BY DEF TokensPrivate
  <2>1. CASE t \in Fresh
    <3>1. \A f \in Candidates : RefersTo(f, t)' => f = c
      BY <1>1, <2>1, FreshIsNew DEF ExecuteLease, RefersTo, TypeOK
    <3> QED
      BY <3>1
  <2>2. CASE t \notin Fresh
    <3>1. \A f \in Candidates : RefersTo(f, t)' => RefersTo(f, t)
      BY <1>1, <2>2, TokenAssumption DEF ExecuteLease, RefersTo, TypeOK
    <3> QED
      BY <3>1 DEF TokensPrivate
  <2> QED
    BY <2>1, <2>2
<1>2. ASSUME \A c \in Candidates : ~ExecuteLease(c) PROVE TokensPrivate'
  BY <1>2, NoNewTokens DEF TokensPrivate
<1> QED
  BY <1>1, <1>2

\* Redis forgets the TTL with the key.
LEMMA FreeKeyExpiredStep ==
    ASSUME TypeOK, WireQuiet, FreeKeyExpired, [Next]_vars
    PROVE  FreeKeyExpired'
<1> USE TimeAssumption, TokenAssumption DEF TypeOK, FreeKeyExpired
<1>1. ASSUME NEW c \in Candidates, TryAcquire(c) \/ Campaign(c)
      PROVE  FreeKeyExpired'
  BY <1>1 DEF TryAcquire, Campaign, EnterTryAcquire
<1>2. ASSUME NEW c \in Candidates, ExecuteLease(c)
      PROVE  FreeKeyExpired'
  BY <1>2, FreshIsNew DEF ExecuteLease, Granted, Refused
<1>3. ASSUME NEW c \in Candidates, AcquireReturns(c)
      PROVE  FreeKeyExpired'
  BY <1>3 DEF AcquireReturns
<1>4. ASSUME NEW c \in Candidates, CampaignReturns(c)
      PROVE  FreeKeyExpired'
  BY <1>4 DEF CampaignReturns
<1>5. ASSUME NEW c \in Candidates, Renew(c)
      PROVE  FreeKeyExpired'
  BY <1>5 DEF Renew
<1>6. ASSUME NEW c \in Candidates, ExecuteRenew(c)
      PROVE  FreeKeyExpired'
  BY <1>6 DEF WireQuiet, ExecuteRenew, LuaRenew, Renewed
<1>7. ASSUME NEW c \in Candidates, RenewReturns(c)
      PROVE  FreeKeyExpired'
  BY <1>7 DEF RenewReturns
<1>8. ASSUME NEW c \in Candidates, Release(c)
      PROVE  FreeKeyExpired'
  BY <1>8 DEF Release, EnterRelease, Forget
<1>9. ASSUME NEW c \in Candidates, CancelCampaign(c)
      PROVE  FreeKeyExpired'
  BY <1>9 DEF CancelCampaign, Abandon, EnterRelease, Forget, Waiting
<1>10. ASSUME NEW c \in Candidates, NEW k \in Releasers, ExecuteRelease(c, k)
      PROVE  FreeKeyExpired'
  BY <1>10 DEF ExecuteRelease, LuaRelease
<1>11. ASSUME NEW c \in Candidates, NEW k \in Releasers, ReleaseReturns(c, k)
      PROVE  FreeKeyExpired'
  BY <1>11 DEF ReleaseReturns, Forget
<1>12. ASSUME NEW c \in Candidates, NEW k \in Releasers, ReleaseRaises(c, k)
      PROVE  FreeKeyExpired'
  BY <1>12 DEF ReleaseRaises
<1>13. ASSUME NEW c \in Candidates, Close(c)
      PROVE  FreeKeyExpired'
  BY <1>13 DEF Close
<1>14. ASSUME NEW c \in Candidates, CallRaises(c)
      PROVE  FreeKeyExpired'
  BY <1>14 DEF CallRaises, Abandon, Waiting
<1>15. CASE Tick
  BY <1>15 DEF Tick
<1>16. CASE UNCHANGED vars
  BY <1>16 DEF vars
<1> QED
  BY <1>1, <1>2, <1>3, <1>4, <1>5, <1>6, <1>7, <1>8,
     <1>9, <1>10, <1>11, <1>12, <1>13, <1>14, <1>15, <1>16
     DEF Next, Main, Releasing

\* Without direct calls, a lease() under way was sent by a campaign.
LEMMA CampaignsOnlyStep ==
    ASSUME Punctual, IInv, NEW d \in Candidates, [Next]_vars
    PROVE  pc'[d] = "lease" => d \in camp'
<1> USE DEF IInv, TypeOK, Punctual
<1>1. ASSUME NEW c \in Candidates, TryAcquire(c) \/ Campaign(c)
      PROVE  pc'[d] = "lease" => d \in camp'
  BY <1>1 DEF TryAcquire, Campaign, EnterTryAcquire
<1>2. ASSUME NEW c \in Candidates, ExecuteLease(c)
      PROVE  pc'[d] = "lease" => d \in camp'
  BY <1>2 DEF ExecuteLease, Granted, Refused
<1>3. ASSUME NEW c \in Candidates, AcquireReturns(c)
      PROVE  pc'[d] = "lease" => d \in camp'
  BY <1>3 DEF AcquireReturns
<1>4. ASSUME NEW c \in Candidates, CampaignReturns(c)
      PROVE  pc'[d] = "lease" => d \in camp'
  BY <1>4 DEF CampaignReturns
<1>5. ASSUME NEW c \in Candidates, Renew(c)
      PROVE  pc'[d] = "lease" => d \in camp'
  BY <1>5 DEF Renew
<1>6. ASSUME NEW c \in Candidates, ExecuteRenew(c)
      PROVE  pc'[d] = "lease" => d \in camp'
  BY <1>6 DEF ExecuteRenew, LuaRenew, Renewed
<1>7. ASSUME NEW c \in Candidates, RenewReturns(c)
      PROVE  pc'[d] = "lease" => d \in camp'
  BY <1>7 DEF RenewReturns
<1>8. ASSUME NEW c \in Candidates, Release(c)
      PROVE  pc'[d] = "lease" => d \in camp'
  BY <1>8 DEF Release, EnterRelease, Forget
<1>9. ASSUME NEW c \in Candidates, CancelCampaign(c)
      PROVE  pc'[d] = "lease" => d \in camp'
  BY <1>9 DEF CancelCampaign, Abandon, EnterRelease, Forget, Waiting
<1>10. ASSUME NEW c \in Candidates, NEW k \in Releasers, ExecuteRelease(c, k)
      PROVE  pc'[d] = "lease" => d \in camp'
  BY <1>10 DEF ExecuteRelease, LuaRelease
<1>11. ASSUME NEW c \in Candidates, NEW k \in Releasers, ReleaseReturns(c, k)
      PROVE  pc'[d] = "lease" => d \in camp'
  BY <1>11 DEF ReleaseReturns, Forget
<1>12. ASSUME NEW c \in Candidates, NEW k \in Releasers, ReleaseRaises(c, k)
      PROVE  pc'[d] = "lease" => d \in camp'
  BY <1>12 DEF ReleaseRaises
<1>13. ASSUME NEW c \in Candidates, Close(c)
      PROVE  pc'[d] = "lease" => d \in camp'
  BY <1>13 DEF Close
<1>14. ASSUME NEW c \in Candidates, CallRaises(c)
      PROVE  pc'[d] = "lease" => d \in camp'
  BY <1>14 DEF CallRaises, Abandon, Waiting
<1>15. CASE Tick
  BY <1>15 DEF Tick
<1>16. CASE UNCHANGED vars
  BY <1>16 DEF vars
<1> QED
  BY <1>1, <1>2, <1>3, <1>4, <1>5, <1>6, <1>7, <1>8,
     <1>9, <1>10, <1>11, <1>12, <1>13, <1>14, <1>15, <1>16
     DEF Next, Main, Releasing

\* With every step on time, whoever leads keeps the key.
LEMMA KeepsStep ==
    ASSUME Punctual, IInv, NEW d \in Candidates, [Next]_vars
    PROVE  Keeps(d)'
<1> USE TimeAssumption, TokenAssumption DEF IInv, TypeOK, Delay, LeaderIffToken, Punctual, Keeps, KeepsFor, Leads, HoldsLease
<1>1. ASSUME NEW c \in Candidates, TryAcquire(c) \/ Campaign(c)
      PROVE  Keeps(d)'
  BY <1>1 DEF TryAcquire, Campaign, EnterTryAcquire
<1>2. ASSUME NEW c \in Candidates, ExecuteLease(c)
      PROVE  Keeps(d)'
  BY <1>2 DEF ExecuteLease, Granted, Refused
<1>3. ASSUME NEW c \in Candidates, AcquireReturns(c)
      PROVE  Keeps(d)'
  BY <1>3 DEF AcquireReturns
<1>4. ASSUME NEW c \in Candidates, CampaignReturns(c)
      PROVE  Keeps(d)'
  BY <1>4 DEF CampaignReturns
<1>5. ASSUME NEW c \in Candidates, Renew(c)
      PROVE  Keeps(d)'
  BY <1>5 DEF Renew
<1>6. ASSUME NEW c \in Candidates, ExecuteRenew(c)
      PROVE  Keeps(d)'
  BY <1>6 DEF ExecuteRenew, LuaRenew, Renewed
<1>7. ASSUME NEW c \in Candidates, RenewReturns(c)
      PROVE  Keeps(d)'
  BY <1>7 DEF RenewReturns
<1>8. ASSUME NEW c \in Candidates, Release(c)
      PROVE  Keeps(d)'
  BY <1>8 DEF Release, EnterRelease, Forget
<1>9. ASSUME NEW c \in Candidates, CancelCampaign(c)
      PROVE  Keeps(d)'
  <2>1. CASE c = d
    <3>1. ~Leads(d)'
      BY <1>9, <2>1 DEF CancelCampaign, EnterRelease, Forget, AcquiringNotLeading, Releasers
    <3>2. pc'[d] # "leased"
      BY <1>9, <2>1 DEF CancelCampaign, Abandon
    <3> QED
      BY <3>1, <3>2
  <2>2. CASE c # d
    BY <1>9, <2>2 DEF CancelCampaign, Abandon, EnterRelease, Forget
  <2> QED
    BY <2>1, <2>2
<1>10. ASSUME NEW c \in Candidates, NEW k \in Releasers, ExecuteRelease(c, k)
      PROVE  Keeps(d)'
  <2>1. CASE c = d
    <3>1. ~Leads(d)'
      BY <1>10, <2>1 DEF ExecuteRelease
    <3>2. pc[d] = "leased" /\ wire[d] # NoToken => relTok[<<c, k>>] # wire[d]
      BY <2>1 DEF AcquiringNotLeading
    <3> QED
      BY <1>10, <3>1, <3>2 DEF ExecuteRelease, LuaRelease
  <2>2. CASE c # d
    <3>1. token[d] # NoToken => relTok[<<c, k>>] # token[d]
      BY <2>2 DEF TokensPrivate, RefersTo, TokenOrNone
    <3>2. wire[d] # NoToken => relTok[<<c, k>>] # wire[d]
      BY <2>2 DEF TokensPrivate, RefersTo, TokenOrNone
    <3> QED
      BY <1>10, <2>2, <3>1, <3>2 DEF ExecuteRelease, LuaRelease
  <2> QED
    BY <2>1, <2>2
<1>11. ASSUME NEW c \in Candidates, NEW k \in Releasers, ReleaseReturns(c, k)
      PROVE  Keeps(d)'
  BY <1>11 DEF ReleaseReturns, Forget
<1>12. ASSUME NEW c \in Candidates, NEW k \in Releasers, ReleaseRaises(c, k)
      PROVE  Keeps(d)'
  BY <1>12 DEF ReleaseRaises
<1>13. ASSUME NEW c \in Candidates, Close(c)
      PROVE  Keeps(d)'
  BY <1>13 DEF Close
<1>14. ASSUME NEW c \in Candidates, CallRaises(c)
      PROVE  Keeps(d)'
  BY <1>14 DEF CallRaises, Abandon, Waiting
<1>15. CASE Tick
  <2>1. UNCHANGED <<role, token, pc, camp, wire, rel>>
    BY <1>15 DEF Tick
  <2>2. CASE (pc[d] = "leased" /\ wire[d] # NoToken) \/ Leads(d)
    <3>1. wait[d] > 0
      BY <1>15, <2>2 DEF Tick, Waiting
    <3>2. wait'[d] = wait[d] - 1
      BY <1>15, <3>1 DEF Tick
    <3>3. left > 1
      BY <2>2, <3>1
    <3>4. left' = left - 1 /\ holder' = holder
      BY <1>15, <3>3 DEF Tick
    <3> QED
      BY <2>1, <2>2, <3>2, <3>4
  <2>3. CASE ~((pc[d] = "leased" /\ wire[d] # NoToken) \/ Leads(d))
    BY <2>1, <2>3
  <2> QED
    BY <2>2, <2>3
<1>16. CASE UNCHANGED vars
  BY <1>16 DEF vars
<1> QED
  BY <1>1, <1>2, <1>3, <1>4, <1>5, <1>6, <1>7, <1>8,
     <1>9, <1>10, <1>11, <1>12, <1>13, <1>14, <1>15, <1>16
     DEF Next, Main, Releasing

\* The inductive invariant holds initially and is kept by every step.
LEMMA IInvInvariant == Spec => []IInv
<1>1. Init => IInv
  <2> SUFFICES ASSUME Init PROVE IInv
    OBVIOUS
  <2>1. TypeOK
    BY Members DEF Init, TypeOK
  <2>2. LeaderIffToken /\ TokensPrivate /\ AcquiringNotLeading /\ WireQuiet
        /\ FreeKeyExpired
    BY TokenAssumption DEF Init, LeaderIffToken, TokensPrivate, RefersTo,
                           AcquiringNotLeading, WireQuiet, FreeKeyExpired
  <2>3. \A c \in Candidates : Keeps(c) /\ pc[c] # "lease"
    BY DEF Init, Keeps, Leads
  <2> QED
    BY <2>1, <2>2, <2>3 DEF IInv
<1>2. IInv /\ TypeOK' /\ [Next]_vars => IInv'
  <2> SUFFICES ASSUME IInv, TypeOK', [Next]_vars PROVE IInv'
    OBVIOUS
  <2>1. (LeaderIffToken /\ TokensPrivate /\ AcquiringNotLeading /\ WireQuiet
         /\ FreeKeyExpired)'
    BY LeaderIffTokenStep, TokensPrivateStep, AcquiringNotLeadingStep, WireQuietStep,
       FreeKeyExpiredStep
       DEF IInv
  <2>2. Punctual => \A c \in Candidates : Keeps(c)'
    BY KeepsStep
  <2>3. Punctual => \A c \in Candidates : pc'[c] = "lease" => c \in camp'
    BY CampaignsOnlyStep
  <2> QED
    BY <2>1, <2>2, <2>3 DEF IInv, Punctual
<1> QED
  BY <1>1, <1>2, TypeCorrect, PTL DEF Spec

\* renew()'s assertion: LEADER and a token go together in every interleaving.
THEOREM LeaderHasToken == Spec => []LeaderIffToken
<1>1. IInv => LeaderIffToken
  BY DEF IInv
<1> QED
  BY <1>1, IInvInvariant, PTL

\* Split-brain prevention, for any number of candidates and any durations with
\* renew_interval + 3 * lag < ttl: two candidates that have not begun to
\* release never lead together.
THEOREM NoSplitBrain == Spec => []AtMostOneLeader
<1>1. IInv => AtMostOneLeader
  <2> SUFFICES ASSUME IInv, Punctual, NEW c \in Candidates, NEW d \in Candidates,
                      Leads(c), Leads(d)
               PROVE  c = d
    BY DEF AtMostOneLeader
  <2>1. HoldsLease(c) /\ HoldsLease(d)
    BY DEF IInv, Keeps
  <2>2. token[c] = token[d] /\ token[c] \in Tokens
    BY <2>1 DEF HoldsLease, IInv, TypeOK, TokenOrNone
  <2> QED
    BY <2>2 DEF IInv, TokensPrivate, RefersTo
<1> QED
  BY <1>1, IInvInvariant, PTL

\* No command of another candidate takes a live key from its holder.
THEOREM LeaseNeverStolen == Spec => OnlyHolderFreesLease
<1> DEFINE FreedByHolder ==
      /\ holder' = NoToken
      /\ \E c \in Candidates, k \in Releasers :
           rel[<<c, k>>] = "release" /\ relTok[<<c, k>>] = holder
<1>1. ASSUME IInv, [Next]_vars, left > 1, holder' # holder
      PROVE  FreedByHolder
  <2> USE <1>1 DEF IInv
  <2>1. ASSUME NEW c \in Candidates PROVE ~ExecuteLease(c)
    BY <2>1 DEF ExecuteLease, Granted, Refused, FreeKeyExpired
  <2>2. ~Tick
    BY DEF Tick
  <2>3. \E c \in Candidates, k \in Releasers : ExecuteRelease(c, k)
    BY <2>1, <2>2 DEF Next, Main, Releasing, vars, TryAcquire, Campaign,
       EnterTryAcquire, AcquireReturns, CampaignReturns, Renew, ExecuteRenew,
       LuaRenew, RenewReturns, Release, CancelCampaign, ReleaseReturns,
       ReleaseRaises, Close, CallRaises
  <2> QED
    BY <2>3 DEF ExecuteRelease, LuaRelease
<1> QED
  BY <1>1, IInvInvariant, PTL DEF OnlyHolderFreesLease, Spec
=============================================================================
