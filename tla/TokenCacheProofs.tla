--------------------------- MODULE TokenCacheProofs ---------------------------
(***************************************************************************)
(* Proofs about the token cache, for any number of threads, any time zone  *)
(* and any times that satisfy the assumptions of TokenCache.               *)
(***************************************************************************)
EXTENDS TokenCache, TLAPS

\* A cached entry is not taken for longer than GitHub takes its token (east of
\* UTC and in it), nor dropped much earlier (west of UTC and in it).
CacheInv ==
    /\ skew <= 0 => cache.exp <= cache.dies
    /\ skew >= 0 /\ filled # Never => cache.exp >= filled + Fallback

\* A request is within its time limit, a token in an answer is as young as the
\* request, and one in use was fresh when its use began.
CallInv ==
    \A c \in Callers :
        /\ pc[c] # "idle" => since[c] <= now /\ now <= since[c] + Delay
        /\ pc[c] = "answered" => since[c] + Life <= held[c]
        /\ pc[c] = "first" /\ skew <= 0 => since[c] + Margin < held[c]

IndInv == TypeOK /\ CacheInv /\ CallInv

\* An empty cache satisfies the invariant.
LEMMA InitInd == Init => IndInv
BY TimesNat, SkewsInt DEF Init, IndInv, TypeOK, CacheInv, CallInv, Empty, Never, Stages

\* Handing out a token that outlives the cache's answer by the margin.
LEMMA HitInd == ASSUME NEW c \in Callers, IndInv, Hit(c) PROVE IndInv'
<1> USE TimesNat, SkewsInt DEF IndInv, Hit, Put, IsValid
<1>1. skew <= 0 => now + Margin < cache.dies
  BY DEF TypeOK, CacheInv
<1>2. TypeOK'
  BY DEF TypeOK, Stages
<1>3. CacheInv'
  BY DEF CacheInv
<1>4. CallInv'
  BY <1>1 DEF TypeOK, CallInv
<1> QED BY <1>2, <1>3, <1>4

\* A caller that finds nothing usable asks for a token.
LEMMA MissInd == ASSUME NEW c \in Callers, IndInv, Miss(c) PROVE IndInv'
<1> USE TimesNat, SkewsInt DEF IndInv, Miss, Put
<1>1. TypeOK'
  BY DEF TypeOK, Stages
<1>2. CacheInv'
  BY DEF CacheInv
<1>3. CallInv'
  BY DEF TypeOK, CallInv
<1> QED BY <1>1, <1>2, <1>3

\* A token that is issued lives for a whole life.
LEMMA IssueInd == ASSUME NEW c \in Callers, IndInv, Issue(c) PROVE IndInv'
<1> USE TimesNat, SkewsInt DEF IndInv, Issue, Put
<1>1. TypeOK'
  BY DEF TypeOK, Stages
<1>2. CacheInv'
  BY DEF CacheInv
<1>3. CallInv'
  BY DEF TypeOK, CallInv
<1> QED BY <1>1, <1>2, <1>3

\* What is stored is honest: the token is as young as its request, which took at
\* most Delay, and the assumed life is shorter than the real one by that much.
LEMMA StoredHonest ==
    ASSUME NEW c \in Callers, IndInv, pc[c] = "answered", NEW readable \in BOOLEAN
    PROVE  /\ ExpiresAt(c, readable) \in Int
           /\ skew <= 0 => ExpiresAt(c, readable) <= held[c]
           /\ skew >= 0 => ExpiresAt(c, readable) >= now + Fallback
           /\ now + Margin < held[c]
<1> USE TimesNat, SkewsInt, FallbackShort, LifeLong DEF IndInv
<1>1. /\ now \in Int /\ skew \in Int /\ since[c] \in Int /\ held[c] \in Int
      /\ now <= since[c] + Delay /\ since[c] + Life <= held[c]
  BY DEF TypeOK, CallInv
<1>2. CASE readable
  BY <1>1, <1>2 DEF ExpiresAt
<1>3. CASE ~readable
  BY <1>1, <1>3 DEF ExpiresAt
<1> QED BY <1>2, <1>3

\* An answer is stored with the death the host computes.
LEMMA ReceiveInd == ASSUME NEW c \in Callers, IndInv, Receive(c) PROVE IndInv'
<1>1. PICK readable \in BOOLEAN :
          cache' = [exp |-> ExpiresAt(c, readable), dies |-> held[c]]
  BY DEF Receive
<1>2. /\ ExpiresAt(c, readable) \in Int
      /\ skew <= 0 => ExpiresAt(c, readable) <= held[c]
      /\ skew >= 0 => ExpiresAt(c, readable) >= now + Fallback
      /\ now + Margin < held[c]
  BY StoredHonest DEF Receive
<1> USE TimesNat, SkewsInt DEF IndInv, Receive, Put
<1>3. TypeOK'
  BY <1>1, <1>2 DEF TypeOK, Stages
<1>4. CacheInv'
  BY <1>1, <1>2 DEF CacheInv
<1>5. CallInv'
  BY <1>2 DEF TypeOK, CallInv
<1> QED BY <1>3, <1>4, <1>5

\* A request that is over has no token any more.
LEMMA EndInd ==
    ASSUME NEW c \in Callers, IndInv, RequestFails(c) \/ FirstUseEnds(c)
    PROVE  IndInv'
<1> USE TimesNat, SkewsInt DEF IndInv, RequestFails, FirstUseEnds, Put
<1>1. TypeOK'
  BY DEF TypeOK, Stages
<1>2. CacheInv'
  BY DEF CacheInv
<1>3. CallInv'
  BY DEF TypeOK, CallInv
<1> QED BY <1>1, <1>2, <1>3

\* A restart forgets cache and callers.
LEMMA RestartInd == ASSUME IndInv, Restart PROVE IndInv'
BY TimesNat, SkewsInt
   DEF IndInv, Restart, TypeOK, CacheInv, CallInv, Empty, Never, Stages

\* No step of the clock makes a request under way too old.
LEMMA TickInd == ASSUME IndInv, Tick PROVE IndInv'
<1> USE TimesNat, SkewsInt DEF IndInv, Tick
<1>1. TypeOK'
  BY DEF TypeOK
<1>2. CacheInv'
  BY DEF CacheInv
<1>3. CallInv'
  BY DEF TypeOK, CallInv
<1> QED BY <1>1, <1>2, <1>3

\* The invariant of the cache: it holds in every reachable state.
THEOREM Invariance == Spec => []IndInv
<1>1. IndInv /\ [Next]_vars => IndInv'
  <2> SUFFICES ASSUME IndInv, [Next]_vars PROVE IndInv'
    OBVIOUS
  <2>1. ASSUME NEW c \in Callers,
               \/ Hit(c) \/ Miss(c) \/ Issue(c) \/ Receive(c)
               \/ RequestFails(c) \/ FirstUseEnds(c)
        PROVE  IndInv'
    BY <2>1, HitInd, MissInd, IssueInd, ReceiveInd, EndInd
  <2>2. CASE Restart
    BY <2>2, RestartInd
  <2>3. CASE Tick
    BY <2>3, TickInd
  <2>4. CASE UNCHANGED vars
    BY <2>4 DEF vars, IndInv, TypeOK, CacheInv, CallInv
  <2> QED BY <2>1, <2>2, <2>3, <2>4 DEF Next
<1> QED BY <1>1, InitInd, PTL DEF Spec

\* Every variable of the token cache keeps its type (_token_cache).
THEOREM TypeCorrect == Spec => []TypeOK
<1>1. IndInv => TypeOK
  BY DEF IndInv
<1> QED BY <1>1, Invariance, PTL

\* On a host in UTC or east of it, the first request of every client method is
\* over before its token dies (get_installation_token).
THEOREM Authenticated == Spec => []RequestsAuthenticated
<1>1. IndInv => RequestsAuthenticated
  BY TimesNat, SkewsInt, MarginCoversRequest
     DEF IndInv, TypeOK, CallInv, RequestsAuthenticated
<1> QED BY <1>1, Invariance, PTL

\* There, a token is handed out only with more than the margin left, cached or
\* new (get_installation_token, is_valid).
THEOREM FreshWhenHandedOut == Spec => HandedOutFresh
<1> DEFINE Fresh ==
      skew <= 0 => \A c \in Callers :
          pc[c] # "first" /\ pc'[c] = "first" => now + Margin < held'[c]
<1>1. IndInv /\ [Next]_vars => [Fresh]_vars
  <2> SUFFICES ASSUME IndInv, Next, skew <= 0, NEW c \in Callers,
                      pc[c] # "first", pc'[c] = "first"
               PROVE  now + Margin < held'[c]
    OBVIOUS
  <2>1. pc \in [Callers -> Stages] /\ held \in [Callers -> Nat]
    BY DEF IndInv, TypeOK
  <2>2. Hit(c) \/ Receive(c)
    BY <2>1 DEF Next, Hit, Miss, Issue, Receive, RequestFails, FirstUseEnds,
                Restart, Tick, Put
  <2>3. CASE Hit(c)
    BY <2>1, <2>3, TimesNat, SkewsInt DEF IndInv, TypeOK, CacheInv, Hit, IsValid, Put
  <2>4. CASE Receive(c)
    <3>1. now + Margin < held[c]
      BY <2>4, StoredHonest DEF Receive
    <3> QED BY <2>1, <2>4, <3>1 DEF Receive, Put
  <2> QED BY <2>2, <2>3, <2>4
<1>2. Spec => [][Fresh]_vars
  BY <1>1, Invariance, PTL DEF Spec
<1> QED BY <1>2 DEF HandedOutFresh

\* On a host in UTC or west of it, no thread asks for a token sooner after the
\* cache was filled than its assumed life less the margin: without a lock a
\* refresh costs one token per thread at most (_token_cache).
THEOREM SparinglyRefreshed == Spec => RefreshedOnce
<1> DEFINE Sparing ==
      skew >= 0 /\ filled # Never => \A c \in Callers :
          pc[c] # "asking" /\ pc'[c] = "asking" => now >= filled + Fallback - Margin
<1>1. IndInv /\ [Next]_vars => [Sparing]_vars
  <2> SUFFICES ASSUME IndInv, Next, skew >= 0, filled # Never, NEW c \in Callers,
                      pc[c] # "asking", pc'[c] = "asking"
               PROVE  now >= filled + Fallback - Margin
    OBVIOUS
  <2>1. pc \in [Callers -> Stages]
    BY DEF IndInv, TypeOK
  <2>2. Miss(c)
    BY <2>1 DEF Next, Hit, Miss, Issue, Receive, RequestFails, FirstUseEnds,
                Restart, Tick, Put
  <2> QED BY <2>2, TimesNat, SkewsInt DEF Miss, IsValid, IndInv, TypeOK, CacheInv, Never
<1>2. Spec => [][Sparing]_vars
  BY <1>1, Invariance, PTL DEF Spec
<1> QED BY <1>2 DEF RefreshedOnce
=============================================================================
