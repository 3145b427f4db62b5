------------------------------ MODULE TokenCache ------------------------------
(***************************************************************************)
(* The installation token cache of GitHubAppClient                         *)
(* (infrastructure/github_app_client.py): get_installation_token, called   *)
(* by the worker threads at the start of every client method and before a  *)
(* checkout, without a lock, for one installation.                         *)
(***************************************************************************)
EXTENDS Integers

CONSTANTS
    Callers,   \* worker threads
    Life,      \* how long GitHub lets a token live: an hour
    Fallback,  \* assumed life of a token whose expires_at is unreadable: 55 min
    Margin,    \* a token this close to its expiry is not handed out: 60 s
    Delay,     \* longest HTTP request: timeout=30
    Skews,     \* what reading a UTC time as local time may add (time.mktime)
    MaxTime    \* bound: where the clock stops

ASSUME TimesNat == /\ Life \in Nat /\ Fallback \in Nat /\ Margin \in Nat
                   /\ Delay \in Nat /\ MaxTime \in Nat
ASSUME SkewsInt == Skews \subseteq Int
ASSUME FallbackShort == Fallback + Delay <= Life
ASSUME MarginCoversRequest == Delay <= Margin
ASSUME LifeLong == Margin + Delay < Life

VARIABLES
    now,    \* time.time()
    skew,   \* the host's time zone: 0 for UTC, negative east of it
    cache,  \* the _CachedToken: exp its expires_at, dies GitHub's own expiry
    pc,     \* what each caller does
    since,  \* when its request under way began
    held,   \* when the token in its hands dies
    filled  \* history: when the cache was last filled, Never if it was not

vars == <<now, skew, cache, pc, since, held, filled>>

Never == -1
Empty == [exp |-> 0, dies |-> 0]   \* no entry, which no call finds valid

\* asking: the POST for a token is under way; answered: GitHub made one;
\* first: the first request with the token is.
Stages == {"idle", "asking", "answered", "first"}

\* What the caller does now, since when, and with a token that dies when.
Put(c, stage, start, death) ==
    /\ pc' = [pc EXCEPT ![c] = stage]
    /\ since' = [since EXCEPT ![c] = start]
    /\ held' = [held EXCEPT ![c] = death]

Init ==
    /\ now = 0
    /\ skew \in Skews
    /\ cache = Empty
    /\ pc = [c \in Callers |-> "idle"]
    /\ since = [c \in Callers |-> 0]
    /\ held = [c \in Callers |-> 0]
    /\ filled = Never

\* Mutant: the margin is left out.
IsValidToTheEnd == now < cache.exp

\* _CachedToken.is_valid
IsValid == now < cache.exp - Margin

\* `if cached and cached.is_valid(): return cached.token`, then the request.
Hit(c) ==
    /\ pc[c] = "idle"
    /\ IsValid
    /\ Put(c, "first", now, cache.dies)
    /\ UNCHANGED <<now, skew, cache, filled>>

\* Otherwise it asks for a token.  Others may be asking already: no lock.
Miss(c) ==
    /\ pc[c] = "idle"
    /\ ~IsValid
    /\ Put(c, "asking", now, 0)
    /\ UNCHANGED <<now, skew, cache, filled>>

\* GitHub makes a token; its answer is on the way.
Issue(c) ==
    /\ pc[c] = "asking"
    /\ Put(c, "answered", since[c], now + Life)
    /\ UNCHANGED <<now, skew, cache, filled>>

\* Mutant: without a readable expires_at the full hour is assumed.
ExpiresAtFullHour(c, readable) ==
    IF readable THEN held[c] + skew ELSE now + Life

\* The UTC time of the answer read by time.mktime, which takes it for local
\* time; without a readable one, 55 minutes from the arrival of the answer.
ExpiresAt(c, readable) ==
    IF readable THEN held[c] + skew ELSE now + Fallback

\* Mutant: an entry once made is kept (setdefault).
ReceiveKeeping(c) ==
    /\ pc[c] = "answered"
    /\ \E readable \in BOOLEAN :
           cache' = IF cache = Empty
                    THEN [exp |-> ExpiresAt(c, readable), dies |-> held[c]]
                    ELSE cache
    /\ filled' = now
    /\ Put(c, "first", now, held[c])
    /\ UNCHANGED <<now, skew>>

\* The answer is stored, over what another thread may have stored meanwhile,
\* and the token is returned and used.
Receive(c) ==
    /\ pc[c] = "answered"
    /\ \E readable \in BOOLEAN :
           cache' = [exp |-> ExpiresAt(c, readable), dies |-> held[c]]
    /\ filled' = now
    /\ Put(c, "first", now, held[c])
    /\ UNCHANGED <<now, skew>>

\* The POST is refused, times out or its answer is lost: the exception leaves
\* the cache as it is.
RequestFails(c) ==
    /\ pc[c] \in {"asking", "answered"}
    /\ Put(c, "idle", 0, 0)
    /\ UNCHANGED <<now, skew, cache, filled>>

\* The first request ended.  Methods that fetch pages or post twice, and git, go
\* on with the same token for as long as they take; the cache has no part in it.
FirstUseEnds(c) ==
    /\ pc[c] = "first"
    /\ Put(c, "idle", 0, 0)
    /\ UNCHANGED <<now, skew, cache, filled>>

\* The process dies and is started again: threads and cache are gone.
Restart ==
    /\ cache' = Empty
    /\ filled' = Never
    /\ pc' = [c \in Callers |-> "idle"]
    /\ since' = [c \in Callers |-> 0]
    /\ held' = [c \in Callers |-> 0]
    /\ UNCHANGED <<now, skew>>

\* Time passes, but no request outlasts its timeout.
Tick ==
    /\ now < MaxTime
    /\ \A c \in Callers : pc[c] # "idle" => now < since[c] + Delay
    /\ now' = now + 1
    /\ UNCHANGED <<skew, cache, pc, since, held, filled>>

Next ==
    \/ \E c \in Callers :
           \/ Hit(c) \/ Miss(c) \/ Issue(c) \/ Receive(c)
           \/ RequestFails(c) \/ FirstUseEnds(c)
    \/ Restart
    \/ Tick

Spec == Init /\ [][Next]_vars

-----------------------------------------------------------------------------
(* Properties.                                                              *)

\* Every variable has its type.
TypeOK ==
    /\ now \in 0..MaxTime
    /\ skew \in Skews
    /\ cache \in [exp : Int, dies : Nat]
    /\ pc \in [Callers -> Stages]
    /\ since \in [Callers -> Nat]
    /\ held \in [Callers -> Nat]
    /\ filled \in Nat \cup {Never}

\* The first request of every client method is sent and answered while GitHub
\* still accepts its token, whichever thread filled the cache, in whatever
\* order the answers were stored, with expires_at readable or not
\* (get_installation_token).  West of UTC the code does not give this: mktime
\* then reads expires_at as a later moment.
RequestsAuthenticated ==
    skew <= 0 => \A c \in Callers : pc[c] = "first" => now < held[c]

\* A token is handed out, to a request or to git, only with more than the
\* margin of is_valid left, also when it comes straight from GitHub and did not
\* pass is_valid (get_installation_token).
HandedOutFresh ==
    [][skew <= 0 => \A c \in Callers :
          pc[c] # "first" /\ pc'[c] = "first" => now + Margin < held'[c]]_vars

\* The missing lock costs little: once any thread has filled the cache, none
\* asks for a token again before that one's assumed life is over, so a refresh
\* costs at most one token for each thread that was already asking
\* (_token_cache).  East of UTC an entry may be invalid from the start.
RefreshedOnce ==
    [][skew >= 0 /\ filled # Never => \A c \in Callers :
          pc[c] # "asking" /\ pc'[c] = "asking" => now >= filled + Fallback - Margin]_vars
=============================================================================
