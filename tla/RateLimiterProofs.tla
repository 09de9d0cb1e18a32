-------------------------- MODULE RateLimiterProofs --------------------------
(***************************************************************************)
(* What the limiter keeps under each of its three strategies, for every    *)
(* number of concurrent checks, every limit, window and cost, and clocks   *)
(* of any bound: a part per strategy, and the theorems at the end.         *)
(***************************************************************************)
EXTENDS RateLimiter, FiniteSetTheorems, TLAPS

-----------------------------------------------------------------------------
(* The sliding window. *)

\* No score and no reading of the clock lies in the future.
SlidingPast == /\ \A s \in state : s <= now
        /\ \A c \in Clients : stamp[c] <= now

\* The key outlives the window of each of its members.
Covered == \A s \in state : s + Window <= expiry

Remembered == Sliding!Recent(granted) \subseteq state

SlidingInv == Sliding!TypeOK /\ SlidingPast /\ Covered /\ Remembered /\ Sliding!OverrunBounded

-----------------------------------------------------------------------------
LEMMA SubsetIsSmaller ==
  ASSUME NEW S, IsFiniteSet(S), NEW T \in SUBSET S
  PROVE  /\ IsFiniteSet(T)
         /\ Cardinality(T) \in Nat /\ Cardinality(S) \in Nat
         /\ Cardinality(T) <= Cardinality(S)
BY FS_Subset, FS_CardinalityType

\* The strategy's module counts with a Cardinality of its own.
LEMMA SlidingCounts == \A S : Sliding!Cardinality(S) = Cardinality(S)
BY DEF Sliding!Cardinality, Cardinality

LEMMA TimesAreFinite ==
  ASSUME NEW S \in SUBSET Sliding!Time
  PROVE  IsFiniteSet(S) /\ Cardinality(S) \in Nat
<1>1. IsFiniteSet(Sliding!Time)
    BY FS_Interval, LimiterAssumption DEF Sliding!Time
<1>2. QED
    BY <1>1, SubsetIsSmaller

LEMMA ClientsAreCounted ==
  ASSUME NEW P \in SUBSET Clients
  PROVE  /\ IsFiniteSet(P)
         /\ Cardinality(P) \in Nat /\ Cardinality(Clients) \in Nat
         /\ Cardinality(P) <= Cardinality(Clients)
BY LimiterAssumption, SubsetIsSmaller

\* Once the key has expired, none of its members is recent any more.
LEMMA RecentIsLive ==
  ASSUME Sliding!TypeOK, Covered
  PROVE  /\ Sliding!Recent(Sliding!Live) = Sliding!Recent(state)
         /\ Sliding!Recent(state) \subseteq Sliding!Live
<1>1. CASE now < expiry
    BY <1>1 DEF Sliding!Live, Sliding!Recent
<1>2. CASE ~(now < expiry)
    <2>1. \A s \in state : ~(s > now - Window)
        BY <1>2, LimiterAssumption DEF Sliding!TypeOK, Covered, Sliding!Time
    <2>2. QED
        BY <2>1, <1>2 DEF Sliding!Live, Sliding!Recent
<1>3. QED
    BY <1>1, <1>2

\* What is younger than the window later was younger before.
LEMMA YoungerBefore ==
  ASSUME NEW s \in Int, NEW t \in Int, NEW u \in Int, NEW w \in Int, t <= u, s > u - w
  PROVE  s > t - w
OBVIOUS

LEMMA TimePasses ==
  ASSUME Sliding!TypeOK, now' \in Sliding!Time, now' >= now, UNCHANGED <<state, expiry>>,
         NEW S \in SUBSET Sliding!Time
  PROVE  /\ {s \in S : s > now' - Window} \subseteq Sliding!Recent(S)
         /\ Sliding!Live' \subseteq Sliding!Live
         /\ Sliding!Recent(Sliding!Live)' \subseteq Sliding!Recent(Sliding!Live)
<1>1. now \in Int /\ now' \in Int /\ Window \in Int /\ expiry \in Int
    BY LimiterAssumption DEF Sliding!TypeOK, Sliding!Time
<1>2. Sliding!Live' \subseteq Sliding!Live
    BY <1>1 DEF Sliding!Live
<1>3. Sliding!Live' \subseteq Int /\ S \subseteq Int
    BY DEF Sliding!TypeOK, Sliding!Time, Sliding!Live
<1>4. ASSUME NEW s \in Int, s > now' - Window PROVE s > now - Window
    BY <1>1, <1>4, now <= now', YoungerBefore
<1>5. QED
    BY <1>2, <1>3, <1>4 DEF Sliding!Recent

\* A step that lets time pass, and at most starts or drops checks, adds nothing
\* to what the window holds and to what is pending.
LEMMA ShrinkingKeepsBound ==
  ASSUME Sliding!TypeOK, Sliding!TypeOK', Sliding!OverrunBounded,
         Sliding!Recent(Sliding!Live)' \subseteq Sliding!Recent(Sliding!Live),
         Sliding!Pending' \subseteq Sliding!Pending
  PROVE  Sliding!OverrunBounded'
<1>1. Sliding!Recent(Sliding!Live) \in SUBSET Sliding!Time /\ Sliding!Pending \in SUBSET Clients
    BY DEF Sliding!TypeOK, Sliding!Live, Sliding!Recent, Sliding!Pending
<1>2. /\ Cardinality(Sliding!Recent(Sliding!Live)') \in Nat
      /\ Cardinality(Sliding!Recent(Sliding!Live)) \in Nat
      /\ Cardinality(Sliding!Recent(Sliding!Live)') <= Cardinality(Sliding!Recent(Sliding!Live))
    BY <1>1, TimesAreFinite, SubsetIsSmaller
<1>3. /\ Cardinality(Sliding!Pending') \in Nat /\ Cardinality(Sliding!Pending) \in Nat
      /\ Cardinality(Sliding!Pending') <= Cardinality(Sliding!Pending)
    BY <1>1, ClientsAreCounted, SubsetIsSmaller
<1>4. Cardinality(Clients) \in Nat
    BY ClientsAreCounted
<1>5. QED
    BY <1>2, <1>3, <1>4, LimiterAssumption, SlidingCounts DEF Sliding!OverrunBounded

\* A pending check that stores its member gives up its place for it.
LEMMA StoringKeepsBound ==
  ASSUME Sliding!TypeOK, Sliding!TypeOK', SlidingPast, Sliding!OverrunBounded,
         NEW c \in Clients, pc[c] = "counted", Sliding!Store(c), now' = now,
         pc' = [pc EXCEPT ![c] = "idle"]
  PROVE  Sliding!OverrunBounded'
<1>1. Sliding!Recent(Sliding!Live) \in SUBSET Sliding!Time /\ Sliding!Pending \in SUBSET Clients
    BY DEF Sliding!TypeOK, Sliding!Live, Sliding!Recent, Sliding!Pending
<1>2. Sliding!Recent(Sliding!Live)' \subseteq Sliding!Recent(Sliding!Live) \cup {stamp[c]}
    BY LimiterAssumption
    DEF Sliding!Store, Sliding!Live, Sliding!Recent, Sliding!TypeOK, Sliding!Time
<1>3. Sliding!Pending' = Sliding!Pending \ {c} /\ c \in Sliding!Pending
    BY DEF Sliding!Pending, Sliding!TypeOK
<1>4. Cardinality(Sliding!Pending') = Cardinality(Sliding!Pending) - 1
    BY <1>1, <1>3, ClientsAreCounted, FS_RemoveElement
<1>5. /\ IsFiniteSet(Sliding!Recent(Sliding!Live) \cup {stamp[c]})
      /\ Cardinality(Sliding!Recent(Sliding!Live) \cup {stamp[c]}) <= Cardinality(Sliding!Recent(Sliding!Live)) + 1
    BY <1>1, TimesAreFinite, FS_AddElement
<1>6. /\ Cardinality(Sliding!Recent(Sliding!Live)') \in Nat
      /\ Cardinality(Sliding!Recent(Sliding!Live)) \in Nat
      /\ Cardinality(Sliding!Recent(Sliding!Live) \cup {stamp[c]}) \in Nat
      /\ Cardinality(Sliding!Recent(Sliding!Live)') <= Cardinality(Sliding!Recent(Sliding!Live) \cup {stamp[c]})
    BY <1>1, <1>2, <1>5, TimesAreFinite, SubsetIsSmaller
<1>7. Cardinality(Sliding!Pending) \in Nat /\ Cardinality(Clients) \in Nat
    BY <1>1, ClientsAreCounted
<1>8. QED
    BY <1>4, <1>5, <1>6, <1>7, LimiterAssumption, SlidingCounts DEF Sliding!OverrunBounded

-----------------------------------------------------------------------------
LEMMA SlidingTyped == Sliding!TypeOK /\ [Sliding!Next]_(Sliding!vars) => Sliding!TypeOK'
<1> SUFFICES ASSUME Sliding!TypeOK, [Sliding!Next]_(Sliding!vars) PROVE Sliding!TypeOK'
    OBVIOUS
<1> USE LimiterAssumption DEF Sliding!TypeOK, Sliding!Time
<1>1. ASSUME NEW c \in Clients, Sliding!ReadClock(c) PROVE Sliding!TypeOK'
    BY <1>1 DEF Sliding!ReadClock
<1>2. ASSUME NEW c \in Clients, Sliding!Count(c) PROVE Sliding!TypeOK'
    BY <1>2 DEF Sliding!Count, Sliding!Live
<1>s. ASSUME NEW c \in Clients, Sliding!Store(c)
      PROVE  state' \in SUBSET Sliding!Time /\ expiry' \in 0..MaxTime + Window
    <2>1. Sliding!Live \cup {stamp[c]} \in SUBSET Sliding!Time
        BY DEF Sliding!Live
    <2>2. now + Window \in 0..MaxTime + Window
        OBVIOUS
    <2>3. QED
        BY <1>s, <2>1, <2>2 DEF Sliding!Store
<1>3. ASSUME NEW c \in Clients, Sliding!Add(c) PROVE Sliding!TypeOK'
    <2>1. stamp[c] \in Sliding!Time
        OBVIOUS
    <2>2. QED
        BY <1>3, <1>s, <2>1 DEF Sliding!Add
<1>4. ASSUME NEW c \in Clients, Sliding!Lose(c) PROVE Sliding!TypeOK'
    <2>1. state' \in SUBSET Sliding!Time /\ expiry' \in 0..MaxTime + Window
        BY <1>4, <1>s DEF Sliding!Lose
    <2>2. QED
        BY <1>4, <2>1 DEF Sliding!Lose
<1>5. CASE Sliding!Tick
    BY <1>5 DEF Sliding!Tick
<1>6. CASE UNCHANGED Sliding!vars
    BY <1>6 DEF Sliding!vars
<1>7. QED
    BY <1>1, <1>2, <1>3, <1>4, <1>5, <1>6 DEF Sliding!Next

LEMMA SlidingMemory ==
  Sliding!TypeOK /\ SlidingPast /\ Covered /\ Remembered /\ [Sliding!Next]_(Sliding!vars)
    => SlidingPast' /\ Covered' /\ Remembered'
<1> SUFFICES ASSUME Sliding!TypeOK, SlidingPast, Covered, Remembered,
         [Sliding!Next]_(Sliding!vars)
             PROVE  SlidingPast' /\ Covered' /\ Remembered'
    OBVIOUS
<1> USE LimiterAssumption DEF Sliding!TypeOK, Sliding!Time, SlidingPast, Covered, Remembered,
         Sliding!Recent
<1>a. Sliding!Recent(state) \subseteq Sliding!Live
    BY RecentIsLive
<1>b. Sliding!Live \subseteq state
    BY DEF Sliding!Live
<1>1. ASSUME NEW c \in Clients, Sliding!ReadClock(c)
      PROVE  SlidingPast' /\ Covered' /\ Remembered'
    <2>1. now' \in Sliding!Time /\ now' >= now
        BY <1>1 DEF Sliding!ReadClock
    <2>2. Remembered'
        BY <1>1, <2>1, TimePasses DEF Sliding!ReadClock
    <2>3. \A d \in Clients : stamp'[d] <= now'
        BY <1>1 DEF Sliding!ReadClock
    <2>4. \A s \in state : s <= now'
        BY <2>1
    <2>5. QED
        BY <1>1, <2>2, <2>3, <2>4 DEF Sliding!ReadClock
<1>2. ASSUME NEW c \in Clients, Sliding!Count(c)
      PROVE  SlidingPast' /\ Covered' /\ Remembered'
    <2>1. SlidingPast' /\ Covered'
        BY <1>2, <1>b DEF Sliding!Count
    <2>2. \A s \in Sliding!Live : s > now - Window => s > stamp[c] - Window
        BY <1>b
    <2>3. Remembered'
        BY <1>2, <1>a, <2>2 DEF Sliding!Count
    <2>4. QED
        BY <2>1, <2>3
<1>3. ASSUME NEW c \in Clients, Sliding!Store(c), UNCHANGED <<now, stamp>>,
             granted' \in SUBSET (granted \cup {stamp[c]})
      PROVE  SlidingPast' /\ Covered' /\ Remembered'
    <2>1. SlidingPast' /\ Covered'
        BY <1>3, <1>b DEF Sliding!Store
    <2>2. Remembered'
        BY <1>3, <1>a DEF Sliding!Store
    <2>3. QED
        BY <2>1, <2>2
<1>4. ASSUME NEW c \in Clients, Sliding!Add(c)
      PROVE  SlidingPast' /\ Covered' /\ Remembered'
    BY <1>3, <1>4 DEF Sliding!Add
<1>5. ASSUME NEW c \in Clients, Sliding!Lose(c)
      PROVE  SlidingPast' /\ Covered' /\ Remembered'
    <2>1. CASE UNCHANGED <<state, expiry>>
        BY <1>5, <2>1 DEF Sliding!Lose
    <2>2. CASE Sliding!Store(c)
        BY <1>3, <1>5, <2>2 DEF Sliding!Lose
    <2>3. QED
        BY <1>5, <2>1, <2>2 DEF Sliding!Lose
<1>6. CASE Sliding!Tick
    <2>1. now' \in Sliding!Time /\ now' >= now
        BY <1>6 DEF Sliding!Tick
    <2>2. Remembered'
        BY <1>6, <2>1, TimePasses DEF Sliding!Tick
    <2>3. SlidingPast'
        BY <1>6, <2>1 DEF Sliding!Tick
    <2>4. QED
        BY <1>6, <2>2, <2>3 DEF Sliding!Tick
<1>7. CASE UNCHANGED Sliding!vars
    BY <1>7 DEF Sliding!vars
<1>8. QED
    BY <1>1, <1>2, <1>4, <1>5, <1>6, <1>7 DEF Sliding!Next

\* The heart of the argument is Count: when a check passes it, the window holds
\* fewer than Limit members, and at most all checks are pending.
LEMMA SlidingBound == SlidingInv /\ [Sliding!Next]_(Sliding!vars) => Sliding!OverrunBounded'
<1> SUFFICES ASSUME SlidingInv, [Sliding!Next]_(Sliding!vars) PROVE Sliding!OverrunBounded'
    OBVIOUS
<1>t. Sliding!TypeOK /\ Sliding!TypeOK' /\ SlidingPast /\ Covered /\ Sliding!OverrunBounded
    BY SlidingTyped DEF SlidingInv
<1> USE <1>t, LimiterAssumption
<1>1. ASSUME NEW c \in Clients, Sliding!ReadClock(c) PROVE Sliding!OverrunBounded'
    <2>1. Sliding!Pending' \subseteq Sliding!Pending
        BY <1>1 DEF Sliding!ReadClock, Sliding!Pending, Sliding!TypeOK
    <2>t. now' \in Sliding!Time /\ now' >= now /\ UNCHANGED <<state, expiry>>
        BY <1>1 DEF Sliding!ReadClock, Sliding!TypeOK, Sliding!Time
    <2>2. Sliding!Recent(Sliding!Live)' \subseteq Sliding!Recent(Sliding!Live)
        BY <2>t, TimePasses
    <2>3. QED
        BY <2>1, <2>2, ShrinkingKeepsBound
<1>2. ASSUME NEW c \in Clients, Sliding!Count(c) PROVE Sliding!OverrunBounded'
    <2> DEFINE left == {s \in Sliding!Live : s > stamp[c] - Window}
    <2>1. left \in SUBSET Sliding!Time /\ Sliding!Live \in SUBSET state
        BY DEF Sliding!Live, Sliding!TypeOK
    <2>2. Sliding!Recent(Sliding!Live)' \subseteq left /\ left \subseteq Sliding!Live
        BY <1>2 DEF Sliding!Count, Sliding!Recent, Sliding!Live
    <2>3. CASE Sliding!Admits(Cardinality(left))
        <3>1. Cardinality(left) \in Nat /\ Cardinality(left) <= Limit - 1
            BY <2>1, <2>3, TimesAreFinite DEF Sliding!Admits
        <3>2. /\ Cardinality(Sliding!Recent(Sliding!Live)') \in Nat
              /\ Cardinality(Sliding!Recent(Sliding!Live)') <= Cardinality(left)
            BY <2>1, <2>2, TimesAreFinite, SubsetIsSmaller
        <3>3. /\ Cardinality(Sliding!Pending') \in Nat /\ Cardinality(Clients) \in Nat
              /\ Cardinality(Sliding!Pending') <= Cardinality(Clients)
            <4>1. Sliding!Pending' \in SUBSET Clients
                BY DEF Sliding!Pending
            <4>2. QED
                BY <4>1, ClientsAreCounted
        <3>4. QED
            BY <3>1, <3>2, <3>3, SlidingCounts DEF Sliding!OverrunBounded
    <2>4. CASE ~Sliding!Admits(Cardinality(left))
        <3>1. Sliding!Pending' \subseteq Sliding!Pending
            BY <1>2, <2>4, SlidingCounts DEF Sliding!Count, Sliding!Pending, Sliding!TypeOK
        <3>2. Sliding!Recent(Sliding!Live)' \subseteq Sliding!Recent(Sliding!Live)
            BY <1>2, <2>2 DEF Sliding!Count, Sliding!Recent
        <3>3. QED
            BY <3>1, <3>2, ShrinkingKeepsBound
    <2>5. QED
        BY <2>3, <2>4
<1>3. ASSUME NEW c \in Clients, Sliding!Add(c) PROVE Sliding!OverrunBounded'
    BY <1>3, StoringKeepsBound DEF Sliding!Add
<1>4. ASSUME NEW c \in Clients, Sliding!Lose(c) PROVE Sliding!OverrunBounded'
    <2>1. CASE UNCHANGED <<state, expiry>>
        <3>1. Sliding!Pending' \subseteq Sliding!Pending
            BY <1>4 DEF Sliding!Lose, Sliding!Pending, Sliding!TypeOK
        <3>2. Sliding!Recent(Sliding!Live)' \subseteq Sliding!Recent(Sliding!Live)
            BY <1>4, <2>1 DEF Sliding!Lose, Sliding!Recent, Sliding!Live
        <3>3. QED
            BY <3>1, <3>2, ShrinkingKeepsBound
    <2>2. CASE pc[c] = "counted" /\ Sliding!Store(c)
        BY <1>4, <2>2, StoringKeepsBound DEF Sliding!Lose
    <2>3. QED
        BY <1>4, <2>1, <2>2 DEF Sliding!Lose
<1>5. CASE Sliding!Tick
    <2>1. Sliding!Pending' \subseteq Sliding!Pending
        BY <1>5 DEF Sliding!Tick, Sliding!Pending
    <2>t. now' \in Sliding!Time /\ now' >= now /\ UNCHANGED <<state, expiry>>
        BY <1>5 DEF Sliding!Tick, Sliding!TypeOK, Sliding!Time
    <2>2. Sliding!Recent(Sliding!Live)' \subseteq Sliding!Recent(Sliding!Live)
        BY <2>t, TimePasses
    <2>3. QED
        BY <2>1, <2>2, ShrinkingKeepsBound
<1>6. CASE UNCHANGED Sliding!vars
    BY <1>6, SlidingCounts
    DEF Sliding!vars, Sliding!OverrunBounded, Sliding!Recent, Sliding!Live, Sliding!Pending
<1>7. QED
    BY <1>1, <1>2, <1>3, <1>4, <1>5, <1>6 DEF Sliding!Next

LEMMA SlidingInit == Sliding!Init => SlidingInv
<1> SUFFICES ASSUME Sliding!Init PROVE SlidingInv
    OBVIOUS
<1>1. Sliding!TypeOK /\ SlidingPast /\ Covered /\ Remembered
    BY LimiterAssumption
    DEF Sliding!Init, Sliding!TypeOK, Sliding!Time, SlidingPast, Covered, Remembered,
        Sliding!Recent
<1>2. Sliding!Recent(Sliding!Live) = {} /\ Sliding!Pending = {}
    BY DEF Sliding!Init, Sliding!Recent, Sliding!Live, Sliding!Pending
<1>3. Cardinality({}) = 0
    BY FS_EmptySet
<1>4. Cardinality(Clients) \in Nat /\ Cardinality(Clients) # 0
    BY LimiterAssumption, FS_EmptySet, FS_CardinalityType
<1>5. QED
    BY <1>1, <1>2, <1>3, <1>4, LimiterAssumption, SlidingCounts
    DEF SlidingInv, Sliding!OverrunBounded

LEMMA SlidingNext == SlidingInv /\ [Sliding!Next]_(Sliding!vars) => SlidingInv'
BY SlidingTyped, SlidingMemory, SlidingBound DEF SlidingInv

-----------------------------------------------------------------------------
(* The fixed window. *)

\* No check holds a time that lies in the future.
FixedPast == \A c \in Clients : stamp[c] <= now

\* A window that lasts and has allowed something has a live key, whose count
\* is no less than what was allowed.
KeyLives(w) == granted[w] > 0 => expiry[w] >= (w + 1) * Window
Counted(w) == granted[w] <= Limit /\ granted[w] <= state[w]

Exact == \A w \in Fixed!Windows : now < (w + 1) * Window => KeyLives(w) /\ Counted(w)

FixedInv == Fixed!TypeOK /\ FixedPast /\ Exact

-----------------------------------------------------------------------------
LEMMA WindowStarts ==
  ASSUME NEW t \in Nat
  PROVE  Fixed!WindowOf(t) \in Nat /\ Fixed!WindowOf(t) * Window <= t
BY LimiterAssumption DEF Fixed!WindowOf

LEMMA WindowLength ==
  ASSUME NEW w \in Int, NEW t \in Int, w * Window <= t
  PROVE  (w + 1) * Window <= t + Window /\ (w + 1) * Window \in Int
<1>1. (w + 1) * Window = w * Window + Window
    BY LimiterAssumption
<1>2. w * Window \in Int
    BY LimiterAssumption
<1>3. QED
    BY <1>1, <1>2, LimiterAssumption
-----------------------------------------------------------------------------
\* What INCRBY and EXPIRE do to the key of window w.
LEMMA IncrementKeeps ==
  ASSUME Fixed!TypeOK, NEW w \in Fixed!Windows, Fixed!Increment(w)
  PROVE  /\ state' \in [Fixed!Windows -> 0..Limit + Cost]
         /\ expiry' \in [Fixed!Windows -> 0..MaxTime + Window]
         /\ expiry'[w] = now + Window
         /\ state'[w] >= 1
         /\ state'[w] <= Limit => state'[w] >= Cost
         /\ now < expiry[w] => state'[w] >= state[w]
         /\ now < expiry[w] /\ state'[w] <= Limit => state'[w] >= state[w] + Cost
         /\ \A v \in Fixed!Windows \ {w} : expiry'[v] = expiry[v] /\ state'[v] = state[v]
<1> DEFINE n == IF now < expiry[w] THEN state[w] ELSE 0
           m == IF n > Limit THEN n ELSE n + Cost
<1>1. n \in 0..Limit + Cost /\ Limit \in Nat /\ Cost \in Nat \ {0}
    BY LimiterAssumption DEF Fixed!TypeOK
<1>2. m \in 0..Limit + Cost /\ m >= 1 /\ m >= n /\ (m <= Limit => m >= n + Cost /\ m >= Cost)
    BY <1>1
<1>3. state' = [state EXCEPT ![w] = m]
    BY DEF Fixed!Increment
<1>4. now + Window \in 0..MaxTime + Window
    BY LimiterAssumption DEF Fixed!TypeOK
<1>5. expiry' = [expiry EXCEPT ![w] = now + Window]
    BY DEF Fixed!Increment, Fixed!Expire
<1>6. /\ state' \in [Fixed!Windows -> 0..Limit + Cost] /\ state'[w] = m
      /\ \A v \in Fixed!Windows \ {w} : state'[v] = state[v]
    BY <1>2, <1>3 DEF Fixed!TypeOK
<1>7. /\ expiry' \in [Fixed!Windows -> 0..MaxTime + Window] /\ expiry'[w] = now + Window
      /\ \A v \in Fixed!Windows \ {w} : expiry'[v] = expiry[v]
    BY <1>4, <1>5 DEF Fixed!TypeOK
<1>8. now < expiry[w] => n = state[w]
    OBVIOUS
<1> HIDE DEF n, m
<1>9. QED
    BY <1>1, <1>2, <1>6, <1>7, <1>8

\* A check's window has begun, so that what it stores lives until the window's
\* end.
LEMMA StampBegan ==
  ASSUME Fixed!TypeOK, FixedPast, NEW c \in Clients, stamp[c] # Fixed!NoStamp
  PROVE  /\ Fixed!WindowOf(stamp[c]) \in Fixed!Windows
         /\ (Fixed!WindowOf(stamp[c]) + 1) * Window <= now + Window
<1> DEFINE w == Fixed!WindowOf(stamp[c])
<1>1. stamp[c] \in 0..MaxTime /\ stamp[c] <= now /\ now \in Nat
    BY LimiterAssumption DEF Fixed!TypeOK, FixedPast, Fixed!NoStamp
<1>2. w \in Fixed!Windows
    BY <1>1 DEF Fixed!Windows
<1>3. w \in Nat /\ w * Window <= stamp[c]
    BY <1>1, WindowStarts
<1>4. (w + 1) * Window <= stamp[c] + Window /\ (w + 1) * Window \in Int
    BY <1>1, <1>3, WindowLength
<1> HIDE DEF w
<1>5. (w + 1) * Window <= now + Window
    BY <1>1, <1>4, LimiterAssumption
<1>6. QED
    BY <1>2, <1>5 DEF w

LEMMA WindowsAreNat == \A w \in Fixed!Windows : w \in Nat /\ (w + 1) * Window \in Int
BY WindowStarts, LimiterAssumption DEF Fixed!Windows

-----------------------------------------------------------------------------
LEMMA FixedTyped ==
  Fixed!TypeOK /\ FixedPast /\ [Fixed!Next]_(Fixed!vars) => Fixed!TypeOK' /\ FixedPast'
<1> SUFFICES ASSUME Fixed!TypeOK, FixedPast, [Fixed!Next]_(Fixed!vars)
             PROVE  Fixed!TypeOK' /\ FixedPast'
    OBVIOUS
<1> USE LimiterAssumption
<1>n. now \in Int /\ Fixed!NoStamp \in Fixed!NoStamp..MaxTime /\ Fixed!NoStamp <= now
    BY DEF Fixed!TypeOK, Fixed!NoStamp
<1>1. ASSUME NEW c \in Clients, Fixed!ReadClock(c) PROVE Fixed!TypeOK' /\ FixedPast'
    <2>1. now \in Fixed!NoStamp..MaxTime
        BY DEF Fixed!TypeOK, Fixed!NoStamp
    <2>2. Fixed!TypeOK'
        BY <1>1, <2>1 DEF Fixed!ReadClock, Fixed!TypeOK
    <2>3. FixedPast'
        BY <1>1, <1>n DEF Fixed!ReadClock, FixedPast, Fixed!TypeOK
    <2>4. QED
        BY <2>2, <2>3
<1>2. ASSUME NEW c \in Clients, stamp[c] # Fixed!NoStamp, now' = now,
             stamp' = [stamp EXCEPT ![c] = Fixed!NoStamp]
      PROVE  /\ now' \in 0..MaxTime
             /\ stamp' \in [Clients -> Fixed!NoStamp..MaxTime]
             /\ FixedPast'
    BY <1>2, <1>n DEF Fixed!TypeOK, FixedPast
<1>3. ASSUME NEW c \in Clients, Fixed!Check(c) PROVE Fixed!TypeOK' /\ FixedPast'
    <2> DEFINE w == Fixed!WindowOf(stamp[c])
    <2>1. w \in Fixed!Windows
        BY <1>3, StampBegan DEF Fixed!Check
    <2>2. granted' \in [Fixed!Windows -> Nat]
        BY <1>3, <2>1 DEF Fixed!Check, Fixed!TypeOK
    <2>3. /\ state' \in [Fixed!Windows -> 0..Limit + Cost]
          /\ expiry' \in [Fixed!Windows -> 0..MaxTime + Window]
        BY <1>3, <2>1, IncrementKeeps DEF Fixed!Check
    <2>4. QED
        BY <1>2, <1>3, <2>2, <2>3 DEF Fixed!Check, Fixed!TypeOK
<1>4. ASSUME NEW c \in Clients, Fixed!Lose(c) PROVE Fixed!TypeOK' /\ FixedPast'
    <2>1. Fixed!WindowOf(stamp[c]) \in Fixed!Windows
        BY <1>4, StampBegan DEF Fixed!Lose
    <2>2. /\ state' \in [Fixed!Windows -> 0..Limit + Cost]
          /\ expiry' \in [Fixed!Windows -> 0..MaxTime + Window]
        BY <1>4, <2>1, IncrementKeeps DEF Fixed!Lose, Fixed!TypeOK
    <2>3. QED
        BY <1>2, <1>4, <2>2 DEF Fixed!Lose, Fixed!TypeOK
<1>5. CASE Fixed!Tick
    <2>1. now' \in 0..MaxTime /\ now <= now'
        BY <1>5 DEF Fixed!Tick, Fixed!TypeOK
    <2>2. \A c \in Clients : stamp[c] \in Int
        BY DEF Fixed!TypeOK, Fixed!NoStamp
    <2>3. QED
        BY <1>5, <1>n, <2>1, <2>2 DEF Fixed!Tick, Fixed!TypeOK, FixedPast
<1>6. CASE UNCHANGED Fixed!vars
    BY <1>6 DEF Fixed!vars, Fixed!TypeOK, FixedPast
<1>7. QED
    BY <1>1, <1>3, <1>4, <1>5, <1>6 DEF Fixed!Next

\* Increment restarts the count only where the window has allowed nothing yet,
\* or is over.
LEMMA FixedExact == FixedInv /\ [Fixed!Next]_(Fixed!vars) => Exact'
<1> SUFFICES ASSUME FixedInv, [Fixed!Next]_(Fixed!vars) PROVE Exact'
    OBVIOUS
<1>t. Fixed!TypeOK /\ FixedPast /\ Exact
    BY DEF FixedInv
<1>i. ASSUME NEW c \in Clients, stamp[c] # Fixed!NoStamp, now' = now,
             NEW w \in Fixed!Windows, w = Fixed!WindowOf(stamp[c]), Fixed!Increment(w),
             granted' \in [Fixed!Windows -> Nat],
             \A v \in Fixed!Windows \ {w} : granted'[v] = granted[v],
             \/ granted'[w] = granted[w]
             \/ state'[w] <= Limit /\ granted'[w] = granted[w] + Cost
      PROVE  Exact'
    <2>1. (w + 1) * Window <= now + Window
        BY <1>t, <1>i, StampBegan
    <2>2. /\ expiry'[w] = now + Window
          /\ state'[w] >= 1
          /\ state'[w] <= Limit => state'[w] >= Cost
          /\ now < expiry[w] => state'[w] >= state[w]
          /\ now < expiry[w] /\ state'[w] <= Limit => state'[w] >= state[w] + Cost
          /\ \A v \in Fixed!Windows \ {w} : expiry'[v] = expiry[v] /\ state'[v] = state[v]
          /\ state' \in [Fixed!Windows -> 0..Limit + Cost]
        BY <1>t, <1>i, IncrementKeeps
    <2>3. ASSUME NEW v \in Fixed!Windows, v # w, now < (v + 1) * Window
          PROVE  KeyLives(v)' /\ Counted(v)'
        BY <1>t, <1>i, <2>2, <2>3 DEF Exact, KeyLives, Counted
    <2>4. ASSUME now < (w + 1) * Window
          PROVE  KeyLives(w)' /\ Counted(w)'
        <3>1. /\ granted[w] \in Nat /\ granted'[w] \in Nat /\ Limit \in Nat /\ Cost \in Nat
              /\ state[w] \in Nat /\ state'[w] \in Nat
              /\ now \in Int /\ expiry[w] \in Int /\ (w + 1) * Window \in Int
            BY <1>t, <1>i, <2>2, WindowsAreNat, LimiterAssumption DEF Fixed!TypeOK
        <3>2. KeyLives(w)'
            BY <2>1, <2>2, <3>1, LimiterAssumption DEF KeyLives
        <3>3. granted[w] <= Limit /\ granted[w] <= state[w]
            BY <1>t, <1>i, <2>4 DEF Exact, Counted
        <3>4. granted[w] > 0 => now < expiry[w]
            BY <1>t, <1>i, <2>4, <3>1 DEF Exact, KeyLives
        <3>5. granted[w] <= state'[w]
            BY <2>2, <3>1, <3>3, <3>4
        <3>6. state'[w] <= Limit => granted[w] + Cost <= state'[w]
            BY <2>2, <3>1, <3>3, <3>4
        <3>7. Counted(w)'
            BY <1>i, <3>1, <3>3, <3>5, <3>6 DEF Counted
        <3>8. QED
            BY <3>2, <3>7
    <2>5. ASSUME NEW v \in Fixed!Windows, now' < (v + 1) * Window
          PROVE  KeyLives(v)' /\ Counted(v)'
        BY <1>i, <2>3, <2>4, <2>5
    <2>6. QED
        BY <2>5 DEF Exact
<1>1. ASSUME NEW c \in Clients, Fixed!ReadClock(c) PROVE Exact'
    BY <1>1, <1>t DEF Fixed!ReadClock, Exact, KeyLives, Counted
<1>2. ASSUME NEW c \in Clients, Fixed!Check(c) PROVE Exact'
    <2>1. PICK w \in Fixed!Windows : w = Fixed!WindowOf(stamp[c])
        BY <1>t, <1>2, StampBegan DEF Fixed!Check
    <2>2. granted' \in [Fixed!Windows -> Nat]
        BY <1>t, <1>2, <2>1, LimiterAssumption DEF Fixed!Check, Fixed!TypeOK
    <2>3. /\ \A v \in Fixed!Windows \ {w} : granted'[v] = granted[v]
          /\ \/ granted'[w] = granted[w]
             \/ state'[w] <= Limit /\ granted'[w] = granted[w] + Cost
        BY <1>t, <1>2, <2>1 DEF Fixed!Check, Fixed!TypeOK, Fixed!Allows
    <2>4. stamp[c] # Fixed!NoStamp /\ now' = now /\ Fixed!Increment(w)
        BY <1>2, <2>1 DEF Fixed!Check
    <2>5. QED
        BY <1>i, <2>1, <2>2, <2>3, <2>4
<1>3. ASSUME NEW c \in Clients, Fixed!Lose(c) PROVE Exact'
    <2>1. PICK w \in Fixed!Windows : w = Fixed!WindowOf(stamp[c])
        BY <1>t, <1>3, StampBegan DEF Fixed!Lose
    <2>2. CASE UNCHANGED <<state, expiry>>
        BY <1>3, <1>t, <2>2 DEF Fixed!Lose, Exact, KeyLives, Counted
    <2>3. CASE Fixed!Increment(w)
        <3>1. /\ stamp[c] # Fixed!NoStamp /\ now' = now
              /\ granted' = granted /\ granted \in [Fixed!Windows -> Nat]
            BY <1>t, <1>3 DEF Fixed!Lose, Fixed!TypeOK
        <3>2. QED
            BY <1>i, <2>1, <2>3, <3>1
    <2>4. QED
        BY <1>3, <2>1, <2>2, <2>3 DEF Fixed!Lose
<1>4. CASE Fixed!Tick
    <2>1. now <= now' /\ now \in Int /\ now' \in Int
        BY <1>4, <1>t, LimiterAssumption DEF Fixed!Tick, Fixed!TypeOK
    <2>2. ASSUME NEW w \in Fixed!Windows, now' < (w + 1) * Window
          PROVE  KeyLives(w)' /\ Counted(w)'
        <3>1. now < (w + 1) * Window
            BY <2>1, <2>2, WindowsAreNat
        <3>2. QED
            BY <1>4, <1>t, <3>1 DEF Fixed!Tick, Exact, KeyLives, Counted
    <2>3. QED
        BY <2>2 DEF Exact
<1>5. CASE UNCHANGED Fixed!vars
    BY <1>5, <1>t DEF Fixed!vars, Exact, KeyLives, Counted
<1>6. QED
    BY <1>1, <1>2, <1>3, <1>4, <1>5 DEF Fixed!Next

LEMMA FixedInit == Fixed!Init => FixedInv
<1> SUFFICES ASSUME Fixed!Init PROVE FixedInv
    OBVIOUS
<1>1. Fixed!TypeOK /\ FixedPast
    BY LimiterAssumption DEF Fixed!Init, Fixed!TypeOK, FixedPast, Fixed!NoStamp
<1>2. Exact
    BY LimiterAssumption DEF Fixed!Init, Exact, KeyLives, Counted
<1>3. QED
    BY <1>1, <1>2 DEF FixedInv

-----------------------------------------------------------------------------
(* The token bucket. *)

Full  == Limit * Window
Price == Cost * Window

Smaller(m, n) == IF m <= n THEN m ELSE n

\* n checks and what a bucket holds are within what was there by time t.
Within(n, left, t) == n * Price + left <= Full + t * Limit

\* What the stored bucket and each check in flight account for is within the limit at
\* the time the account bears, which may be long past.  When a key expires, its
\* account is two windows old: one filled the bucket, and the other one is more than
\* the clock of a prompt check lags behind.
Accounts ==
  /\ Within(counted, state, lastUpdate)
  /\ \/ expiry = 0 /\ counted = 0
     \/ lastUpdate + 2 * Window <= expiry
  /\ \A c \in Clients : pc[c] = "taken" => Within(seen[c] + 1, balance[c], stamp[c])

BucketInv ==
  /\ Bucket!TypeOK
  /\ lastUpdate <= now
  /\ \A c \in Clients : stamp[c] <= now
  /\ prompt => Accounts

-----------------------------------------------------------------------------
LEMMA Amounts ==
  /\ Full \in Nat /\ Price \in Nat /\ Limit \in Nat /\ Window \in Nat
  /\ Bucket!Full = Full /\ Bucket!Price = Price
  /\ \A t \in Int : t * Limit \in Int /\ t * Price \in Int
  /\ \A t \in Nat : t * Limit \in Nat /\ t * Price \in Nat
BY LimiterAssumption DEF Full, Price, Bucket!Full, Bucket!Price

\* Refilling and spending are linear.
LEMMA Refills ==
  ASSUME NEW t \in Int, NEW u \in Int
  PROVE  /\ (u - t) * Limit = u * Limit - t * Limit
         /\ t <= u => t * Limit <= u * Limit
         /\ (t + Window) * Limit = t * Limit + Full
BY LimiterAssumption DEF Full

LEMMA Spends ==
  ASSUME NEW n \in Int, NEW k \in Int
  PROVE  /\ (n + 1) * Price = n * Price + Price
         /\ (n - k) * Price = n * Price - k * Price
         /\ 0 * Price = 0
BY Amounts

LEMMA SmallerIsMin ==
  ASSUME NEW m \in Int, NEW n \in Int PROVE Bucket!Min({m, n}) = Smaller(m, n)
BY DEF Bucket!Min, Smaller

LEMMA BucketTypes ==
  ASSUME Bucket!TypeOK, NEW c \in Clients
  PROVE  /\ now \in Nat /\ state \in Nat /\ state <= Full /\ lastUpdate \in Nat
         /\ expiry \in Nat /\ granted \in Nat /\ counted \in Nat /\ seen[c] \in Nat
         /\ stamp[c] \in Nat /\ balance[c] \in Nat /\ balance[c] <= Full
         /\ pc[c] \in {"idle", "stamped", "taken"}
BY Amounts DEF Bucket!TypeOK

\* What a check finds in a bucket, with its clock before or after the bucket's.
LEMMA BucketFound ==
  ASSUME Bucket!TypeOK, NEW c \in Clients
  PROVE  /\ Bucket!Refilled(c) \in Int /\ Bucket!Refilled(c) <= Full
         /\ now < expiry =>
              Bucket!Refilled(c) <= state + stamp[c] * Limit - lastUpdate * Limit
<1> DEFINE r == (stamp[c] - lastUpdate) * Limit
<1>1. /\ r \in Int /\ r = stamp[c] * Limit - lastUpdate * Limit
      /\ Full \in Nat /\ state \in Nat
    BY BucketTypes, Amounts, Refills
<1>2. Bucket!Refilled(c) = IF now < expiry THEN Bucket!Min({Full, state + r}) ELSE Full
    BY Amounts DEF Bucket!Refilled
<1>3. stamp[c] * Limit \in Int /\ lastUpdate * Limit \in Int
    BY BucketTypes, Amounts
<1> HIDE DEF r
<1>4. Bucket!Min({Full, state + r}) = Smaller(Full, state + r)
    BY <1>1, SmallerIsMin
<1>5. Smaller(Full, state + r) \in Int /\ Smaller(Full, state + r) <= Full
      /\ Smaller(Full, state + r) <= state + r
    BY <1>1 DEF Smaller
<1>6. QED
    BY <1>1, <1>2, <1>3, <1>4, <1>5

LEMMA BucketTyped ==
  Bucket!TypeOK /\ [Bucket!Next]_(Bucket!vars) => Bucket!TypeOK'
<1> SUFFICES ASSUME Bucket!TypeOK, [Bucket!Next]_(Bucket!vars) PROVE Bucket!TypeOK'
    OBVIOUS
<1>f. /\ Full \in Nat /\ Price \in Nat /\ Bucket!Full = Full /\ Bucket!Price = Price
      /\ MaxTime \in Nat /\ Window \in Nat
    BY Amounts, LimiterAssumption
<1>1. ASSUME NEW c \in Clients, Bucket!ReadClock(c) PROVE Bucket!TypeOK'
    BY <1>1 DEF Bucket!ReadClock, Bucket!TypeOK, Bucket!bucketHistory
<1>2. ASSUME NEW c \in Clients, Bucket!Take(c) PROVE Bucket!TypeOK'
    <2>p. prompt' \in BOOLEAN
        BY <1>2 DEF Bucket!Take
    <2>1. CASE Bucket!Refilled(c) < Price
        BY <1>2, <1>f, <2>1, <2>p DEF Bucket!Take, Bucket!TypeOK
    <2>2. CASE ~(Bucket!Refilled(c) < Price)
        <3>1. Bucket!Refilled(c) - Price \in 0..Full
            BY <1>f, <2>2, BucketFound
        <3>2. /\ balance' \in [Clients -> 0..Full]
              /\ pc' \in [Clients -> {"idle", "stamped", "taken"}]
              /\ seen' \in [Clients -> Nat]
            BY <1>2, <1>f, <2>2, <3>1 DEF Bucket!Take, Bucket!TypeOK
        <3>3. QED
            BY <1>2, <1>f, <2>2, <2>p, <3>2 DEF Bucket!Take, Bucket!TypeOK
    <2>3. QED
        BY <2>1, <2>2
<1>s. ASSUME NEW c \in Clients, Bucket!Store(c)
      PROVE  /\ state' \in 0..Full /\ lastUpdate' \in 0..MaxTime
             /\ expiry' \in 0..MaxTime + 2 * Window
    <2>1. now + 2 * Window \in 0..MaxTime + 2 * Window
        BY <1>f DEF Bucket!TypeOK
    <2>2. QED
        BY <1>f, <1>s, <2>1 DEF Bucket!Store, Bucket!TimeToLive, Bucket!TypeOK
<1>e. ASSUME NEW c \in Clients, Bucket!Finish(c)
      PROVE  /\ pc' \in [Clients -> {"idle", "stamped", "taken"}]
             /\ stamp' \in [Clients -> 0..MaxTime]
             /\ balance' \in [Clients -> 0..Full]
             /\ seen' \in [Clients -> Nat]
    BY <1>f, <1>e DEF Bucket!Finish, Bucket!TypeOK
<1>3. ASSUME NEW c \in Clients, Bucket!Allow(c) PROVE Bucket!TypeOK'
    BY <1>3, <1>e, <1>f, <1>s DEF Bucket!Allow, Bucket!TypeOK
<1>4. ASSUME NEW c \in Clients, Bucket!Lose(c) PROVE Bucket!TypeOK'
    BY <1>4, <1>e, <1>f, <1>s DEF Bucket!Lose, Bucket!TypeOK
<1>5. CASE Bucket!Tick
    <2>1. now' \in 0..MaxTime
        BY <1>5, <1>f DEF Bucket!Tick, Bucket!TypeOK
    <2>2. QED
        BY <1>5, <2>1 DEF Bucket!Tick, Bucket!TypeOK, Bucket!bucketHistory
<1>6. CASE UNCHANGED Bucket!vars
    BY <1>6 DEF Bucket!vars, Bucket!TypeOK, Bucket!bucketHistory
<1>7. QED
    BY <1>1, <1>2, <1>3, <1>4, <1>5, <1>6 DEF Bucket!Next

-----------------------------------------------------------------------------
\* A prompt check takes its tokens within the limit of its own clock.
LEMMA TakeKeeps ==
  ASSUME BucketInv, Accounts, NEW c \in Clients, now - stamp[c] <= Window
  PROVE  Within(counted, Bucket!Refilled(c), stamp[c])
<1> DEFINE s == stamp[c] * Limit
           l == lastUpdate * Limit
           spent == counted * Price
<1>1. /\ s \in Int /\ l \in Int /\ spent \in Int /\ s >= 0
      /\ state \in Nat /\ Full \in Nat
      /\ Bucket!Refilled(c) \in Int /\ Bucket!Refilled(c) <= Full
    BY BucketTypes, BucketFound, Amounts DEF BucketInv
<1>2. spent + state <= Full + l
    BY DEF Accounts, Within
<1>3. CASE now < expiry
    <2>1. Bucket!Refilled(c) <= state + s - l
        BY <1>3, BucketFound DEF BucketInv
    <2> HIDE DEF s, l, spent
    <2>2. spent + Bucket!Refilled(c) <= Full + s
        BY <1>1, <1>2, <2>1
    <2>3. QED
        BY <2>2 DEF Within, s, spent
<1>4. CASE ~(now < expiry)
    <2>1. spent <= s
        <3>1. CASE expiry = 0 /\ counted = 0
            BY <1>1, <3>1, Spends
        <3>2. CASE lastUpdate + 2 * Window <= expiry
            <4>1. /\ now \in Int /\ expiry \in Int /\ lastUpdate \in Int /\ stamp[c] \in Int
                  /\ Window \in Int
                BY BucketTypes, Amounts DEF BucketInv
            <4>2. lastUpdate + Window <= stamp[c] /\ lastUpdate + Window \in Int
                BY <1>4, <3>2, <4>1
            <4>3. l + Full <= s
                BY <4>1, <4>2, Refills
            <4> HIDE DEF s, l, spent
            <4>4. QED
                BY <1>1, <1>2, <4>3
        <3>3. QED
            BY <3>1, <3>2 DEF Accounts
    <2> HIDE DEF s, l, spent
    <2>2. spent + Bucket!Refilled(c) <= Full + s
        BY <1>1, <2>1
    <2>3. QED
        BY <2>2 DEF Within, s, spent
<1>5. QED
    BY <1>3, <1>4

\* A store makes the account of its check that of the bucket.
LEMMA StoreKeeps ==
  ASSUME BucketInv, Bucket!TypeOK', NEW c \in Clients, pc[c] = "taken",
         Bucket!Store(c), Bucket!Finish(c), now' = now, prompt' = prompt,
         counted' \in {seen[c], seen[c] + 1}
  PROVE  BucketInv'
<1>1. /\ state' = balance[c] /\ lastUpdate' = stamp[c] /\ expiry' = now + 2 * Window
      /\ pc'[c] = "idle" /\ stamp'[c] = 0
      /\ \A d \in Clients \ {c} : /\ pc'[d] = pc[d] /\ stamp'[d] = stamp[d]
                                  /\ balance'[d] = balance[d] /\ seen'[d] = seen[d]
    BY DEF Bucket!Store, Bucket!TimeToLive, Bucket!Finish, BucketInv, Bucket!TypeOK
<1>2. /\ now \in Nat /\ stamp[c] \in Nat /\ balance[c] \in Nat /\ seen[c] \in Nat
      /\ stamp[c] <= now /\ Price \in Nat /\ Full \in Nat /\ Window \in Nat
    BY BucketTypes, Amounts DEF BucketInv
<1>3. lastUpdate' <= now' /\ \A d \in Clients : stamp'[d] <= now'
    BY <1>1, <1>2 DEF BucketInv
<1>4. ASSUME Accounts PROVE Accounts'
    <2>1. Within(seen[c] + 1, balance[c], stamp[c])
        BY <1>4 DEF Accounts
    <2>2. Within(counted', balance[c], stamp[c])
        <3>1. (seen[c] + 1) * Price = seen[c] * Price + Price
            BY <1>2, Spends
        <3>2. seen[c] * Price \in Nat /\ stamp[c] * Limit \in Int
            BY <1>2, Amounts
        <3>3. CASE counted' = seen[c]
            BY <1>2, <2>1, <3>1, <3>2, <3>3 DEF Within
        <3>4. QED
            BY <2>1, <3>3
    <2>3. Within(counted, state, lastUpdate)'
        BY <1>1, <2>2 DEF Within
    <2>4. lastUpdate' + 2 * Window <= expiry'
        BY <1>1, <1>2
    <2>5. ASSUME NEW d \in Clients, pc'[d] = "taken"
          PROVE  Within(seen'[d] + 1, balance'[d], stamp'[d])
        BY <1>1, <1>4, <2>5 DEF Accounts
    <2>6. QED
        BY <2>3, <2>4, <2>5 DEF Accounts, Within
<1>5. QED
    BY <1>3, <1>4 DEF BucketInv

LEMMA BucketNext == BucketInv /\ [Bucket!Next]_(Bucket!vars) => BucketInv'
<1> SUFFICES ASSUME BucketInv, [Bucket!Next]_(Bucket!vars) PROVE BucketInv'
    OBVIOUS
<1>t. Bucket!TypeOK /\ Bucket!TypeOK'
    BY BucketTyped DEF BucketInv
<1>f. Full \in Nat /\ Price \in Nat /\ Window \in Nat
    BY Amounts
<1>1. ASSUME NEW c \in Clients, Bucket!ReadClock(c) PROVE BucketInv'
    <2>1. /\ UNCHANGED <<now, state, lastUpdate, expiry, balance, counted, seen, prompt>>
          /\ stamp'[c] = now /\ pc'[c] = "stamped" /\ now \in Nat
          /\ \A d \in Clients \ {c} : pc'[d] = pc[d] /\ stamp'[d] = stamp[d]
        BY <1>1, <1>t DEF Bucket!ReadClock, Bucket!TypeOK, Bucket!bucketHistory
    <2>2. Accounts => Accounts'
        BY <2>1 DEF Accounts, Within
    <2>3. QED
        BY <1>t, <2>1, <2>2 DEF BucketInv
<1>2. ASSUME NEW c \in Clients, Bucket!Take(c) PROVE BucketInv'
    <2>1. /\ UNCHANGED <<now, state, lastUpdate, expiry, stamp, counted>>
          /\ pc[c] = "stamped"
          /\ prompt' => prompt /\ now - stamp[c] <= Window
          /\ \A d \in Clients \ {c} : /\ pc'[d] = pc[d] /\ balance'[d] = balance[d]
                                      /\ seen'[d] = seen[d]
        <3>1. CASE Bucket!Refilled(c) < Price
            BY <1>2, <1>t, <3>1, Amounts DEF Bucket!Take, Bucket!TypeOK
        <3>2. CASE ~(Bucket!Refilled(c) < Price)
            BY <1>2, <1>t, <3>2, Amounts DEF Bucket!Take, Bucket!TypeOK
        <3>3. QED
            BY <3>1, <3>2
    <2>2. ASSUME prompt' PROVE pc'[c] = "taken" => Within(seen'[c] + 1, balance'[c], stamp[c])
        <3>1. CASE Bucket!Refilled(c) < Price
            BY <1>2, <1>t, <3>1, Amounts DEF Bucket!Take, Bucket!TypeOK
        <3>2. CASE ~(Bucket!Refilled(c) < Price)
            <4>1. balance'[c] = Bucket!Refilled(c) - Price /\ seen'[c] = counted
                BY <1>2, <1>t, <3>2, Amounts DEF Bucket!Take, Bucket!TypeOK
            <4>2. Within(counted, Bucket!Refilled(c), stamp[c])
                BY <2>1, <2>2, TakeKeeps DEF BucketInv
            <4>3. /\ counted * Price \in Int /\ stamp[c] * Limit \in Int
                  /\ (counted + 1) * Price = counted * Price + Price
                  /\ Bucket!Refilled(c) \in Int
                <5>1. counted \in Int /\ stamp[c] \in Int
                    BY <1>t, BucketTypes
                <5>2. Bucket!Refilled(c) \in Int
                    BY <1>t, BucketFound
                <5>3. QED
                    BY <5>1, <5>2, Amounts, Spends
            <4>4. QED
                BY <1>f, <4>1, <4>2, <4>3 DEF Within
        <3>3. QED
            BY <3>1, <3>2
    <2>3. prompt' => Accounts'
        BY <2>1, <2>2 DEF BucketInv, Accounts, Within
    <2>4. QED
        BY <1>t, <2>1, <2>3 DEF BucketInv
<1>3. ASSUME NEW c \in Clients, Bucket!Allow(c) PROVE BucketInv'
    BY <1>3, <1>t, StoreKeeps DEF Bucket!Allow
<1>4. ASSUME NEW c \in Clients, Bucket!Lose(c) PROVE BucketInv'
    <2>1. CASE UNCHANGED <<state, lastUpdate, expiry, counted>>
        <3>1. /\ UNCHANGED <<now, prompt>> /\ pc'[c] = "idle" /\ stamp'[c] = 0
              /\ now \in Nat
              /\ \A d \in Clients \ {c} : /\ pc'[d] = pc[d] /\ stamp'[d] = stamp[d]
                                          /\ balance'[d] = balance[d] /\ seen'[d] = seen[d]
            BY <1>4, <1>t DEF Bucket!Lose, Bucket!Finish, Bucket!TypeOK
        <3>2. Accounts => Accounts'
            BY <2>1, <3>1 DEF Accounts, Within
        <3>3. QED
            BY <1>t, <2>1, <3>1, <3>2 DEF BucketInv
    <2>2. CASE pc[c] = "taken" /\ Bucket!Store(c) /\ counted' = seen[c]
        BY <1>4, <1>t, <2>2, StoreKeeps DEF Bucket!Lose
    <2>3. QED
        BY <1>4, <2>1, <2>2 DEF Bucket!Lose
<1>5. CASE Bucket!Tick
    <2>1. /\ UNCHANGED <<state, lastUpdate, expiry, pc, stamp, balance, counted, seen, prompt>>
          /\ now <= now' /\ now \in Nat /\ now' \in Nat /\ lastUpdate \in Nat
        BY <1>5, <1>t, Amounts DEF Bucket!Tick, Bucket!TypeOK, Bucket!bucketHistory
    <2>2. \A c \in Clients : stamp[c] <= now'
        BY <1>t, <2>1, BucketTypes DEF BucketInv
    <2>3. QED
        BY <1>t, <2>1, <2>2 DEF BucketInv, Accounts, Within
<1>6. CASE UNCHANGED Bucket!vars
    BY <1>6, <1>t DEF Bucket!vars, Bucket!bucketHistory, BucketInv, Accounts, Within
<1>7. QED
    BY <1>1, <1>2, <1>3, <1>4, <1>5, <1>6 DEF Bucket!Next

LEMMA BucketInit == Bucket!Init => BucketInv
<1> SUFFICES ASSUME Bucket!Init PROVE BucketInv
    OBVIOUS
<1>1. Bucket!TypeOK
    BY Amounts, LimiterAssumption DEF Bucket!Init, Bucket!HistoryInit, Bucket!TypeOK
<1>2. 0 * Price = 0 /\ 0 * Limit = 0 /\ Full \in Nat
    BY Amounts, LimiterAssumption
<1>3. Accounts
    BY <1>2 DEF Bucket!Init, Bucket!HistoryInit, Accounts, Within
<1>4. QED
    BY <1>1, <1>3 DEF Bucket!Init, BucketInv

LEMMA BucketKeepsLimit == BucketInv => Bucket!OverrunIsUndone
<1> SUFFICES ASSUME BucketInv, Accounts PROVE granted * Price <= Full + now * Limit
                                              + (granted - counted) * Price
    BY Amounts DEF Bucket!OverrunIsUndone, Bucket!Undone, BucketInv
<1>1. /\ granted \in Int /\ counted \in Int /\ state \in Nat /\ now \in Int
      /\ lastUpdate \in Int /\ lastUpdate <= now
    BY Amounts DEF BucketInv, Bucket!TypeOK
<1>2. /\ granted * Price \in Int /\ counted * Price \in Int
      /\ now * Limit \in Int /\ lastUpdate * Limit \in Int /\ Full \in Nat
      /\ lastUpdate * Limit <= now * Limit
      /\ (granted - counted) * Price = granted * Price - counted * Price
    BY <1>1, Amounts, Refills, Spends
<1>3. counted * Price + state <= Full + lastUpdate * Limit
    BY DEF Accounts, Within
<1>4. QED
    BY <1>1, <1>2, <1>3

-----------------------------------------------------------------------------
(* The limiter. *)

LimiterInv ==
  \/ rule = "sliding_window" /\ SlidingInv
  \/ rule = "fixed_window" /\ FixedInv
  \/ rule = "token_bucket" /\ BucketInv

LEMMA LimiterInvariant == LimiterSpec => []LimiterInv
<1>1. LimiterInit => LimiterInv
    BY SlidingInit, FixedInit, BucketInit DEF LimiterInit, LimiterInv
<1>2. LimiterInv /\ [LimiterNext]_limiterVars => LimiterInv'
    <2> SUFFICES ASSUME LimiterInv, [LimiterNext]_limiterVars PROVE LimiterInv'
        OBVIOUS
    <2>1. UNCHANGED rule
        BY DEF LimiterNext, limiterVars
    <2>2. CASE rule = "sliding_window"
        <3>1. SlidingInv /\ [Sliding!Next]_(Sliding!vars)
            BY <2>2 DEF LimiterInv, LimiterNext, limiterVars, bucketVars, Sliding!vars
        <3>2. QED
            BY <2>1, <2>2, <3>1, SlidingNext DEF LimiterInv
    <2>3. CASE rule = "fixed_window"
        <3>1. FixedInv /\ [Fixed!Next]_(Fixed!vars)
            BY <2>3 DEF LimiterInv, LimiterNext, limiterVars, bucketVars, Fixed!vars
        <3>2. QED
            BY <2>1, <2>3, <3>1, FixedTyped, FixedExact DEF LimiterInv, FixedInv
    <2>4. CASE rule = "token_bucket"
        <3>1. BucketInv /\ [Bucket!Next]_(Bucket!vars)
            BY <2>4 DEF LimiterInv, LimiterNext, limiterVars, bucketVars, Bucket!vars, Bucket!bucketHistory
        <3>2. QED
            BY <2>1, <2>4, <3>1, BucketNext DEF LimiterInv
    <2>5. QED
        BY <2>2, <2>3, <2>4 DEF LimiterInv
<1>3. QED
    BY <1>1, <1>2, PTL DEF LimiterSpec

\* LimiterTypeOK, for all parameters: in particular no amount leaves its range, a bucket
\* whose clock runs backwards included.
THEOREM LimiterTyped == LimiterSpec => []LimiterTypeOK
<1>1. LimiterInv => LimiterTypeOK
    BY DEF LimiterInv, SlidingInv, FixedInv, BucketInv, LimiterTypeOK
<1>2. QED
    BY <1>1, LimiterInvariant, PTL

\* For all parameters: of the checks allowed in the last Window, none has dropped
\* out of the count (rate_limiter.py, _sliding_window_limit).
THEOREM SlidingRemembers == LimiterSpec => []NothingForgotten
<1>1. LimiterInv => NothingForgotten
    <2> SUFFICES ASSUME SlidingInv PROVE Sliding!NothingForgotten
        BY DEF LimiterInv, NothingForgotten
    <2>1. Sliding!Recent(granted) \subseteq Sliding!Recent(state)
        BY DEF SlidingInv, Remembered, Sliding!Recent
    <2>2. QED
        BY <2>1, RecentIsLive DEF SlidingInv, Sliding!NothingForgotten
<1>2. QED
    BY <1>1, LimiterInvariant, PTL

\* For all parameters: n gateway workers that check concurrently exceed a sliding
\* limit by n - 1 requests at most, however many are lost in their awaits.
THEOREM SlidingOverrun == LimiterSpec => []OverrunBounded
<1>1. LimiterInv => OverrunBounded
    BY DEF LimiterInv, SlidingInv, OverrunBounded
<1>2. QED
    BY <1>1, LimiterInvariant, PTL

\* For all parameters: while a fixed window lasts, checks of at most Limit in all
\* are allowed, however many workers check concurrently (_fixed_window_limit).
THEOREM FixedIsExact == LimiterSpec => []ExactInWindow
<1>1. LimiterInv => ExactInWindow
    BY DEF LimiterInv, FixedInv, Exact, Counted, ExactInWindow, Fixed!ExactInWindow
<1>2. QED
    BY <1>1, LimiterInvariant, PTL

\* For all parameters and any number of concurrent checks: what they spend beyond a
\* full bucket and what time has refilled is only what their SETs undid of one another,
\* with clocks that run backwards, keys that expire and checks that are lost, as long
\* as each came to its GET within a window of its clock (_token_bucket_limit).
THEOREM BucketKept == LimiterSpec => []OverrunIsUndone
<1>1. LimiterInv => OverrunIsUndone
    BY BucketKeepsLimit DEF LimiterInv, OverrunIsUndone
<1>2. QED
    BY <1>1, LimiterInvariant, PTL
=============================================================================
