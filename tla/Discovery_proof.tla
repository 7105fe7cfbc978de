-------------------------- MODULE Discovery_proof --------------------------
(***************************************************************************)
(* The replay cache may forget an announcement only once the freshness     *)
(* window refuses it: proved for every window, cache limit, interval and   *)
(* clock difference, and any number of devices and announcements.          *)
(***************************************************************************)
EXTENDS Discovery, FiniteSetTheorems, TLAPS

(* Timestamps are natural numbers because the clock stays above MaxSkew.   *)
TypeInv == TypeOK /\ now + back >= Start

LEMMA TypeInit == Init => TypeInv
BY WindowAssumption, ClockAssumption DEF Init, TypeInv, TypeOK

LEMMA TypeStep == TypeInv /\ [Next]_vars => TypeInv'
<1> SUFFICES ASSUME TypeInv, [Next]_vars PROVE TypeInv'
  OBVIOUS
<1> USE WindowAssumption, ClockAssumption DEF TypeInv, TypeOK
<1>1. ASSUME NEW d \in Devices, Announce(d) PROVE TypeInv'
  <2>1. PICK n \in Nonces, t \in (now - MaxSkew)..(now + MaxSkew) :
          sent' = sent \cup {[key |-> <<d, n>>, timestamp |-> t]}
    BY <1>1 DEF Announce
  <2>2. t \in Nat /\ <<d, n>> \in Key
    BY <2>1 DEF Key
  <2>3. sent' \subseteq Announcement
    BY <2>1, <2>2 DEF Announcement
  <2> QED
    BY <1>1, <2>3 DEF Announce
<1>2. ASSUME NEW a \in sent, Accept(a) PROVE TypeInv'
  <2>1. a.key \in Key /\ a.timestamp \in Nat
    BY DEF Announcement
  <2>2. Entry(a) \in ReplayEntry /\ Pruned \subseteq ReplayEntry
    BY <2>1 DEF Entry, ReplayEntry, Pruned
  <2>3. times' \in [Key -> Nat]
    BY <1>2, <2>1 DEF Accept
  <2> QED
    BY <1>2, <2>2, <2>3 DEF Accept
<1>3. CASE Refuse
  BY <1>3 DEF Refuse, Pruned
<1>4. CASE Tick
  BY <1>4 DEF Tick, Rested
<1>5. CASE SetBack
  BY <1>5 DEF SetBack
<1>6. CASE UNCHANGED vars
  BY <1>6 DEF vars
<1> QED
  BY <1>1, <1>2, <1>3, <1>4, <1>5, <1>6 DEF Next

(* Every variable stays in its type.                                       *)
THEOREM TypeCorrect == Spec => []TypeOK
<1>1. TypeInv => TypeOK
  BY DEF TypeInv
<1> QED
  BY <1>1, TypeInit, TypeStep, PTL DEF Spec

-----------------------------------------------------------------------------
(* Nonces are not drawn twice.                                             *)
UniqueKeys == \A a, b \in sent : a.key = b.key => a = b

(* A cache entry is that of an announcement that was fresh on acceptance.  *)
EntriesSound ==
    \A e \in seen :
        /\ \E a \in sent : a.key = e.key /\ a.timestamp = e.announcement_timestamp
        /\ e.accepted_at <= now
        /\ e.announcement_timestamp <= e.accepted_at + MaxFuture

(* What has been accepted is in the cache or stale, and was sent.          *)
AcceptedKnown ==
    \A k \in Key : times[k] # 0 =>
        \E a \in sent : /\ a.key = k
                        /\ k \in Keys(seen) \/ now > a.timestamp + MaxAge

ReplayInv ==
    /\ UniqueKeys
    /\ back = 0 => EntriesSound /\ AcceptedKnown /\ AcceptedOnce

LEMMA ReplayInit == Init => ReplayInv
BY DEF Init, ReplayInv, UniqueKeys, EntriesSound, AcceptedKnown, AcceptedOnce

(* What pruning drops is stale.                                            *)
LEMMA PrunedIsStale ==
    ASSUME TypeInv, EntriesSound, NEW e \in seen, e \notin Pruned
    PROVE  now > e.announcement_timestamp + MaxAge
<1>1. /\ now \in Nat /\ MaxAge \in Nat /\ MaxFuture \in Nat
      /\ e.accepted_at \in Nat /\ e.announcement_timestamp \in Nat
  BY WindowAssumption DEF TypeInv, TypeOK, ReplayEntry
<1>2. e.announcement_timestamp <= e.accepted_at + MaxFuture
  BY DEF EntriesSound
<1>3. ~Retained(e)
  BY DEF Pruned
<1> QED
  BY <1>1, <1>2, <1>3 DEF Retained, SaturatingSub

(* So a fresh announcement that the cache does not know is a new one.      *)
LEMMA FreshIsNew ==
    ASSUME TypeInv, ReplayInv, back = 0,
           NEW a \in sent, Fresh(a), a.key \notin Keys(Pruned)
    PROVE  times[a.key] = 0
<1>1. /\ now \in Nat /\ MaxAge \in Nat /\ a.timestamp \in Nat /\ a.key \in Key
  BY WindowAssumption DEF TypeInv, TypeOK, Announcement
<1>2. now <= a.timestamp + MaxAge
  BY <1>1 DEF Fresh, SaturatingSub
<1>3. SUFFICES ASSUME times[a.key] # 0 PROVE FALSE
  OBVIOUS
<1>4. PICK b \in sent : /\ b.key = a.key
                        /\ a.key \in Keys(seen) \/ now > b.timestamp + MaxAge
  BY <1>1, <1>3 DEF ReplayInv, AcceptedKnown
<1>5. b = a
  BY <1>4 DEF ReplayInv, UniqueKeys
<1>6. PICK e \in seen : e.key = a.key
  BY <1>1, <1>2, <1>4, <1>5 DEF Keys
<1>7. e.announcement_timestamp = a.timestamp
  BY <1>6 DEF ReplayInv, EntriesSound, UniqueKeys
<1>8. e \in Pruned
  BY <1>1, <1>2, <1>6, <1>7, PrunedIsStale DEF ReplayInv
<1> QED
  BY <1>6, <1>8 DEF Keys

(* Pruning keeps the invariant.                                            *)
LEMMA PruneStep ==
    ASSUME TypeInv, ReplayInv, back = 0, UNCHANGED <<now, sent>>,
           Pruned \subseteq seen', NEW k \in Key, times[k] # 0
    PROVE  \E a \in sent' : /\ a.key = k
                            /\ k \in Keys(seen') \/ now' > a.timestamp + MaxAge
<1>1. PICK a \in sent : /\ a.key = k
                        /\ k \in Keys(seen) \/ now > a.timestamp + MaxAge
  BY DEF ReplayInv, AcceptedKnown
<1>2. CASE now > a.timestamp + MaxAge
  BY <1>1, <1>2
<1>3. CASE k \in Keys(seen)
  <2>1. PICK e \in seen : e.key = k
    BY <1>3 DEF Keys
  <2>2. e.announcement_timestamp = a.timestamp
    BY <1>1, <2>1 DEF ReplayInv, EntriesSound, UniqueKeys
  <2>3. CASE e \in Pruned
    BY <1>1, <2>1, <2>3 DEF Keys
  <2>4. CASE e \notin Pruned
    BY <1>1, <2>1, <2>2, <2>4, PrunedIsStale DEF ReplayInv
  <2> QED
    BY <2>3, <2>4
<1> QED
  BY <1>1, <1>2, <1>3

LEMMA ReplayStep == TypeInv /\ ReplayInv /\ [Next]_vars => ReplayInv'
<1> SUFFICES ASSUME TypeInv, ReplayInv, [Next]_vars PROVE ReplayInv'
  OBVIOUS
<1>t. /\ now \in Nat /\ back \in Nat /\ times \in [Key -> Nat]
      /\ sent \subseteq Announcement /\ seen \subseteq ReplayEntry
      /\ MaxAge \in Nat /\ MaxFuture \in Nat
  BY WindowAssumption, ClockAssumption DEF TypeInv, TypeOK
<1>1. ASSUME NEW d \in Devices, Announce(d) PROVE ReplayInv'
  <2>1. PICK n \in Nonces, t \in (now - MaxSkew)..(now + MaxSkew) :
          /\ \A a \in sent : a.key # <<d, n>>
          /\ sent' = sent \cup {[key |-> <<d, n>>, timestamp |-> t]}
    BY <1>1 DEF Announce
  <2>2. UniqueKeys'
    BY <2>1 DEF ReplayInv, UniqueKeys
  <2>3. sent \subseteq sent' /\ UNCHANGED <<now, back, seen, times>>
    BY <1>1, <2>1 DEF Announce
  <2> QED
    BY <2>2, <2>3
    DEF ReplayInv, EntriesSound, AcceptedKnown, AcceptedOnce, Keys
<1>2. ASSUME NEW a \in sent, Accept(a) PROVE ReplayInv'
  <2>1. /\ UNCHANGED <<now, back, sent>>
        /\ Fresh(a) /\ a.key \notin Keys(Pruned)
        /\ seen' = Pruned \cup {Entry(a)}
        /\ times' = [times EXCEPT ![a.key] = @ + 1]
    BY <1>2 DEF Accept
  <2>2. UniqueKeys'
    BY <2>1 DEF ReplayInv, UniqueKeys
  <2>3. ASSUME back = 0 PROVE EntriesSound' /\ AcceptedKnown' /\ AcceptedOnce'
    <3>1. times[a.key] = 0 /\ a.key \in Key /\ a.timestamp \in Nat
      BY <1>t, <2>1, <2>3, FreshIsNew DEF Announcement
    <3>2. EntriesSound'
      <4>1. \A e \in Pruned : e \in seen
        BY DEF Pruned
      <4>2. /\ Entry(a).key = a.key /\ Entry(a).accepted_at = now
            /\ Entry(a).announcement_timestamp = a.timestamp
        BY DEF Entry
      <4>3. a.timestamp <= now + MaxFuture
        BY <2>1 DEF Fresh
      <4> QED
        BY <1>t, <2>1, <2>3, <4>1, <4>2, <4>3 DEF ReplayInv, EntriesSound
    <3>3. AcceptedKnown'
      <4>1. ASSUME NEW k \in Key, k # a.key, times'[k] # 0
            PROVE  \E b \in sent' : /\ b.key = k
                                    /\ k \in Keys(seen') \/ now' > b.timestamp + MaxAge
        BY <1>t, <2>1, <2>3, <4>1, PruneStep
      <4>2. a.key \in Keys(seen')
        <5>1. Entry(a) \in seen' /\ Entry(a).key = a.key
          BY <2>1 DEF Entry
        <5> QED
          BY <5>1 DEF Keys
      <4> QED
        BY <2>1, <4>1, <4>2 DEF AcceptedKnown
    <3>4. AcceptedOnce'
      BY <1>t, <2>1, <2>3, <3>1 DEF ReplayInv, AcceptedOnce
    <3> QED
      BY <3>2, <3>3, <3>4
  <2> QED
    BY <2>1, <2>2, <2>3 DEF ReplayInv
<1>3. CASE Refuse
  <2>1. seen' = Pruned /\ Pruned \subseteq seen /\ UNCHANGED <<now, back, sent, times>>
    BY <1>3 DEF Refuse, Pruned
  <2>2. ASSUME back = 0 PROVE AcceptedKnown'
    BY <2>1, <2>2, PruneStep DEF AcceptedKnown
  <2> QED
    BY <2>1, <2>2 DEF ReplayInv, UniqueKeys, EntriesSound, AcceptedOnce
<1>4. CASE Tick
  <2>1. now' = now + 1 /\ UNCHANGED <<back, sent, seen, times>>
    BY <1>4 DEF Tick
  <2>2. UniqueKeys'
    BY <2>1 DEF ReplayInv, UniqueKeys
  <2>3. ASSUME back = 0 PROVE EntriesSound' /\ AcceptedKnown' /\ AcceptedOnce'
    <3>1. EntriesSound'
      BY <1>t, <2>1, <2>3 DEF ReplayInv, EntriesSound, ReplayEntry
    <3>2. AcceptedKnown'
      BY <1>t, <2>1, <2>3 DEF ReplayInv, AcceptedKnown, Announcement
    <3>3. AcceptedOnce'
      BY <2>1, <2>3 DEF ReplayInv, AcceptedOnce
    <3> QED
      BY <3>1, <3>2, <3>3
  <2> QED
    BY <2>1, <2>2, <2>3 DEF ReplayInv
<1>5. CASE SetBack
  <2>1. back' # 0 /\ sent' = sent
    BY <1>t, <1>5, ClockAssumption DEF SetBack
  <2> QED
    BY <2>1 DEF ReplayInv, UniqueKeys
<1>6. CASE UNCHANGED vars
  BY <1>6
  DEF vars, ReplayInv, UniqueKeys, EntriesSound, AcceptedKnown, AcceptedOnce, Keys
<1> QED
  BY <1>1, <1>2, <1>3, <1>4, <1>5, <1>6 DEF Next

(* A verifier whose clock has not been set back accepts no announcement    *)
(* twice.                                                                  *)
THEOREM NoReplay == Spec => []AcceptedOnce
<1>1. ReplayInv => AcceptedOnce
  BY DEF ReplayInv, AcceptedOnce
<1> QED
  BY <1>1, TypeInit, TypeStep, ReplayInit, ReplayStep, PTL DEF Spec

-----------------------------------------------------------------------------
(* Room in the cache.                                                      *)

(* When each announcement may have been sent, were the times known: the    *)
(* devices keep their interval, whatever their clocks show.                *)
SentAt(at) ==
    /\ \A a \in sent : /\ at[a] + quiet[a.key[1]] <= now
                       /\ a.timestamp <= at[a] + MaxSkew
    /\ \A a, b \in sent : a # b /\ a.key[1] = b.key[1] =>
          at[a] + Interval <= at[b] \/ at[b] + Interval <= at[a]

RoomInv ==
    /\ \A e, f \in seen : e.key = f.key => e = f
    /\ back = 0 => \E at \in [sent -> Nat] : SentAt(at)

LEMMA RoomInit == Init => RoomInv
<1> SUFFICES ASSUME Init PROVE RoomInv
  OBVIOUS
<1>1. [a \in sent |-> 0] \in [sent -> Nat] /\ SentAt([a \in sent |-> 0])
  BY DEF Init, SentAt
<1> QED  BY <1>1 DEF Init, RoomInv

LEMMA SpacedAnnounce ==
  ASSUME TypeInv, NEW d \in Devices, Announce(d), NEW at \in [sent -> Nat], SentAt(at)
  PROVE  \E u \in [sent' -> Nat] : SentAt(u)'
<1>1. PICK n \in Nonces, t \in (now - MaxSkew)..(now + MaxSkew) :
         /\ \A a \in sent : a.key # <<d, n>>
         /\ sent' = sent \cup {[key |-> <<d, n>>, timestamp |-> t]}
  BY DEF Announce
<1>2. PICK b : b = [key |-> <<d, n>>, timestamp |-> t]
  OBVIOUS
<1>3. /\ sent' = sent \cup {b} /\ b \notin sent
      /\ b.key[1] = d /\ b.timestamp <= now + MaxSkew
  BY <1>1, <1>2, ClockAssumption DEF TypeInv, TypeOK
<1>4. PICK u : u = [a \in sent' |-> IF a \in sent THEN at[a] ELSE now]
  OBVIOUS
<1>5. /\ u \in [sent' -> Nat] /\ u[b] = now /\ \A a \in sent : u[a] = at[a]
  BY <1>3, <1>4 DEF TypeInv, TypeOK
<1>6. /\ now' = now /\ now \in Nat /\ Interval \in Nat \ {0}
      /\ quiet[d] = Interval /\ quiet'[d] = 0
      /\ \A c \in Devices : c # d => quiet'[c] = quiet[c]
      /\ \A c \in Devices : quiet[c] \in Nat
      /\ \A a \in sent : a.key[1] \in Devices
  BY WindowAssumption DEF TypeInv, TypeOK, Announce, Announcement, Key
<1>7. ASSUME NEW a \in sent
      PROVE  /\ u[a] + quiet'[a.key[1]] <= now'
             /\ a.timestamp <= u[a] + MaxSkew
             /\ a.key[1] = d => u[a] + Interval <= u[b]
  <2>1. /\ at[a] \in Nat /\ at[a] + quiet[a.key[1]] <= now /\ a.timestamp <= at[a] + MaxSkew
    BY DEF SentAt
  <2> QED  BY <1>5, <1>6, <2>1
<1>8. /\ u[b] + quiet'[b.key[1]] <= now' /\ b.timestamp <= u[b] + MaxSkew
  BY <1>3, <1>5, <1>6
<1>9. ASSUME NEW a \in sent', NEW c \in sent', a # c, a.key[1] = c.key[1]
      PROVE  u[a] + Interval <= u[c] \/ u[c] + Interval <= u[a]
  <2>1. CASE a \in sent /\ c \in sent
    BY <1>5, <1>9, <2>1 DEF SentAt
  <2>2. CASE a = b /\ c \in sent
    BY <1>3, <1>7, <1>9, <2>2
  <2>3. CASE c = b /\ a \in sent
    BY <1>3, <1>7, <1>9, <2>3
  <2> QED  BY <1>3, <1>9, <2>1, <2>2, <2>3
<1>10. SentAt(u)'
  BY <1>3, <1>7, <1>8, <1>9 DEF SentAt
<1> QED  BY <1>5, <1>10

LEMMA RoomStep == TypeInv /\ RoomInv /\ [Next]_vars => RoomInv'
<1> SUFFICES ASSUME TypeInv, RoomInv, [Next]_vars PROVE RoomInv'
  OBVIOUS
<1>1. ASSUME seen' = Pruned, UNCHANGED <<now, back, quiet, sent>>
      PROVE  RoomInv'
  BY <1>1 DEF RoomInv, SentAt, Pruned
<1>2. ASSUME NEW d \in Devices, Announce(d)
      PROVE  RoomInv'
  <2>1. seen' = seen /\ back' = back
    BY <1>2 DEF Announce
  <2> QED  BY <1>2, <2>1, SpacedAnnounce DEF RoomInv
<1>3. ASSUME NEW a \in sent, Accept(a)
      PROVE  RoomInv'
  <2>1. /\ seen' = Pruned \cup {Entry(a)} /\ a.key \notin Keys(Pruned)
        /\ UNCHANGED <<now, back, quiet, sent>>
    BY <1>3 DEF Accept
  <2>2. \A e \in Pruned : e \in seen /\ e.key # Entry(a).key
    BY <2>1 DEF Keys, Entry, Pruned
  <2>3. \A e, f \in seen' : e.key = f.key => e = f
    BY <2>1, <2>2 DEF RoomInv
  <2> QED  BY <2>1, <2>3 DEF RoomInv, SentAt
<1>4. CASE Refuse
  BY <1>1, <1>4 DEF Refuse
<1>5. CASE Tick
  <2>1. ASSUME NEW at \in [sent -> Nat], SentAt(at)
        PROVE  SentAt(at)'
    <3>1. /\ UNCHANGED sent /\ now' = now + 1 /\ now \in Nat /\ Interval \in Nat
          /\ quiet' = [d \in Devices |-> Rested(quiet[d])]
          /\ \A d \in Devices : quiet[d] \in Nat /\ quiet[d] <= Interval
          /\ \A a \in sent : a.key[1] \in Devices /\ at[a] \in Nat
      BY <1>5, WindowAssumption DEF Tick, TypeInv, TypeOK, Announcement, Key
    <3>2. \A d \in Devices : quiet'[d] \in Nat /\ quiet'[d] <= quiet[d] + 1
      BY <3>1 DEF Rested
    <3>3. \A a \in sent : at[a] + quiet'[a.key[1]] <= now'
      BY <2>1, <3>1, <3>2 DEF SentAt
    <3> QED  BY <2>1, <3>1, <3>3 DEF SentAt
  <2> QED  BY <1>5, <2>1 DEF RoomInv, Tick
<1>6. CASE SetBack
  <2>1. back' # 0 /\ seen' = seen
    BY <1>6 DEF SetBack, TypeInv, TypeOK
  <2> QED  BY <2>1 DEF RoomInv
<1>7. CASE UNCHANGED vars
  BY <1>7 DEF vars, RoomInv, SentAt
<1> QED  BY <1>2, <1>3, <1>4, <1>5, <1>6, <1>7 DEF Next

(* Division. *)
LEMMA DivProperties ==
  ASSUME NEW x \in Nat, NEW m \in Nat \ {0}
  PROVE  /\ x \div m \in Nat
         /\ m * (x \div m) <= x /\ x < m * (x \div m) + m
OBVIOUS

LEMMA ProductOrder ==
  ASSUME NEW p \in Nat, NEW q \in Nat, NEW m \in Nat, p <= q
  PROVE  m * p <= m * q
OBVIOUS

LEMMA ProductNext ==
  ASSUME NEW p \in Nat, NEW m \in Nat
  PROVE  m * (p + 1) = m * p + m /\ m * p \in Nat
OBVIOUS

(* Numbers a divisor apart have different quotients. *)
LEMMA DivApart ==
  ASSUME NEW x \in Nat, NEW y \in Nat, NEW m \in Nat \ {0}, x + m <= y
  PROVE  x \div m # y \div m
<1>1. /\ x \div m \in Nat /\ m * (x \div m) <= x /\ x < m * (x \div m) + m
      /\ y \div m \in Nat /\ m * (y \div m) <= y /\ y < m * (y \div m) + m
  BY DivProperties
<1> SUFFICES ASSUME x \div m = y \div m PROVE FALSE
  OBVIOUS
<1>2. PICK p \in Nat : p = x \div m
  BY <1>1
<1>3. m * p \in Nat /\ m * p <= x /\ y < m * p + m
  BY <1>1, <1>2, ProductNext
<1> QED  BY <1>3

LEMMA DivBound ==
  ASSUME NEW x \in Nat, NEW n \in Nat, NEW m \in Nat \ {0}, x <= n
  PROVE  x \div m \in 0..(n \div m)
<1>1. PICK p \in Nat : p = x \div m /\ m * p <= x
  BY DivProperties
<1>2. PICK q \in Nat : q = n \div m /\ n < m * q + m
  BY DivProperties
<1>3. p <= q
  <2> SUFFICES ASSUME q + 1 <= p PROVE FALSE
    BY <1>1, <1>2
  <2>1. m * (q + 1) <= m * p
    BY ProductOrder
  <2>2. m * (q + 1) = m * q + m /\ m * q \in Nat /\ m * p \in Nat
    BY ProductNext
  <2> QED  BY <1>1, <1>2, <2>1, <2>2
<1> QED  BY <1>1, <1>2, <1>3

-----------------------------------------------------------------------------
(* What the cache may hold, the announcement about to enter it included,   *)
(* lies in the window, at places PerDevice gives each device.              *)
Held(a) == Pruned \cup {Entry(a)}

LEMMA HeldAnnounced ==
  ASSUME TypeInv, ReplayInv, RoomInv, back = 0,
         NEW a \in sent, Fresh(a), a.key \notin Keys(Pruned)
  PROVE  /\ \A e \in Held(a) : \E b \in sent : b.key = e.key /\ now <= b.timestamp + MaxAge
         /\ \A e, f \in Held(a) : e.key = f.key => e = f
         /\ Entry(a) \notin Pruned
<1>1. /\ now \in Nat /\ MaxAge \in Nat
      /\ \A b \in sent : b.timestamp \in Nat
  BY WindowAssumption DEF TypeInv, TypeOK, Announcement
<1>2. ASSUME NEW e \in Pruned
      PROVE  \E b \in sent : b.key = e.key /\ now <= b.timestamp + MaxAge
  <2>1. e \in seen /\ SaturatingSub(now, e.announcement_timestamp) <= MaxAge
    BY DEF Pruned, Retained
  <2>2. PICK b \in sent : b.key = e.key /\ b.timestamp = e.announcement_timestamp
    BY <2>1 DEF ReplayInv, EntriesSound
  <2> QED  BY <1>1, <2>1, <2>2 DEF SaturatingSub
<1>3. Entry(a).key = a.key /\ now <= a.timestamp + MaxAge
  BY <1>1 DEF Fresh, SaturatingSub, Entry
<1>4. \A e \in Pruned : e \in seen /\ e.key # a.key
  BY DEF Keys, Pruned
<1> QED  BY <1>2, <1>3, <1>4 DEF Held, RoomInv

LEMMA PlacesOfDevice ==
  PerDevice \in Nat /\ 0..(PerDevice - 1) = 0..((MaxAge + MaxSkew) \div Interval)
<1>1. PICK n \in Nat : n = MaxAge + MaxSkew
  BY WindowAssumption, ClockAssumption
<1>2. PICK q \in Nat : q = n \div Interval
  BY WindowAssumption, DivProperties
<1> QED  BY <1>1, <1>2 DEF PerDevice

(* Each held entry has a place of its own. *)
LEMMA HeldPlaces ==
  ASSUME TypeInv, ReplayInv, RoomInv, back = 0,
         NEW a \in sent, Fresh(a), a.key \notin Keys(Pruned)
  PROVE  ExistsInjection(Held(a), Devices \X (0..(PerDevice - 1)))
<1>1. /\ now \in Nat /\ MaxAge \in Nat /\ MaxSkew \in Nat /\ Interval \in Nat \ {0}
      /\ quiet \in [Devices -> Nat]
      /\ \A b \in sent : b.key \in Key /\ b.key[1] \in Devices /\ b.timestamp \in Nat
  BY WindowAssumption, ClockAssumption DEF TypeInv, TypeOK, Announcement, Key
<1>2. PICK at \in [sent -> Nat] : SentAt(at)
  BY DEF RoomInv
<1> DEFINE Of(e) == CHOOSE b \in sent : b.key = e.key /\ now <= b.timestamp + MaxAge
<1>3. ASSUME NEW e \in Held(a)
      PROVE  Of(e) \in sent /\ Of(e).key = e.key /\ now <= Of(e).timestamp + MaxAge
  BY HeldAnnounced
<1>4. \A e, f \in Held(a) : e.key = f.key => e = f
  BY HeldAnnounced
<1> HIDE DEF Of
<1> DEFINE age(e) == now - at[Of(e)]
<1>5. ASSUME NEW e \in Held(a)
      PROVE  age(e) \in Nat /\ age(e) <= MaxAge + MaxSkew
  <2>1. /\ at[Of(e)] \in Nat /\ at[Of(e)] + quiet[Of(e).key[1]] <= now
        /\ Of(e).timestamp <= at[Of(e)] + MaxSkew
        /\ quiet[Of(e).key[1]] \in Nat /\ Of(e).timestamp \in Nat
    BY <1>1, <1>2, <1>3 DEF SentAt
  <2> QED  BY <1>1, <1>3, <2>1
<1>6. ASSUME NEW e \in Held(a), NEW f \in Held(a), e # f, e.key[1] = f.key[1]
      PROVE  age(e) + Interval <= age(f) \/ age(f) + Interval <= age(e)
  <2>1. Of(e) # Of(f) /\ Of(e).key[1] = Of(f).key[1]
    BY <1>3, <1>4, <1>6
  <2>2. \/ at[Of(e)] + Interval <= at[Of(f)]
        \/ at[Of(f)] + Interval <= at[Of(e)]
    BY <1>2, <1>3, <2>1 DEF SentAt
  <2>3. at[Of(e)] \in Nat /\ at[Of(f)] \in Nat
    BY <1>2, <1>3
  <2> QED  BY <1>1, <2>2, <2>3
<1> HIDE DEF age
<1>7. PICK g : g = [e \in Held(a) |-> <<e.key[1], age(e) \div Interval>>]
  OBVIOUS
<1>8. ASSUME NEW e \in Held(a)
      PROVE  g[e] \in Devices \X (0..(PerDevice - 1))
  <2>1. e.key[1] \in Devices
    BY <1>1, <1>3
  <2>2. age(e) \div Interval \in 0..(PerDevice - 1)
    <3>1. MaxAge + MaxSkew \in Nat
      BY <1>1
    <3> QED  BY <1>1, <1>5, <3>1, DivBound, PlacesOfDevice
  <2> QED  BY <1>7, <2>1, <2>2
<1>9. ASSUME NEW e \in Held(a), NEW f \in Held(a), g[e] = g[f]
      PROVE  e = f
  <2>1. e.key[1] = f.key[1] /\ age(e) \div Interval = age(f) \div Interval
    BY <1>7, <1>9
  <2>2. age(e) \in Nat /\ age(f) \in Nat
    BY <1>5
  <2>3. ~(age(e) + Interval <= age(f)) /\ ~(age(f) + Interval <= age(e))
    BY <1>1, <2>1, <2>2, DivApart
  <2> QED  BY <1>6, <2>1, <2>3
<1>10. g \in Injection(Held(a), Devices \X (0..(PerDevice - 1)))
  <2>1. g \in [Held(a) -> Devices \X (0..(PerDevice - 1))]
    BY <1>7, <1>8
  <2> QED  BY <1>9, <2>1 DEF Injection, IsInjective
<1> QED  BY <1>10 DEF ExistsInjection

LEMMA RoomIsLeft == TypeInv /\ ReplayInv /\ RoomInv => HasRoom
<1> SUFFICES ASSUME TypeInv, ReplayInv, RoomInv, back = 0,
                    MaxReplayEntries >= Cardinality(Devices) * PerDevice,
                    NEW a \in sent, Fresh(a), a.key \notin Keys(Pruned)
             PROVE  Cardinality(Pruned) < MaxReplayEntries
  BY DEF HasRoom
<1> DEFINE P == 0..(PerDevice - 1)
<1>1. IsFiniteSet(P) /\ Cardinality(P) = PerDevice
  <2>1. PICK n \in Nat : n = PerDevice
    BY PlacesOfDevice
  <2>2. IsFiniteSet(0..(n - 1)) /\ Cardinality(0..(n - 1)) = n
    BY FS_Interval
  <2> QED  BY <2>1, <2>2
<1>2. /\ IsFiniteSet(Devices \X P)
      /\ Cardinality(Devices \X P) = Cardinality(Devices) * PerDevice
  BY <1>1, DevicesAssumption, FS_Product
<1>3. PICK g \in Injection(Held(a), Devices \X P) : TRUE
  BY HeldPlaces DEF ExistsInjection
<1>4. IsFiniteSet(Held(a)) /\ Cardinality(Held(a)) <= Cardinality(Devices \X P)
  BY <1>2, <1>3, FS_Injection
<1>5. IsFiniteSet(Pruned)
  BY <1>4, FS_Subset DEF Held
<1>6. Cardinality(Held(a)) = Cardinality(Pruned) + 1
  BY <1>5, HeldAnnounced, FS_AddElement DEF Held
<1>7. Cardinality(Pruned) \in Nat /\ Cardinality(Devices \X P) \in Nat
  BY <1>2, <1>5, FS_CardinalityType
<1> QED  BY <1>2, <1>4, <1>6, <1>7, WindowAssumption

(* HasRoom: with room for what each device may announce within the window, *)
(* a fresh announcement is never refused for want of a place in the cache, *)
(* as long as the clock has not been set back.                             *)
THEOREM RoomForAll == Spec => []HasRoom
BY TypeInit, TypeStep, ReplayInit, ReplayStep, RoomInit, RoomStep, RoomIsLeft, PTL DEF Spec
=============================================================================
