----------------------------- MODULE UserRoomsProofs ----------------------------
(***************************************************************************)
(* Proofs about UserRooms, for any users, devices and vaults and any       *)
(* number of coroutines that send.                                         *)
(***************************************************************************)
EXTENDS UserRooms, FiniteSetTheorems, WellFoundedInduction, TLAPS

\* Removing the element at index i moves up what is behind it.
LEMMA RemoveAtIs ==
  ASSUME NEW S, NEW s \in Seq(S), NEW i \in 1..Len(s)
  PROVE  /\ RemoveAt(s, i) \in Seq(S) /\ Len(RemoveAt(s, i)) = Len(s) - 1
         /\ \A j \in 1..(Len(s) - 1) : RemoveAt(s, i)[j] = IF j < i THEN s[j] ELSE s[j + 1]
<1>1. /\ SubSeq(s, 1, i - 1) \in Seq(S) /\ Len(SubSeq(s, 1, i - 1)) = i - 1
      /\ \A j \in 1..(i - 1) : SubSeq(s, 1, i - 1)[j] = s[j]
  OBVIOUS
<1>2. /\ SubSeq(s, i + 1, Len(s)) \in Seq(S) /\ Len(SubSeq(s, i + 1, Len(s))) = Len(s) - i
      /\ \A j \in 1..(Len(s) - i) : SubSeq(s, i + 1, Len(s))[j] = s[i + j]
  OBVIOUS
<1> DEFINE a == SubSeq(s, 1, i - 1)
           b == SubSeq(s, i + 1, Len(s))
<1>3. RemoveAt(s, i) = a \o b
  BY DEF RemoveAt
<1> HIDE DEF a, b
<1>4. /\ a \in Seq(S) /\ Len(a) = i - 1 /\ \A j \in 1..(i - 1) : a[j] = s[j]
      /\ b \in Seq(S) /\ Len(b) = Len(s) - i /\ \A j \in 1..(Len(s) - i) : b[j] = s[i + j]
  BY <1>1, <1>2 DEF a, b
<1>5. a \o b \in Seq(S) /\ Len(a \o b) = Len(s) - 1
  <2>1. Len(s) \in Nat /\ a \in Seq(S) /\ b \in Seq(S)
    BY <1>4
  <2> HIDE <1>4
  <2>2. Len(a \o b) = Len(a) + Len(b) /\ a \o b \in Seq(S)
    BY <2>1
  <2>3. QED
    BY <1>4, <2>1, <2>2
<1>6. ASSUME NEW j \in 1..(Len(s) - 1)
      PROVE  (a \o b)[j] = IF j < i THEN s[j] ELSE s[j + 1]
  <2>1. (a \o b)[j] = IF j <= Len(a) THEN a[j] ELSE b[j - Len(a)]
    BY <1>4
  <2>2. CASE j < i
    BY <1>4, <2>1, <2>2
  <2>3. CASE ~(j < i)
    <3>1. j - Len(a) \in 1..(Len(s) - i) /\ i + (j - Len(a)) = j + 1
      BY <1>4, <2>3
    <3>2. QED
      BY <1>4, <2>1, <2>3, <3>1
  <2>4. QED
    BY <2>2, <2>3
<1>7. QED
  BY <1>3, <1>5, <1>6

\* list.remove takes away the first element that is equal to e, if there is one.
LEMMA RemoveFirstIs ==
  ASSUME NEW S, NEW s \in Seq(S), NEW e
  PROVE  \/ (\A i \in 1..Len(s) : s[i] # e) /\ RemoveFirst(s, e) = s
         \/ \E i \in 1..Len(s) : s[i] = e /\ RemoveFirst(s, e) = RemoveAt(s, i)
<1>1. CASE \E i \in 1..Len(s) : s[i] = e
  <2> DEFINE I == {i \in 1..Len(s) : s[i] = e}
  <2>1. RemoveFirst(s, e) = RemoveAt(s, Min(I))
    BY <1>1 DEF RemoveFirst, SelectInSeq
  <2>2. PICK i \in I : \A j \in I : i <= j
    <3> DEFINE R == OpToRel(<, Nat)
    <3>1. I # {} /\ I \subseteq Nat
      BY <1>1
    <3>2. \A i, j \in Nat : j < i => <<j, i>> \in R
      BY DEF OpToRel
    <3>3. IsWellFoundedOn(R, Nat)
      BY NatLessThanWellFounded
    <3> HIDE DEF R, I
    <3>4. PICK i \in I : \A j \in I : <<j, i>> \notin R
      BY <3>1, <3>3, WFMin
    <3>5. ASSUME NEW j \in I
          PROVE  i <= j
      <4>1. i \in Nat /\ j \in Nat
        BY <3>1
      <4>2. j < i => <<j, i>> \in R
        BY <3>2, <4>1
      <4>3. ~(j < i)
        BY <3>4, <4>2
      <4>4. QED
        BY <4>1, <4>3
    <3>6. QED
      BY <3>5
  <2>3. Min(I) \in I
    BY <2>2 DEF Min
  <2>4. QED
    BY <2>1, <2>3
<1>2. QED
  BY <1>1 DEF RemoveFirst
\* A list without duplicates.
Distinct(s) == \A i, j \in 1..Len(s) : s[i] = s[j] => i = j

\* list.remove of an element of a list without duplicates.
LEMMA RemovedFromList ==
  ASSUME NEW S, NEW s \in Seq(S), Distinct(s), NEW e \in ToSet(s)
  PROVE  LET t == RemoveFirst(s, e) IN
         /\ t \in Seq(S) /\ Distinct(t) /\ Len(t) = Len(s) - 1 /\ ToSet(t) = ToSet(s) \ {e}
         /\ \A j \in 1..Len(t) : \E i \in 1..Len(s) : i >= j /\ t[j] = s[i]
<1>1. Len(s) \in Nat /\ \E i \in 1..Len(s) : s[i] = e
  BY DEF ToSet
<1>2. PICK i \in 1..Len(s) : s[i] = e /\ RemoveFirst(s, e) = RemoveAt(s, i)
  BY <1>1, RemoveFirstIs
<1> DEFINE t == RemoveAt(s, i)
<1>3. /\ t \in Seq(S) /\ Len(t) = Len(s) - 1
      /\ \A j \in 1..(Len(s) - 1) : t[j] = IF j < i THEN s[j] ELSE s[j + 1]
  BY RemoveAtIs
<1> HIDE DEF t
<1>4. Distinct(t)
  <2> SUFFICES ASSUME NEW j \in 1..Len(t), NEW l \in 1..Len(t), t[j] = t[l]
               PROVE  j = l
    BY DEF Distinct
  <2> DEFINE a == IF j < i THEN j ELSE j + 1
             b == IF l < i THEN l ELSE l + 1
  <2>1. a \in 1..Len(s) /\ b \in 1..Len(s) /\ t[j] = s[a] /\ t[l] = s[b]
    BY <1>1, <1>3
  <2>2. a = b
    BY <2>1 DEF Distinct
  <2>3. QED
    BY <1>1, <1>3, <2>2
<1>5. \A j \in 1..Len(t) : \E l \in 1..Len(s) : l >= j /\ l # i /\ t[j] = s[l]
  <2> SUFFICES ASSUME NEW j \in 1..Len(t)
               PROVE  \E l \in 1..Len(s) : l >= j /\ l # i /\ t[j] = s[l]
    OBVIOUS
  <2> DEFINE a == IF j < i THEN j ELSE j + 1
  <2>1. a \in 1..Len(s) /\ a >= j /\ a # i /\ t[j] = s[a]
    BY <1>1, <1>3
  <2>2. QED
    BY <2>1
<1>6. \A l \in 1..Len(s) : l # i => \E j \in 1..Len(t) : t[j] = s[l]
  <2> SUFFICES ASSUME NEW l \in 1..Len(s), l # i
               PROVE  \E j \in 1..Len(t) : t[j] = s[l]
    OBVIOUS
  <2> DEFINE a == IF l < i THEN l ELSE l - 1
  <2>1. a \in 1..Len(t) /\ t[a] = s[l]
    BY <1>1, <1>3
  <2>2. QED
    BY <2>1
<1>7. ToSet(t) = ToSet(s) \ {e}
  <2>1. DOMAIN t = 1..Len(t) /\ DOMAIN s = 1..Len(s)
    BY <1>3
  <2>2. \A x : x \in ToSet(t) <=> \E j \in 1..Len(t) : t[j] = x
    BY <2>1 DEF ToSet
  <2>3. \A x : x \in ToSet(s) <=> \E j \in 1..Len(s) : s[j] = x
    BY <2>1 DEF ToSet
  <2>4. ASSUME NEW x \in ToSet(t)
        PROVE  x \in ToSet(s) \ {e}
    <3>1. PICK j \in 1..Len(t) : t[j] = x
      BY <2>2, <2>4
    <3>2. PICK l \in 1..Len(s) : l # i /\ x = s[l]
      BY <1>5, <3>1
    <3>3. x # e
      BY <1>2, <3>2 DEF Distinct
    <3>4. QED
      BY <2>3, <3>2, <3>3
  <2>5. ASSUME NEW x \in ToSet(s) \ {e}
        PROVE  x \in ToSet(t)
    <3>1. PICK l \in 1..Len(s) : s[l] = x
      BY <2>3, <2>5
    <3>2. l # i
      BY <1>2, <2>5, <3>1
    <3>3. QED
      BY <1>6, <2>2, <3>1, <3>2
  <2>6. QED
    BY <2>4, <2>5
<1>8. QED
  BY <1>2, <1>3, <1>4, <1>5, <1>7 DEF t

\* ... and of something that is not in it.
LEMMA NotInList ==
  ASSUME NEW S, NEW s \in Seq(S), NEW e, e \notin ToSet(s)
  PROVE  RemoveFirst(s, e) = s
<1>1. \A i \in 1..Len(s) : s[i] # e
  BY DEF ToSet
<1>2. QED
  BY <1>1, RemoveFirstIs

\* list.append of an element that is not in the list.
LEMMA AppendedToList ==
  ASSUME NEW S, NEW s \in Seq(S), Distinct(s), NEW e \in S, e \notin ToSet(s)
  PROVE  LET t == Append(s, e) IN
         /\ t \in Seq(S) /\ Distinct(t) /\ Len(t) = Len(s) + 1 /\ ToSet(t) = ToSet(s) \cup {e}
         /\ t[Len(s) + 1] = e /\ \A j \in 1..Len(s) : t[j] = s[j]
<1> DEFINE t == Append(s, e)
<1>1. /\ t \in Seq(S) /\ Len(t) = Len(s) + 1 /\ Len(s) \in Nat
      /\ t[Len(s) + 1] = e /\ \A j \in 1..Len(s) : t[j] = s[j]
      /\ DOMAIN t = 1..(Len(s) + 1) /\ DOMAIN s = 1..Len(s)
  OBVIOUS
<1> HIDE DEF t
<1>2. ToSet(t) = ToSet(s) \cup {e}
  <2>1. \A x : x \in ToSet(s) <=> \E j \in 1..Len(s) : s[j] = x
    BY <1>1 DEF ToSet
  <2>2. \A x : x \in ToSet(t) <=> \E j \in 1..(Len(s) + 1) : t[j] = x
    BY <1>1 DEF ToSet
  <2>3. \A x : x \in ToSet(t) => x \in ToSet(s) \cup {e}
    BY <1>1, <2>1, <2>2
  <2>4. \A x : x \in ToSet(s) \cup {e} => x \in ToSet(t)
    BY <1>1, <2>1, <2>2
  <2>5. QED
    BY <2>3, <2>4
<1>3. \A j \in 1..Len(s) : s[j] # e
  BY DEF ToSet
<1>4. Distinct(t)
  BY <1>1, <1>3 DEF Distinct
<1>5. QED
  BY <1>1, <1>2, <1>4 DEF t

\* A list has no more elements than entries.
LEMMA ListBound ==
  ASSUME NEW S, NEW s \in Seq(S)
  PROVE  IsFiniteSet(ToSet(s)) /\ Cardinality(ToSet(s)) \in Nat /\ Cardinality(ToSet(s)) <= Len(s)
<1>1. Len(s) \in Nat /\ DOMAIN s = 1..Len(s)
  OBVIOUS
<1>2. IsFiniteSet(1..Len(s)) /\ Cardinality(1..Len(s)) = Len(s)
  BY <1>1, FS_Interval
<1> DEFINE f == [i \in 1..Len(s) |-> s[i]]
<1>3. f \in Surjection(1..Len(s), ToSet(s))
  BY <1>1 DEF Surjection, ToSet
<1>4. IsFiniteSet(ToSet(s)) /\ Cardinality(ToSet(s)) <= Cardinality(1..Len(s))
  BY <1>2, <1>3, FS_Surjection
<1>5. QED
  BY <1>2, <1>4, FS_CardinalityType

\* The lists: without duplicates, of those who read from the user's connections.
ListsServed ==
  /\ rooms \in [Users -> Seq(Conns)]
  /\ \A u \in Users : Distinct(rooms[u])
  /\ \A u \in Users : \A c \in ToSet(rooms[u]) : Owner(c) = u /\ handler[c] = "serving"

\* A sender that is between two users knows only those still to be told.
WellFormed(f) ==
  /\ f \in Frame
  /\ f.at = "send" <=> f.to # Nobody
  /\ f.user = Nobody => /\ f.at \in {"idle", "run"} /\ f.pos = 0 /\ ~f.listed
                        /\ f.dead = {} /\ f.began = {} /\ f.got = {} /\ f.removed = {}
  /\ f.at = "idle" => f.user = Nobody

\* The connections that a sender has sent the message to, or is sending it to, and how
\* many entries of the list it has come past.
Told(f) == f.got \cup f.dead \cup (IF f.at = "send" THEN {f.to} ELSE {})

Past(f) == IF f.at = "send" THEN f.pos ELSE f.pos - 1

\* A sender over list s, when the handlers are h: every entry that it has come past it
\* has told, and nobody behind its place; whom it has told, and whom it began with, is in
\* the list or has been removed.  The length of the list and its place in it may differ
\* by as many as have been removed, which is what bounds those it skips.
Iterating(f, s, h) ==
  f.at \in {"run", "send"} /\ f.user # Nobody =>
    /\ f.at = "send" => f.to \notin f.got \cup f.dead
    /\ \A c \in f.removed : h[c] # "new"
    /\ ~f.listed => f.began \subseteq f.removed
    /\ f.listed => /\ f.pos >= 1
                   /\ Cardinality(Told(f)) = Past(f)
                   /\ \A j \in 1..Len(s) : j > Past(f) => s[j] \notin Told(f)
                   /\ Told(f) \subseteq ToSet(s) \cup f.removed
                   /\ f.began \subseteq ToSet(s) \cup f.removed

\* What every sender knows.
SendersTyped ==
  /\ caster \in [Casters -> Frame]
  /\ \A k \in Casters : WellFormed(caster[k])

\* A subscription has a connection of its user that is served.
SubsServed ==
  /\ subs \in [Vaults -> SUBSET Users]
  /\ \A v \in Vaults : \A u \in subs[v] : \E c \in Conns : Owner(c) = u /\ handler[c] = "serving"

\* The inductive invariant.
Inv ==
  /\ handler \in [Conns -> {"new", "serving", "ended"}] /\ lost \subseteq Conns
  /\ ListsServed /\ SubsServed /\ SendersTyped
  /\ \A k \in Casters : Iterating(caster[k], rooms[caster[k].user], handler)

\* The frame of a sender that has nothing to do.
LEMMA IdleWellFormed ==
  /\ Idle \in Frame /\ WellFormed(Idle) /\ Idle.user = Nobody /\ Idle.to = Nobody
  /\ Idle.pos = 0 /\ ~Idle.listed /\ Idle.todo = {}
  /\ Idle.dead = {} /\ Idle.began = {} /\ Idle.got = {} /\ Idle.removed = {}
BY DEF WellFormed, Idle, Frame

\* A sender that goes on to the rest of its users, and one that starts on the list s.
LEMMA BetweenUsers ==
  ASSUME NEW todo \in SUBSET Users
  PROVE  LET f == [Idle EXCEPT !.at = "run", !.todo = todo] IN
         WellFormed(f) /\ f.at = "run" /\ f.todo = todo /\ f.user = Nobody
<1> DEFINE f == [Idle EXCEPT !.at = "run", !.todo = todo]
<1>1. /\ f \in Frame /\ f.at = "run" /\ f.todo = todo
      /\ f.user = Nobody /\ f.to = Nobody /\ f.pos = 0 /\ f.listed = Idle.listed
      /\ f.dead = {} /\ f.began = {} /\ f.got = {} /\ f.removed = {}
  BY IdleWellFormed DEF Frame
<1> HIDE DEF f
<1>2. WellFormed(f)
  BY <1>1, IdleWellFormed DEF WellFormed
<1>3. QED
  BY <1>1, <1>2 DEF f

LEMMA AtStart ==
  ASSUME NEW todo \in SUBSET Users, NEW u \in Users, NEW s \in Seq(Conns), NEW h
  PROVE  LET f == [Idle EXCEPT !.at = "run", !.todo = todo, !.user = u,
                               !.pos = 1, !.listed = TRUE, !.began = ToSet(s)] IN
         WellFormed(f) /\ f.user = u /\ Iterating(f, s, h)
<1> DEFINE f == [Idle EXCEPT !.at = "run", !.todo = todo, !.user = u,
                             !.pos = 1, !.listed = TRUE, !.began = ToSet(s)]
<1>1. ToSet(s) \subseteq Conns /\ u # Nobody /\ Len(s) \in Nat
  BY RoomsAssumption DEF ToSet
<1>2. /\ f \in Frame /\ f.at = "run" /\ f.user = u /\ f.to = Nobody /\ f.pos = 1 /\ f.listed
      /\ f.dead = {} /\ f.began = ToSet(s) /\ f.got = {} /\ f.removed = {}
  BY <1>1, IdleWellFormed DEF Frame
<1> HIDE DEF f
<1>3. WellFormed(f)
  BY <1>1, <1>2 DEF WellFormed
<1>4. Told(f) = {} /\ Past(f) = 0
  BY <1>2 DEF Told, Past
<1>5. Iterating(f, s, h)
  BY <1>2, <1>4, FS_EmptySet DEF Iterating
<1>6. QED
  BY <1>2, <1>3, <1>5 DEF f

\* Only the connections of users are told, so that they can be counted.
LEMMA ToldFinite ==
  ASSUME NEW f \in Frame, f.at = "send" => f.to # Nobody
  PROVE  /\ Told(f) \subseteq Conns /\ IsFiniteSet(Told(f))
         /\ f.removed \subseteq Conns /\ IsFiniteSet(f.removed) /\ Cardinality(f.removed) \in Nat
<1>1. Told(f) \subseteq Conns /\ f.removed \subseteq Conns
  BY DEF Told, Frame
<1>2. QED
  BY <1>1, RoomsAssumption, FS_Subset, FS_CardinalityType

\* The next connection of the list has not been told yet.
LEMMA SendKeeps ==
  ASSUME NEW f, WellFormed(f), NEW s \in Seq(Conns), Distinct(s), NEW h, Iterating(f, s, h),
         f.at = "run", f.user # Nobody, f.listed, f.pos <= Len(s)
  PROVE  LET g == [f EXCEPT !.at = "send", !.to = s[f.pos]] IN
         WellFormed(g) /\ g.user = f.user /\ Iterating(g, s, h)
<1> DEFINE g == [f EXCEPT !.at = "send", !.to = s[f.pos]]
<1>1. /\ f \in Frame /\ f.pos \in Nat /\ f.pos >= 1 /\ Len(s) \in Nat
      /\ \A c \in Conns : c # Nobody
  BY RoomsAssumption DEF WellFormed, Frame, Iterating
<1>2. f.pos \in 1..Len(s) /\ s[f.pos] \in Conns
  BY <1>1
<1>3. /\ g \in Frame /\ g.at = "send" /\ g.to = s[f.pos] /\ g.user = f.user /\ g.pos = f.pos
      /\ g.listed = f.listed /\ g.dead = f.dead /\ g.began = f.began /\ g.got = f.got
      /\ g.removed = f.removed
  BY <1>1, <1>2 DEF Frame
<1> HIDE DEF g
<1>4. WellFormed(g)
  BY <1>1, <1>2, <1>3 DEF WellFormed
<1>5. /\ Told(f) = f.got \cup f.dead /\ Told(g) = Told(f) \cup {s[f.pos]}
      /\ Past(f) = f.pos - 1 /\ Past(g) = f.pos
  BY <1>3 DEF Told, Past
<1>6. s[f.pos] \notin Told(f)
  BY <1>1, <1>2, <1>5 DEF Iterating
<1>7. Cardinality(Told(g)) = Past(g)
  <2>1. IsFiniteSet(Told(f)) /\ Cardinality(Told(f)) = f.pos - 1
    BY <1>1, <1>5, ToldFinite DEF Iterating
  <2>2. Cardinality(Told(g)) = Cardinality(Told(f)) + 1
    <3>1. PICK c : c = s[f.pos]
      OBVIOUS
    <3>2. Told(g) = Told(f) \cup {c} /\ c \notin Told(f)
      BY <1>5, <1>6, <3>1
    <3>3. QED
      BY <2>1, <3>2, FS_AddElement
  <2>3. QED
    BY <1>1, <1>5, <2>1, <2>2
<1>8. \A j \in 1..Len(s) : j > Past(g) => s[j] \notin Told(g)
  <2> SUFFICES ASSUME NEW j \in 1..Len(s), j > f.pos
               PROVE  s[j] \notin Told(f) /\ s[j] # s[f.pos]
    BY <1>5
  <2>1. j > f.pos - 1 /\ j # f.pos
    BY <1>1
  <2>2. QED
    BY <1>2, <1>5, <2>1 DEF Iterating, Distinct
<1>9. s[f.pos] \in ToSet(s)
  BY <1>2 DEF ToSet
<1>10. QED
  BY <1>1, <1>3, <1>4, <1>5, <1>6, <1>7, <1>8, <1>9 DEF Iterating, g

\* A send that returns or raises leaves the sender past the connection it was for.
LEMMA SentKeeps ==
  ASSUME NEW f, WellFormed(f), NEW s \in Seq(Conns), NEW h, Iterating(f, s, h), f.at = "send"
  PROVE  /\ LET g == [f EXCEPT !.at = "run", !.to = Nobody, !.pos = @ + 1, !.got = @ \cup {f.to}] IN
            WellFormed(g) /\ g.user = f.user /\ Iterating(g, s, h)
         /\ LET g == [f EXCEPT !.at = "run", !.to = Nobody, !.pos = @ + 1, !.dead = @ \cup {f.to}] IN
            WellFormed(g) /\ g.user = f.user /\ Iterating(g, s, h)
<1>1. /\ f \in Frame /\ f.pos \in Nat /\ f.to \in Conns /\ f.user # Nobody
  BY DEF WellFormed, Frame
<1>2. ASSUME NEW g, g \in Frame, g.at = "run", g.to = Nobody, g.user = f.user, g.pos = f.pos + 1,
             g.listed = f.listed, g.began = f.began, g.removed = f.removed,
             g.got \cup g.dead = f.got \cup f.dead \cup {f.to}
      PROVE  WellFormed(g) /\ Iterating(g, s, h)
  <2>1. WellFormed(g)
    BY <1>1, <1>2 DEF WellFormed
  <2>2. Told(g) = Told(f) /\ Past(g) = Past(f) /\ g.pos >= 1
    BY <1>1, <1>2 DEF Told, Past
  <2>3. QED
    BY <1>1, <1>2, <2>1, <2>2 DEF Iterating
<1> DEFINE a == [f EXCEPT !.at = "run", !.to = Nobody, !.pos = @ + 1, !.got = @ \cup {f.to}]
           b == [f EXCEPT !.at = "run", !.to = Nobody, !.pos = @ + 1, !.dead = @ \cup {f.to}]
<1>3. WellFormed(a) /\ a.user = f.user /\ Iterating(a, s, h)
  <2>1. /\ a.at = "run" /\ a.to = Nobody /\ a.user = f.user /\ a.pos = f.pos + 1
        /\ a.listed = f.listed /\ a.began = f.began /\ a.removed = f.removed
        /\ a.got = f.got \cup {f.to} /\ a.dead = f.dead
    BY <1>1 DEF Frame
  <2>2. a \in Frame
    <3> DEFINE p == f.pos + 1
               q == f.got \cup {f.to}
    <3>1. p \in Nat /\ q \in SUBSET Conns
      BY <1>1 DEF Frame
    <3>2. a = [f EXCEPT !.at = "run", !.to = Nobody, !.pos = p, !.got = q]
      OBVIOUS
    <3> HIDE DEF a, p, q
    <3>3. QED
      BY <1>1, <3>1, <3>2 DEF Frame
  <2> HIDE DEF a
  <2>3. a.got \cup a.dead = f.got \cup f.dead \cup {f.to}
    BY <2>1
  <2>4. QED
    BY <1>2, <2>1, <2>2, <2>3
<1>4. WellFormed(b) /\ b.user = f.user /\ Iterating(b, s, h)
  <2>1. /\ b.at = "run" /\ b.to = Nobody /\ b.user = f.user /\ b.pos = f.pos + 1
        /\ b.listed = f.listed /\ b.began = f.began /\ b.removed = f.removed
        /\ b.dead = f.dead \cup {f.to} /\ b.got = f.got
    BY <1>1 DEF Frame
  <2>2. b \in Frame
    <3> DEFINE p == f.pos + 1
               q == f.dead \cup {f.to}
    <3>1. p \in Nat /\ q \in SUBSET Conns
      BY <1>1 DEF Frame
    <3>2. b = [f EXCEPT !.at = "run", !.to = Nobody, !.pos = p, !.dead = q]
      OBVIOUS
    <3> HIDE DEF b, p, q
    <3>3. QED
      BY <1>1, <3>1, <3>2 DEF Frame
  <2> HIDE DEF b
  <2>3. b.got \cup b.dead = f.got \cup f.dead \cup {f.to}
    BY <2>1
  <2>4. QED
    BY <1>2, <2>1, <2>2, <2>3
<1>5. QED
  BY <1>3, <1>4

\* What removing connection c from the list s makes of a sender over it.
Without(f, s, c) == [f EXCEPT !.listed = Len(s) > 1, !.removed = @ \cup {c}]

\* A removal shifts the list below the sender, which may make it skip one connection.
LEMMA RemovalKeeps ==
  ASSUME NEW f, WellFormed(f), f.listed, NEW s \in Seq(Conns), Distinct(s), NEW c \in ToSet(s),
         NEW h, NEW h2, Iterating(f, s, h), h2[c] # "new",
         \A d \in Conns : h2[d] = "new" => h[d] = "new"
  PROVE  LET g == Without(f, s, c) IN
         WellFormed(g) /\ g.user = f.user /\ g.at = f.at /\ g.dead = f.dead
           /\ Iterating(g, RemoveFirst(s, c), h2)
<1> DEFINE g == Without(f, s, c)
           t == RemoveFirst(s, c)
<1>1. /\ f \in Frame /\ f.pos \in Nat /\ f.user # Nobody /\ Len(s) \in Nat /\ c \in Conns
      /\ f.removed \subseteq Conns
  BY DEF WellFormed, Frame, ToSet
<1>2. /\ g.at = f.at /\ g.to = f.to /\ g.user = f.user /\ g.pos = f.pos /\ g.dead = f.dead
      /\ g.began = f.began /\ g.got = f.got /\ g.removed = f.removed \cup {c} /\ g.todo = f.todo
      /\ g.listed <=> Len(s) > 1
  BY <1>1 DEF Frame, Without
<1>3. g \in Frame
  <2>1. (Len(s) > 1) \in BOOLEAN
    OBVIOUS
  <2> DEFINE b == Len(s) > 1
  <2>2. g = [f EXCEPT !.listed = b, !.removed = @ \cup {c}]
    BY DEF Without
  <2> HIDE DEF b, g
  <2>3. b \in BOOLEAN
    BY <2>1 DEF b
  <2>4. QED
    BY <1>1, <2>2, <2>3 DEF Frame
<1>4. /\ t \in Seq(Conns) /\ Len(t) = Len(s) - 1 /\ ToSet(t) = ToSet(s) \ {c}
      /\ \A j \in 1..Len(t) : \E i \in 1..Len(s) : i >= j /\ t[j] = s[i]
  BY RemovedFromList
<1> HIDE DEF g, t
<1>5. WellFormed(g)
  BY <1>1, <1>2, <1>3 DEF WellFormed
<1>6. Told(g) = Told(f) /\ Past(g) = Past(f) /\ Past(f) \in Int
  BY <1>1, <1>2 DEF Told, Past
<1>7. ASSUME g.at \in {"run", "send"}
      PROVE  /\ g.at = "send" => g.to \notin g.got \cup g.dead
             /\ \A d \in g.removed : h2[d] # "new"
             /\ ~g.listed => g.began \subseteq g.removed
             /\ g.listed => /\ g.pos >= 1
                            /\ Cardinality(Told(g)) = Past(g)
                            /\ Told(g) \subseteq ToSet(t) \cup g.removed
                            /\ g.began \subseteq ToSet(t) \cup g.removed
  <2>1. /\ f.at = "send" => f.to \notin f.got \cup f.dead
        /\ \A d \in f.removed : h[d] # "new"
        /\ f.pos >= 1 /\ Cardinality(Told(f)) = Past(f)
        /\ Told(f) \subseteq ToSet(s) \cup f.removed
        /\ f.began \subseteq ToSet(s) \cup f.removed
    BY <1>1, <1>2, <1>7 DEF Iterating
  <2>2. g.began \subseteq ToSet(t) \cup g.removed
    BY <1>2, <1>4, <2>1
  <2>3. ~g.listed => ToSet(t) = {}
    <3> SUFFICES ASSUME ~g.listed
                 PROVE  ToSet(t) = {}
      OBVIOUS
    <3>1. 1..Len(t) = {} /\ DOMAIN t = 1..Len(t)
      BY <1>1, <1>2, <1>4
    <3>2. QED
      BY <3>1 DEF ToSet
  <2>4. QED
    BY <1>1, <1>2, <1>4, <1>6, <2>1, <2>2, <2>3
<1>8. ASSUME g.at \in {"run", "send"}, NEW j \in 1..Len(t), j > Past(g)
      PROVE  t[j] \notin Told(g)
  <2>1. PICK i \in 1..Len(s) : i >= j /\ t[j] = s[i]
    BY <1>4
  <2>2. i > Past(f)
    BY <1>1, <1>4, <1>6, <1>8, <2>1
  <2>3. QED
    BY <1>1, <1>2, <1>6, <1>8, <2>1, <2>2 DEF Iterating
<1>9. Iterating(g, t, h2)
  BY <1>7, <1>8 DEF Iterating
<1>10. QED
  BY <1>2, <1>5, <1>9 DEF g, t

\* A new connection at the end of the list has not been told anything.
LEMMA ArrivalKeeps ==
  ASSUME NEW f, WellFormed(f), NEW s \in Seq(Conns), Distinct(s), NEW c \in Conns,
         NEW h, NEW h2, Iterating(f, s, h), h[c] = "new",
         \A d \in ToSet(s) : h[d] # "new",
         \A d \in Conns : h2[d] = "new" => h[d] = "new"
  PROVE  Iterating(f, Append(s, c), h2)
<1> DEFINE t == Append(s, c)
<1>1. /\ f \in Frame /\ f.pos \in Nat /\ Len(s) \in Nat /\ f.removed \subseteq Conns
      /\ c \notin ToSet(s)
  BY DEF WellFormed, Frame
<1>2. /\ Len(t) = Len(s) + 1 /\ ToSet(t) = ToSet(s) \cup {c}
      /\ t[Len(s) + 1] = c /\ \A j \in 1..Len(s) : t[j] = s[j]
  BY <1>1, AppendedToList
<1> HIDE DEF t
<1>3. SUFFICES ASSUME f.at \in {"run", "send"}, f.user # Nobody
               PROVE  Iterating(f, t, h2)
  BY DEF Iterating, t
<1>4. \A d \in f.removed : h2[d] # "new" /\ h[d] # "new"
  BY <1>1, <1>3 DEF Iterating
<1>5. ASSUME f.listed, NEW j \in 1..Len(t), j > Past(f)
      PROVE  t[j] \notin Told(f)
  <2>1. CASE j = Len(s) + 1
    BY <1>2, <1>3, <1>4, <1>5, <2>1 DEF Iterating
  <2>2. CASE j # Len(s) + 1
    BY <1>1, <1>2, <1>3, <1>5, <2>2 DEF Iterating
  <2>3. QED
    BY <2>1, <2>2
<1>6. QED
  BY <1>1, <1>2, <1>3, <1>4, <1>5 DEF Iterating

\* Connections belong to users.
LEMMA OwnerIsUser == \A c \in Conns : Owner(c) \in Users
BY DEF Conns, Owner

\* What a sender knows does not depend on the list once it is no longer the user's, or
\* on what becomes of the handlers of connections that are not new.
LEMMA OthersKeep ==
  ASSUME NEW f, WellFormed(f), NEW s, NEW t, NEW h, NEW h2, Iterating(f, s, h),
         t = s \/ ~f.listed, \A d \in Conns : h2[d] = "new" => h[d] = "new"
  PROVE  Iterating(f, t, h2)
<1>1. f.removed \subseteq Conns
  BY DEF WellFormed, Frame
<1>2. CASE t = s
  BY <1>1, <1>2 DEF Iterating
<1>3. CASE ~f.listed
  BY <1>1, <1>3 DEF Iterating
<1>4. QED
  BY <1>2, <1>3

\* disconnect_user leaves the lists, subscriptions and senders in order.
LEMMA DisconnectKeeps ==
  ASSUME Inv, NEW u \in Users, NEW c \in Conns, DisconnectUser(u, c),
         \/ handler' = handler
         \/ Owner(c) = u /\ handler' = [handler EXCEPT ![c] = "ended"]
  PROVE  /\ ListsServed' /\ SubsServed' /\ handler' \in [Conns -> {"new", "serving", "ended"}]
         /\ \A k \in Casters : LET g == Removed(u, c)[k] IN
              /\ WellFormed(g) /\ g.at = caster[k].at /\ g.dead = caster[k].dead
              /\ Iterating(g, rooms'[g.user], handler')
<1> DEFINE s == rooms[u]
<1>0. /\ handler \in [Conns -> {"new", "serving", "ended"}]
      /\ rooms \in [Users -> Seq(Conns)] /\ \A w \in Users : Distinct(rooms[w])
      /\ \A w \in Users : \A d \in ToSet(rooms[w]) : d \in Conns /\ Owner(d) = w /\ handler[d] = "serving"
  BY DEF Inv, ListsServed, ToSet
<1>1. /\ rooms' \in [Users -> Seq(Conns)]
      /\ \A w \in Users : rooms'[w] = IF w = u THEN RemoveFirst(s, c) ELSE rooms[w]
      /\ Distinct(rooms'[u]) /\ ToSet(rooms'[u]) = ToSet(s) \ {c}
  <2>1. s \in Seq(Conns) /\ Distinct(s)
    BY <1>0
  <2>2. /\ RemoveFirst(s, c) \in Seq(Conns) /\ Distinct(RemoveFirst(s, c))
        /\ ToSet(RemoveFirst(s, c)) = ToSet(s) \ {c}
    <3>1. CASE c \in ToSet(s)
      BY <2>1, <3>1, RemovedFromList
    <3>2. CASE c \notin ToSet(s)
      <4>1. RemoveFirst(s, c) = s
        BY <2>1, <3>2, NotInList
      <4>2. QED
        BY <2>1, <3>2, <4>1
    <3>3. QED
      BY <3>1, <3>2
  <2>3. rooms' = [rooms EXCEPT ![u] = RemoveFirst(s, c)]
    BY DEF DisconnectUser
  <2>4. QED
    BY <1>0, <2>2, <2>3
<1>2. /\ handler' \in [Conns -> {"new", "serving", "ended"}]
      /\ \A d \in Conns : handler'[d] = "new" => handler[d] = "new"
      /\ \A d \in Conns : d # c \/ Owner(c) # u => handler'[d] = handler[d]
      /\ handler[c] # "new" => handler'[c] # "new"
  BY <1>0
<1>3. ListsServed'
  <2>1. ASSUME NEW w \in Users
        PROVE  Distinct(rooms'[w]) /\ \A d \in ToSet(rooms'[w]) : Owner(d) = w /\ handler'[d] = "serving"
    <3>1. CASE w = u
      BY <1>0, <1>1, <1>2, <3>1
    <3>2. CASE w # u
      BY <1>0, <1>1, <1>2, <3>2
    <3>3. QED
      BY <3>1, <3>2
  <2>2. QED
    BY <1>1, <2>1 DEF ListsServed
<1>4. SubsServed'
  <2>1. subs' = [v \in Vaults |-> subs[v] \ {u}]
    BY DEF DisconnectUser
  <2>2. ASSUME NEW v \in Vaults, NEW w \in subs'[v]
        PROVE  \E d \in Conns : Owner(d) = w /\ handler'[d] = "serving"
    <3>1. w \in subs[v] /\ w # u
      BY <2>1, <2>2
    <3>2. PICK d \in Conns : Owner(d) = w /\ handler[d] = "serving"
      BY <3>1 DEF Inv, SubsServed
    <3>3. QED
      BY <1>2, <3>1, <3>2
  <2>3. QED
    BY <2>1, <2>2 DEF Inv, SubsServed
<1>5. ASSUME NEW k \in Casters
      PROVE  LET g == Removed(u, c)[k] IN
             /\ WellFormed(g) /\ g.at = caster[k].at /\ g.dead = caster[k].dead
             /\ Iterating(g, rooms'[g.user], handler')
  <2> DEFINE f == caster[k]
  <2>1. WellFormed(f) /\ Iterating(f, rooms[f.user], handler)
    BY DEF Inv, SendersTyped
  <2>2. CASE f.user = u /\ f.listed /\ c \in ToSet(s)
    <3>1. Removed(u, c)[k] = Without(f, s, c)
      BY <2>2 DEF Removed, Without
    <3>2. handler'[c] # "new"
      BY <1>0, <1>2, <2>2
    <3>3. /\ WellFormed(Without(f, s, c)) /\ Without(f, s, c).user = u
          /\ Without(f, s, c).at = f.at /\ Without(f, s, c).dead = f.dead
          /\ Iterating(Without(f, s, c), RemoveFirst(s, c), handler')
      BY <1>0, <1>2, <2>1, <2>2, <3>2, RemovalKeeps
    <3>4. QED
      BY <1>1, <3>1, <3>3
  <2>3. CASE ~(f.user = u /\ f.listed /\ c \in ToSet(s))
    <3>1. Removed(u, c)[k] = f
      BY <2>3 DEF Removed
    <3>2. f.user \in Users \cup {Nobody}
      BY <2>1 DEF WellFormed, Frame
    <3>3. CASE f.user = Nobody
      BY <2>1, <3>1, <3>3 DEF Iterating
    <3>4. CASE f.user \in Users
      <4>1. rooms'[f.user] = rooms[f.user] \/ ~f.listed
        BY <1>0, <1>1, <2>3, <3>4, NotInList
      <4>2. Iterating(f, rooms'[f.user], handler')
        BY <1>2, <2>1, <4>1, OthersKeep
      <4>3. QED
        BY <2>1, <3>1, <4>2
    <3>5. QED
      BY <3>2, <3>3, <3>4
  <2>4. QED
    BY <2>2, <2>3
<1>6. QED
  BY <1>2, <1>3, <1>4, <1>5

\* Each step keeps the invariant: one case for each action, and of connections that go away
\* and senders that clean up one for the lists and one for each sender over them.
LEMMA InvStep == Inv /\ [Next]_vars => Inv'
<1> SUFFICES ASSUME Inv, [Next]_vars
             PROVE  Inv'
  OBVIOUS
<1>0. /\ handler \in [Conns -> {"new", "serving", "ended"}] /\ lost \subseteq Conns
      /\ rooms \in [Users -> Seq(Conns)] /\ \A u \in Users : Distinct(rooms[u])
      /\ \A u \in Users : \A c \in ToSet(rooms[u]) : c \in Conns /\ Owner(c) = u /\ handler[c] = "serving"
      /\ caster \in [Casters -> Frame]
      /\ \A k \in Casters : /\ WellFormed(caster[k])
                            /\ Iterating(caster[k], rooms[caster[k].user], handler)
  BY DEF Inv, ListsServed, SendersTyped, ToSet
<1>1. CASE UNCHANGED vars
  BY <1>1 DEF vars, Inv, ListsServed, SubsServed, SendersTyped, WellFormed, Iterating, Distinct
\* A step of one sender, which leaves the lists and subscriptions.
<1>2. ASSUME NEW k \in Casters, NEW g, WellFormed(g), Iterating(g, rooms[g.user], handler),
             caster' = [caster EXCEPT ![k] = g], UNCHANGED <<rooms, subs, handler, lost>>
      PROVE  Inv'
  <2>1. \A j \in Casters : caster'[j] = IF j = k THEN g ELSE caster[j]
    BY <1>0, <1>2
  <2>2. SendersTyped'
    BY <1>0, <1>2, <2>1 DEF SendersTyped, WellFormed
  <2>3. ASSUME NEW j \in Casters
        PROVE  Iterating(caster'[j], rooms'[caster'[j].user], handler')
    <3>1. CASE j = k
      BY <1>2, <2>1, <3>1
    <3>2. CASE j # k
      BY <1>0, <1>2, <2>1, <3>2
    <3>3. QED
      BY <3>1, <3>2
  <2>4. \A j \in Casters : Iterating(caster[j], rooms[caster[j].user], handler)'
    BY <2>3, ZenonT(30) DEF Iterating, Told, Past
  <2>5. QED
    BY <1>2, <2>2, <2>4 DEF Inv, ListsServed, SubsServed, Distinct
<1>3. ASSUME NEW c \in Conns, Connect(c)
      PROVE  Inv'
  <2> DEFINE u == Owner(c)
  <2>1. u \in Users /\ handler[c] = "new" /\ c \notin ToSet(rooms[u])
    BY <1>0, <1>3, OwnerIsUser DEF Connect
  <2>2. /\ handler' \in [Conns -> {"new", "serving", "ended"}]
        /\ \A d \in Conns : handler'[d] = IF d = c THEN "serving" ELSE handler[d]
    BY <1>0, <1>3 DEF Connect
  <2>3. /\ Append(rooms[u], c) \in Seq(Conns) /\ Distinct(Append(rooms[u], c))
        /\ ToSet(Append(rooms[u], c)) = ToSet(rooms[u]) \cup {c}
    BY <1>0, <2>1, AppendedToList
  <2>4. /\ rooms' \in [Users -> Seq(Conns)]
        /\ \A w \in Users : rooms'[w] = IF w = u THEN Append(rooms[u], c) ELSE rooms[w]
    BY <1>0, <1>3, <2>1, <2>3 DEF Connect
  <2>5. ListsServed'
    <3>1. ASSUME NEW w \in Users
          PROVE  Distinct(rooms'[w]) /\ \A d \in ToSet(rooms'[w]) : Owner(d) = w /\ handler'[d] = "serving"
      <4>1. CASE w = u
        BY <1>0, <2>2, <2>3, <2>4, <4>1
      <4>2. CASE w # u
        BY <1>0, <2>2, <2>4, <4>2
      <4>3. QED
        BY <4>1, <4>2
    <3>2. QED
      BY <2>4, <3>1 DEF ListsServed
  <2>6. SubsServed'
    <3>1. UNCHANGED subs
      BY <1>3 DEF Connect
    <3>2. \A d \in Conns : handler[d] = "serving" => handler'[d] = "serving"
      BY <2>2
    <3>3. QED
      BY <3>1, <3>2 DEF Inv, SubsServed
  <2>7. ASSUME NEW k \in Casters
        PROVE  Iterating(caster[k], rooms'[caster[k].user], handler')
    <3> DEFINE f == caster[k]
    <3>1. WellFormed(f) /\ Iterating(f, rooms[f.user], handler) /\ f.user \in Users \cup {Nobody}
      BY <1>0 DEF Frame
    <3>2. \A d \in Conns : handler'[d] = "new" => handler[d] = "new"
      BY <2>2
    <3>3. CASE f.user = Nobody
      BY <3>3 DEF Iterating
    <3>4. CASE f.user = u
      <4>1. /\ rooms[u] \in Seq(Conns) /\ Distinct(rooms[u])
            /\ \A d \in ToSet(rooms[u]) : handler[d] # "new"
        BY <1>0, <2>1
      <4>2. Iterating(f, Append(rooms[u], c), handler')
        BY <2>1, <3>1, <3>2, <3>4, <4>1, ArrivalKeeps
      <4>3. QED
        BY <2>1, <2>4, <3>4, <4>2
    <3>5. CASE f.user \in Users \ {u}
      BY <2>4, <3>1, <3>2, <3>5, OthersKeep
    <3>6. QED
      BY <3>1, <3>3, <3>4, <3>5
  <2>8. UNCHANGED <<caster, lost>>
    BY <1>3 DEF Connect
  <2>9. SendersTyped' /\ \A k \in Casters : Iterating(caster[k], rooms[caster[k].user], handler)'
    <3>1. SendersTyped'
      BY <1>0, <2>8 DEF SendersTyped, WellFormed
    <3>2. \A k \in Casters : Iterating(caster'[k], rooms'[caster'[k].user], handler')
      BY <2>7, <2>8
    <3>3. \A k \in Casters : Iterating(caster[k], rooms[caster[k].user], handler)'
      BY <3>2, ZenonT(30) DEF Iterating, Told, Past
    <3>4. QED
      BY <3>1, <3>3
  <2>10. QED
    BY <1>0, <2>2, <2>5, <2>6, <2>8, <2>9 DEF Inv
\* What leaves the lists, the handlers and the senders.
<1>4. ASSUME UNCHANGED <<rooms, handler, caster>>, SubsServed', lost' \subseteq Conns
      PROVE  Inv'
  <2>1. ListsServed'
    BY <1>4 DEF Inv, ListsServed, Distinct
  <2>2. SendersTyped'
    BY <1>4 DEF Inv, SendersTyped, WellFormed
  <2>3. \A k \in Casters : Iterating(caster[k], rooms[caster[k].user], handler)'
    <3>1. \A k \in Casters : Iterating(caster'[k], rooms'[caster'[k].user], handler')
      BY <1>0, <1>4
    <3>2. QED
      BY <3>1, ZenonT(30) DEF Iterating, Told, Past
  <2>4. QED
    BY <1>0, <1>4, <2>1, <2>2, <2>3 DEF Inv
<1>5. ASSUME NEW c \in Conns, NEW v \in Vaults, Subscribe(c, v) \/ Unsubscribe(c, v)
      PROVE  Inv'
  <2>1. UNCHANGED <<rooms, handler, lost, caster>> /\ handler[c] = "serving"
    BY <1>5 DEF Subscribe, Unsubscribe
  <2>2. subs \in [Vaults -> SUBSET Users] /\ Owner(c) \in Users
    BY OwnerIsUser DEF Inv, SubsServed
  <2>3. subs' \in [Vaults -> SUBSET Users] /\ \A w \in Vaults : subs'[w] \subseteq subs[w] \cup {Owner(c)}
    BY <1>5, <2>2 DEF Subscribe, Unsubscribe
  <2>4. SubsServed'
    BY <2>1, <2>3 DEF Inv, SubsServed
  <2>5. QED
    BY <1>0, <1>4, <2>1, <2>4
<1>6. ASSUME NEW c \in Conns, Lose(c)
      PROVE  Inv'
  BY <1>0, <1>4, <1>6 DEF Lose, Inv, SubsServed
\* disconnect_user, by a handler that ends and by a sender.
<1>7. ASSUME NEW u \in Users, NEW c \in Conns, DisconnectUser(u, c), UNCHANGED lost,
             \/ handler' = handler
             \/ Owner(c) = u /\ handler' = [handler EXCEPT ![c] = "ended"],
             caster' \in [Casters -> Frame],
             \A k \in Casters : \/ caster'[k] = Removed(u, c)[k]
                                \/ WellFormed(caster'[k]) /\ caster'[k].at = "clean"
      PROVE  Inv'
  <2>1. /\ ListsServed' /\ SubsServed' /\ handler' \in [Conns -> {"new", "serving", "ended"}]
        /\ \A k \in Casters : LET g == Removed(u, c)[k] IN
             WellFormed(g) /\ Iterating(g, rooms'[g.user], handler')
    BY <1>7, DisconnectKeeps
  <2>2. \A k \in Casters : WellFormed(caster'[k]) /\ Iterating(caster'[k], rooms'[caster'[k].user], handler')
    BY <1>7, <2>1 DEF Iterating
  <2>3. SendersTyped'
    BY <1>7, <2>2 DEF SendersTyped, WellFormed
  <2>4. \A k \in Casters : Iterating(caster[k], rooms[caster[k].user], handler)'
    BY <2>2 DEF Iterating, Told, Past
  <2>5. QED
    BY <1>0, <1>7, <2>1, <2>3, <2>4 DEF Inv
<1>8. ASSUME NEW c \in Conns, End(c)
      PROVE  Inv'
  <2>1. /\ Owner(c) \in Users /\ DisconnectUser(Owner(c), c) /\ UNCHANGED lost
        /\ handler' = [handler EXCEPT ![c] = "ended"] /\ caster' = Removed(Owner(c), c)
    BY <1>8, OwnerIsUser DEF End
  <2>2. \A k \in Casters : Removed(Owner(c), c)[k] \in Frame
    BY <2>1, DisconnectKeeps DEF WellFormed
  <2>3. caster' \in [Casters -> Frame]
    BY <2>1, <2>2 DEF Removed
  <2>4. QED
    BY <1>7, <2>1, <2>3
<1>9. ASSUME NEW k \in Casters, NEW c \in Conns, CleanUp(k, c)
      PROVE  Inv'
  <2> DEFINE u == caster[k].user
             r == Removed(u, c)
             g == [r[k] EXCEPT !.dead = @ \ {c}]
  <2>1. caster[k].at = "clean" /\ u \in Users /\ DisconnectUser(u, c) /\ UNCHANGED <<handler, lost>>
    BY <1>0, <1>9 DEF CleanUp, WellFormed, Frame
  <2>2. caster' = [r EXCEPT ![k].dead = @ \ {c}]
    BY <1>9 DEF CleanUp
  <2>3. \A j \in Casters : WellFormed(r[j]) /\ r[j].at = caster[j].at /\ r[j] \in Frame
    BY <2>1, DisconnectKeeps DEF WellFormed
  <2>4. DOMAIN r = Casters
    BY DEF Removed
  <2> HIDE DEF r
  <2>5. g \in Frame /\ g.at = "clean" /\ WellFormed(g)
    <3>1. /\ g \in Frame /\ g.at = r[k].at /\ g.user = r[k].user /\ g.to = r[k].to
          /\ g.pos = r[k].pos /\ g.listed = r[k].listed /\ g.began = r[k].began
          /\ g.got = r[k].got /\ g.removed = r[k].removed /\ g.dead = r[k].dead \ {c}
      BY <2>3 DEF Frame
    <3>2. r[k].at = "clean"
      BY <2>1, <2>3
    <3> HIDE DEF g
    <3>3. WellFormed(g)
      BY <2>3, <3>1, <3>2 DEF WellFormed
    <3>4. QED
      BY <3>1, <3>2, <3>3
  <2>6. \A j \in Casters : caster'[j] = IF j = k THEN g ELSE r[j]
    BY <2>2, <2>4
  <2>7. caster' \in [Casters -> Frame]
    <3>1. DOMAIN caster' = Casters /\ caster' = [j \in Casters |-> caster'[j]]
      BY <2>2, <2>4
    <3> HIDE DEF g
    <3>2. QED
      BY <2>3, <2>5, <2>6, <3>1
  <2> HIDE DEF g
  <2>8. QED
    BY <1>7, <2>1, <2>5, <2>6, <2>7 DEF r
<1>10. ASSUME NEW k \in Casters, Broadcast(k) \/ SendToUser(k)
       PROVE  Inv'
  <2>1. PICK todo \in SUBSET Users : Begin(k, todo)
    BY <1>10 DEF Broadcast, SendToUser, Inv, SubsServed
  <2> DEFINE g == [Idle EXCEPT !.at = "run", !.todo = todo]
  <2>2. WellFormed(g) /\ g.user = Nobody
    BY BetweenUsers
  <2>3. caster' = [caster EXCEPT ![k] = g] /\ UNCHANGED <<rooms, subs, handler, lost>>
    BY <2>1 DEF Begin
  <2> HIDE DEF g
  <2>4. Iterating(g, rooms[g.user], handler)
    BY <2>2 DEF Iterating
  <2>5. QED
    BY <1>2, <2>2, <2>3, <2>4
<1>11. ASSUME NEW k \in Casters, NEW u \in Users, NextUser(k, u)
       PROVE  Inv'
  <2>1. caster[k].at = "run" /\ caster[k].user = Nobody /\ caster[k].todo \ {u} \in SUBSET Users
    BY <1>0, <1>11 DEF NextUser, Frame
  <2>2. CASE rooms[u] = <<>>
    <3> DEFINE g == [caster[k] EXCEPT !.todo = @ \ {u}]
    <3>1. g \in Frame /\ g.at = "run" /\ g.user = Nobody /\ g.to = caster[k].to /\ g.pos = caster[k].pos
          /\ g.listed = caster[k].listed /\ g.dead = caster[k].dead /\ g.began = caster[k].began
          /\ g.got = caster[k].got /\ g.removed = caster[k].removed
      BY <1>0, <2>1, ZenonT(30) DEF Frame
    <3>2. caster' = [caster EXCEPT ![k] = g] /\ UNCHANGED <<rooms, subs, handler, lost>>
      <4> DEFINE G == [Idle EXCEPT !.at = "run", !.todo = caster[k].todo \ {u}, !.user = u,
                                   !.pos = 1, !.listed = TRUE, !.began = ToSet(rooms[u])]
      <4>1. /\ caster' = [caster EXCEPT ![k] = IF rooms[u] = <<>> THEN g ELSE G]
            /\ UNCHANGED <<rooms, subs, handler, lost>>
        BY <1>0, <1>11 DEF NextUser
      <4> HIDE DEF g, G
      <4>2. QED
        BY <2>2, <4>1
    <3> HIDE DEF g
    <3>3. WellFormed(g) /\ Iterating(g, rooms[g.user], handler)
      BY <1>0, <2>1, <3>1 DEF WellFormed, Iterating
    <3>4. QED
      BY <1>2, <3>2, <3>3
  <2>3. CASE rooms[u] # <<>>
    <3> DEFINE g == [Idle EXCEPT !.at = "run", !.todo = caster[k].todo \ {u}, !.user = u,
                                 !.pos = 1, !.listed = TRUE, !.began = ToSet(rooms[u])]
    <3>1. rooms[u] \in Seq(Conns)
      BY <1>0
    <3>2. WellFormed(g) /\ g.user = u /\ Iterating(g, rooms[u], handler)
      BY <2>1, <3>1, AtStart
    <3>3. caster' = [caster EXCEPT ![k] = g] /\ UNCHANGED <<rooms, subs, handler, lost>>
      BY <1>11, <2>3 DEF NextUser
    <3> HIDE DEF g
    <3>4. QED
      BY <1>2, <3>2, <3>3
  <2>4. QED
    BY <2>2, <2>3
<1>12. ASSUME NEW k \in Casters, Send(k)
       PROVE  Inv'
  <2> DEFINE f == caster[k]
             s == rooms[f.user]
             g == [f EXCEPT !.at = "send", !.to = s[f.pos]]
  <2>1. WellFormed(f) /\ f.at = "run" /\ f.user \in Users /\ f.user # Nobody /\ f.listed /\ f.pos <= Len(s)
    BY <1>0, <1>12, RoomsAssumption DEF Send, InList, Frame
  <2>2. s \in Seq(Conns) /\ Distinct(s) /\ Iterating(f, s, handler)
    BY <1>0, <2>1
  <2>3. WellFormed(g) /\ g.user = f.user /\ Iterating(g, s, handler)
    BY <2>1, <2>2, SendKeeps
  <2>4. caster' = [caster EXCEPT ![k] = g] /\ UNCHANGED <<rooms, subs, handler, lost>>
    BY <1>0, <1>12 DEF Send
  <2> HIDE DEF g
  <2>5. QED
    BY <1>2, <2>3, <2>4
<1>13. ASSUME NEW k \in Casters, SendReturns(k) \/ SendRaises(k)
       PROVE  Inv'
  <2> DEFINE f == caster[k]
             a == [f EXCEPT !.at = "run", !.to = Nobody, !.pos = @ + 1, !.got = @ \cup {f.to}]
             b == [f EXCEPT !.at = "run", !.to = Nobody, !.pos = @ + 1, !.dead = @ \cup {f.to}]
  <2>1. f.at = "send" /\ WellFormed(f) /\ f.user \in Users
    BY <1>0, <1>13 DEF SendReturns, SendRaises, WellFormed, Frame
  <2>2. rooms[f.user] \in Seq(Conns) /\ Iterating(f, rooms[f.user], handler)
    BY <1>0, <2>1
  <2>3. /\ WellFormed(a) /\ a.user = f.user /\ Iterating(a, rooms[f.user], handler)
        /\ WellFormed(b) /\ b.user = f.user /\ Iterating(b, rooms[f.user], handler)
    BY <2>1, <2>2, SentKeeps
  <2>4. caster' = [caster EXCEPT ![k] = a] \/ caster' = [caster EXCEPT ![k] = b]
    BY <1>0, <1>13 DEF SendReturns, SendRaises
  <2>5. UNCHANGED <<rooms, subs, handler, lost>>
    BY <1>13 DEF SendReturns, SendRaises
  <2> HIDE DEF a, b
  <2>6. QED
    BY <1>2, <2>3, <2>4, <2>5
<1>14. ASSUME NEW k \in Casters, EndOfList(k)
       PROVE  Inv'
  <2> DEFINE g == [caster[k] EXCEPT !.at = "clean"]
  <2>1. caster[k].at = "run" /\ caster[k].user # Nobody /\ WellFormed(caster[k])
    BY <1>0, <1>14 DEF EndOfList
  <2>2. g \in Frame /\ g.at = "clean" /\ g.user = caster[k].user /\ g.to = caster[k].to
    BY <1>0, ZenonT(30) DEF Frame
  <2>3. caster' = [caster EXCEPT ![k] = g] /\ UNCHANGED <<rooms, subs, handler, lost>>
    BY <1>0, <1>14 DEF EndOfList
  <2> HIDE DEF g
  <2>4. WellFormed(g) /\ Iterating(g, rooms[g.user], handler)
    BY <2>1, <2>2 DEF WellFormed, Iterating
  <2>5. QED
    BY <1>2, <2>3, <2>4
<1>15. ASSUME NEW k \in Casters, Leave(k)
       PROVE  Inv'
  <2> DEFINE g == [Idle EXCEPT !.at = "run", !.todo = caster[k].todo]
  <2>1. caster[k].todo \in SUBSET Users
    BY <1>0 DEF Frame
  <2>2. WellFormed(g) /\ g.user = Nobody
    BY <2>1, BetweenUsers
  <2>3. caster' = [caster EXCEPT ![k] = g] /\ UNCHANGED <<rooms, subs, handler, lost>>
    BY <1>15 DEF Leave
  <2> HIDE DEF g
  <2>4. QED
    BY <1>2, <2>2, <2>3 DEF Iterating
<1>16. ASSUME NEW k \in Casters, Done(k)
       PROVE  Inv'
  <2>1. Iterating(Idle, rooms[Idle.user], handler)
    BY IdleWellFormed DEF Iterating
  <2>2. QED
    BY <1>2, <1>16, <2>1, IdleWellFormed DEF Done
<1>17. QED
  BY <1>1, <1>3, <1>5, <1>6, <1>8, <1>9, <1>10, <1>11, <1>12, <1>13, <1>14, <1>15, <1>16 DEF Next

LEMMA Invariance == Spec => []Inv
<1>1. Init => Inv
  <2> SUFFICES ASSUME Init
               PROVE  Inv
    OBVIOUS
  <2>1. /\ <<>> \in Seq(Conns) /\ Distinct(<<>>) /\ ToSet(<<>>) = {}
    BY DEF Distinct, ToSet
  <2>2. ListsServed
    BY <2>1 DEF Init, ListsServed
  <2>3. SubsServed /\ SendersTyped
    BY IdleWellFormed DEF Init, SubsServed, SendersTyped
  <2>4. \A k \in Casters : Iterating(caster[k], rooms[caster[k].user], handler)
    BY IdleWellFormed DEF Init, Iterating
  <2>5. QED
    BY <2>2, <2>3, <2>4 DEF Init, Inv
<1>2. QED
  BY <1>1, InvStep, PTL DEF Spec

\* A sender that starts on its users, field by field.
LEMMA IdleWithFields ==
  ASSUME NEW a, NEW t
  PROVE  [Idle EXCEPT !.at = a, !.todo = t] =
           [at |-> a, todo |-> t, user |-> Nobody, pos |-> 0, listed |-> FALSE,
            to |-> Nobody, dead |-> {}, began |-> {}, got |-> {}, removed |-> {}]
<1> DEFINE g == [Idle EXCEPT !.at = a, !.todo = t]
           F == {"at", "todo", "user", "pos", "listed", "to", "dead", "began", "got", "removed"}
<1>1. g = [x \in F |-> g[x]]
  BY DEF Idle
<1>2. /\ g.at = a /\ g.todo = t /\ g.user = Nobody /\ g.pos = 0 /\ g.listed = FALSE
      /\ g.to = Nobody /\ g.dead = {} /\ g.began = {} /\ g.got = {} /\ g.removed = {}
  BY DEF Idle
<1> HIDE DEF g
<1>3. g = [at |-> g.at, todo |-> g.todo, user |-> g.user, pos |-> g.pos, listed |-> g.listed,
           to |-> g.to, dead |-> g.dead, began |-> g.began, got |-> g.got, removed |-> g.removed]
  BY <1>1
<1>4. g = [at |-> a, todo |-> t, user |-> Nobody, pos |-> 0, listed |-> FALSE,
           to |-> Nobody, dead |-> {}, began |-> {}, got |-> {}, removed |-> {}]
  BY <1>2, <1>3
<1>5. QED
  BY <1>4 DEF g

\* The lists, subscriptions, handlers and senders are well typed.
THEOREM TypesHold == Spec => []TypeOK
<1>1. Inv => TypeOK
  <2> SUFFICES ASSUME Inv, NEW k \in Casters
               PROVE  /\ caster[k].at = "send" <=> caster[k].to # Nobody
                      /\ caster[k].user = Nobody =>
                           caster[k] = [Idle EXCEPT !.at = caster[k].at, !.todo = caster[k].todo]
    BY DEF Inv, ListsServed, SubsServed, SendersTyped, TypeOK
  <2> DEFINE f == caster[k]
  <2>1. f \in Frame /\ WellFormed(f)
    BY DEF Inv, SendersTyped
  <2>2. ASSUME f.user = Nobody
        PROVE  f = [Idle EXCEPT !.at = f.at, !.todo = f.todo]
    <3>1. /\ f.pos = 0 /\ f.to = Nobody /\ f.listed = FALSE
          /\ f.dead = {} /\ f.began = {} /\ f.got = {} /\ f.removed = {}
      BY <2>1, <2>2 DEF WellFormed, Frame
    <3>2. f = [at |-> f.at, todo |-> f.todo, user |-> f.user, pos |-> f.pos, listed |-> f.listed,
               to |-> f.to, dead |-> f.dead, began |-> f.began, got |-> f.got, removed |-> f.removed]
      BY <2>1 DEF Frame
    <3>3. f = [at |-> f.at, todo |-> f.todo, user |-> Nobody, pos |-> 0, listed |-> FALSE,
               to |-> Nobody, dead |-> {}, began |-> {}, got |-> {}, removed |-> {}]
      BY <2>2, <3>1, <3>2
    <3> HIDE DEF f
    <3>4. [Idle EXCEPT !.at = f.at, !.todo = f.todo] =
            [at |-> f.at, todo |-> f.todo, user |-> Nobody, pos |-> 0, listed |-> FALSE,
             to |-> Nobody, dead |-> {}, began |-> {}, got |-> {}, removed |-> {}]
      BY IdleWithFields
    <3>5. QED
      BY <3>3, <3>4
  <2>3. QED
    BY <2>1, <2>2 DEF WellFormed
<1>2. QED
  BY <1>1, Invariance, PTL

\* disconnect_user, from the endpoint or from a sender: only connections that are read from
\* are in a list, and nobody is subscribed without one.
THEOREM RoomsHold == Spec => []RoomsServed
<1>1. Inv => RoomsServed
  BY DEF Inv, ListsServed, SubsServed, RoomsServed
<1>2. QED
  BY <1>1, Invariance, PTL

\* At the end of a list that has been iterated over, those that were skipped are no more
\* than those that were removed.
LEMMA SkippedBounded ==
  ASSUME NEW f, WellFormed(f), f.at = "run", f.user # Nobody, NEW s \in Seq(Conns), NEW h,
         Iterating(f, s, h), ~(f.listed /\ f.pos <= Len(s))
  PROVE  Cardinality(f.began \ (f.got \cup f.dead \cup f.removed)) <= Cardinality(f.removed)
<1> DEFINE X == f.began \ (f.got \cup f.dead \cup f.removed)
<1>0. f \in Frame /\ f.pos \in Nat /\ Len(s) \in Nat /\ f.began \subseteq Conns
  BY DEF WellFormed, Frame
<1>1. /\ IsFiniteSet(Told(f)) /\ IsFiniteSet(f.removed) /\ Cardinality(f.removed) \in Nat
      /\ Cardinality(Told(f)) \in Nat
  BY <1>0, ToldFinite, FS_CardinalityType
<1>2. CASE ~f.listed
  <2>1. X = {}
    BY <1>2 DEF Iterating
  <2>2. QED
    BY <1>1, <2>1, FS_EmptySet
<1>3. CASE f.listed
  <2> DEFINE L == ToSet(s)
             T == Told(f)
             R == f.removed
  <2>1. /\ T = f.got \cup f.dead /\ Cardinality(T) = f.pos - 1 /\ f.pos > Len(s)
        /\ T \subseteq L \cup R /\ f.began \subseteq L \cup R
    BY <1>0, <1>3 DEF Iterating, Told, Past
  <2>2. IsFiniteSet(L) /\ Cardinality(L) \in Nat /\ Cardinality(L) <= Len(s)
    BY ListBound
  <2> HIDE DEF L, T, R
  <2>3. IsFiniteSet(T) /\ IsFiniteSet(R) /\ Cardinality(R) \in Nat /\ Cardinality(T) \in Nat
    BY <1>1 DEF T, R
  <2>4. X \subseteq L \ T
    BY <2>1 DEF R
  <2>5. IsFiniteSet(L \ T) /\ Cardinality(L \ T) = Cardinality(L) - Cardinality(L \cap T)
    BY <2>2, FS_Difference
  <2>6. IsFiniteSet(T \ R) /\ Cardinality(T \ R) = Cardinality(T) - Cardinality(T \cap R)
    BY <2>3, FS_Difference
  <2>7. Cardinality(T \cap R) \in Nat /\ Cardinality(T \cap R) <= Cardinality(R)
    <3>1. T \cap R \subseteq R
      OBVIOUS
    <3>2. QED
      BY <2>3, <3>1, FS_Subset, FS_CardinalityType
  <2>8. Cardinality(L \cap T) \in Nat /\ Cardinality(T \ R) <= Cardinality(L \cap T)
    <3>1. T \ R \subseteq L \cap T /\ L \cap T \subseteq L
      BY <2>1
    <3>2. IsFiniteSet(L \cap T)
      BY <2>2, <3>1, FS_Subset
    <3>3. QED
      BY <3>1, <3>2, FS_Subset, FS_CardinalityType
  <2>9. Cardinality(X) <= Cardinality(L \ T) /\ Cardinality(X) \in Nat
    BY <2>4, <2>5, FS_Subset, FS_CardinalityType
  <2>10. Cardinality(X) <= Cardinality(R)
    BY <1>0, <2>1, <2>2, <2>3, <2>5, <2>6, <2>7, <2>8, <2>9
  <2>11. QED
    BY <2>10 DEF R
<1>4. QED
  BY <1>2, <1>3

\* send_to_user iterates over a list that others shorten: nobody is sent a message twice,
\* and it misses no more than have been removed.
THEOREM DeliveryHolds == Spec => []DeliveryBounded
<1>1. Inv => DeliveryBounded
  <2> SUFFICES ASSUME Inv, NEW k \in Casters
               PROVE  LET f == caster[k] IN
                      /\ f.at = "send" => f.to \notin f.got \cup f.dead
                      /\ f.at = "run" /\ f.user # Nobody /\ ~InList(k) =>
                           Cardinality(f.began \ (f.got \cup f.dead \cup f.removed)) <= Cardinality(f.removed)
    BY DEF DeliveryBounded
  <2> DEFINE f == caster[k]
  <2>1. WellFormed(f) /\ Iterating(f, rooms[f.user], handler) /\ f.user \in Users \cup {Nobody}
    BY DEF Inv, SendersTyped, Frame
  <2>2. f.user # Nobody => rooms[f.user] \in Seq(Conns)
    BY <2>1 DEF Inv, ListsServed
  <2>3. f.at = "send" => f.to \notin f.got \cup f.dead
    BY <2>1 DEF Iterating, WellFormed
  <2>4. ASSUME f.at = "run", f.user # Nobody, ~InList(k)
        PROVE  Cardinality(f.began \ (f.got \cup f.dead \cup f.removed)) <= Cardinality(f.removed)
    BY <2>1, <2>2, <2>4, SkippedBounded DEF InList
  <2>5. QED
    BY <2>3, <2>4
<1>2. QED
  BY <1>1, Invariance, PTL
=============================================================================
