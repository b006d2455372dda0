----------------------------- MODULE CallsProofs -----------------------------
(***************************************************************************)
(* What is proved of Calls, for all bounds, settings and sets of commands: *)
(* the pointers of command mode and of stream mode, carrier detect and the *)
(* rate of the UART.                                                       *)
(*                                                                         *)
(* Good is what every handler keeps.  It says more than the properties do: *)
(* a call that was not answered has rings left (ListOK), so that its next  *)
(* ring may be counted down; the ids leave room for a caller that waits;   *)
(* the state of the rate follows the carrier even while a change of rate   *)
(* is pending (RateOK).  Inside a handler less holds: Sound before the     *)
(* carrier has been looked at, ListBut while a caller's rings have run out.*)
(*                                                                         *)
(* The code walks over the list and deletes while it walks.  A walk is a   *)
(* recursive function of the number of its turns.  WalkExists and WalkStays*)
(* are the induction over that number; it follows from the least number of *)
(* a set of numbers, since an induction theorem with an operator for its   *)
(* parameter is beyond the provers.                                        *)
(***************************************************************************)
EXTENDS Calls, TLAPS, WellFoundedInduction

BaudStates == {"NORMAL", "SWITCH_TEMP_NEXT", "SWITCHED_TEMP", "SWITCH_NORMAL_NEXT"}

States ==
  [conns : SUBSET Ids, up : SUBSET Ids, unread : SUBSET Ids, answered : SUBSET Ids,
   server : SUBSET Ids, exit : SUBSET Ids, was : SUBSET Ids, marked : SUBSET Ids,
   due : SUBSET Ids, ringDue : SUBSET Ids, rings : [Ids -> Nat], lastId : 0 .. MaxId,
   current : Ids \cup {null}, nextConn : Ids \cup {null}, stream : Ids \cup {null},
   mode : {"command", "stream"}, last : Ids \cup {null}, busy : BOOLEAN,
   ringCounter : Nat, pending : BOOLEAN, dcd : BOOLEAN, ri : BOOLEAN, dtr : BOOLEAN,
   lastDTR : BOOLEAN, alarm : {"off", "set", "due"},
   baudState : BaudStates,
   uart : {"normal", "temp"}, out : BOOLEAN, blip : BOOLEAN, stray : BOOLEAN]

\* The list: the ids in use, which connections have rings left, room for a caller.
ListOK(s) ==
    /\ s.conns \subseteq 1 .. s.lastId
    /\ s.answered \subseteq s.conns
    /\ s.due \subseteq s.conns
    /\ \A c \in s.conns \ s.answered : s.rings[c] > 0
    /\ s.pending => s.lastId < MaxId

\* The same while the connections of gone leave the list, or are answered.
ListBut(s, gone) ==
    /\ s.conns \subseteq 1 .. s.lastId
    /\ s.answered \subseteq s.conns
    /\ s.due \subseteq s.conns
    /\ \A c \in (s.conns \ s.answered) \ gone : s.rings[c] > 0
    /\ s.pending => s.lastId < MaxId

\* The pointers of command mode are to connections of the list.
PointersOK(s) ==
    /\ s.current \in s.conns \cup {null}
    /\ s.nextConn \in s.conns \cup {null}

\* The rate of the UART is that of the state of the rate, and the latter is that
\* of the carrier unless the carrier changed at the wrong moment.
RateOK(s) ==
    /\ s.uart = "temp" <=> s.baudState \in {"SWITCHED_TEMP", "SWITCH_NORMAL_NEXT"}
    /\ TempBaud =>
         s.blip \/ (s.dcd <=> s.baudState \in {"SWITCH_TEMP_NEXT", "SWITCHED_TEMP"})

CarrierOK(s) == s.conns = {} => ~s.dcd

\* What holds when the carrier has not been looked at, and when it has.
Sound(s) == s \in States /\ ListOK(s) /\ PointersOK(s) /\ RateOK(s)
Good(s) == Sound(s) /\ CarrierOK(s)

\* The streamed call is on the list, or was marked for disconnection.
Streamed(s) == s.mode = "stream" => s.stream \in s.conns \cup s.marked

\* No change of rate is pending.
RateSettled(s) == s.baudState \in {"NORMAL", "SWITCHED_TEMP"}

IInv ==
    /\ m \in States /\ Streamed(m) /\ pc \in {"idle", "loop"}
    /\ ~m.stray => Good(m)
    /\ pc = "idle" /\ ~m.stray => RateSettled(m)

-----------------------------------------------------------------------------
(* Numbers and walks.                                                      *)

\* A set of numbers that is not empty has a least member.
LEMMA LeastNumber ==
  ASSUME NEW T \in SUBSET Nat, T # {}
  PROVE  \E n \in T : \A k \in T : n <= k
<1> DEFINE R == OpToRel(<, Nat)
<1>1. \A x, y \in Nat : <<y, x>> \in R <=> y < x
  BY DEF OpToRel
<1>2. IsWellFoundedOn(R, Nat)
  BY NatLessThanWellFounded
<1> HIDE DEF R
<1>3. PICK x \in T : \A y \in T : <<y, x>> \notin R
  BY <1>2, WFMin
<1>4. \A y \in T : y \in Nat /\ x \in Nat /\ ~(y < x)
  BY <1>1, <1>3
<1> QED
  BY <1>4

\* A set that has 0, and the successor of each of its numbers, has them all.
LEMMA CountUp ==
  ASSUME NEW T, 0 \in T, \A n \in Nat : n \in T => n + 1 \in T
  PROVE  Nat \subseteq T
<1> DEFINE Bad == Nat \ T
<1> SUFFICES ASSUME Bad # {} PROVE FALSE
  OBVIOUS
<1>1. Bad \in SUBSET Nat
  OBVIOUS
<1>2. PICK n \in Bad : \A k \in Bad : n <= k
  <2> HIDE DEF Bad
  <2> QED
    BY <1>1, LeastNumber
<1>3. n # 0 /\ n \in Nat
  OBVIOUS
<1>4. n - 1 \in Nat /\ n - 1 \notin Bad
  BY <1>2, <1>3
<1> QED
  BY <1>3, <1>4

\* A walk of n steps in S from x: f[i] is its i-th step.
Steps(S, n) == [1 .. n -> [S -> S]]
Walks(S, n, f, x) ==
    {w \in [0 .. n -> S] : w[0] = x /\ \A i \in 1 .. n : w[i] = f[i][w[i - 1]]}

\* The steps that stay in S make a walk: a recursive definition has a value.
LEMMA WalkExists ==
  ASSUME NEW S, NEW n \in Nat, NEW f \in Steps(S, n), NEW x \in S
  PROVE  Walks(S, n, f, x) # {}
<1> DEFINE T == {k \in Nat : k <= n => \E w \in [0 .. k -> S] :
                                   w[0] = x /\ \A i \in 1 .. k : w[i] = f[i][w[i - 1]]}
<1>1. 0 \in T
  <2> DEFINE w == [i \in 0 .. 0 |-> x]
  <2>1. w \in [0 .. 0 -> S] /\ w[0] = x /\ \A i \in 1 .. 0 : w[i] = f[i][w[i - 1]]
    OBVIOUS
  <2> HIDE DEF w
  <2> QED
    BY <2>1
<1>2. ASSUME NEW k \in Nat, k \in T PROVE k + 1 \in T
  <2> SUFFICES ASSUME k + 1 <= n
               PROVE  \E w \in [0 .. k + 1 -> S] :
                        w[0] = x /\ \A i \in 1 .. k + 1 : w[i] = f[i][w[i - 1]]
    OBVIOUS
  <2>1. PICK v \in [0 .. k -> S] : v[0] = x /\ \A i \in 1 .. k : v[i] = f[i][v[i - 1]]
    BY <1>2
  <2>2. f[k + 1][v[k]] \in S
    BY <2>1 DEF Steps
  <2> DEFINE w == [i \in 0 .. k + 1 |-> IF i = k + 1 THEN f[k + 1][v[k]] ELSE v[i]]
  <2>3. w \in [0 .. k + 1 -> S]
    BY <2>2
  <2>4. w[0] = x /\ \A i \in 1 .. k + 1 : w[i] = f[i][w[i - 1]]
    BY <2>1
  <2> HIDE DEF w
  <2> QED
    BY <2>3, <2>4
<1> HIDE DEF T
<1>3. n \in T
  BY <1>1, <1>2, CountUp
<1> QED
  BY <1>3 DEF T, Walks

\* A walk that begins in S, and whose turns stay in S, ends in S.
LEMMA WalkStays ==
  ASSUME NEW S, NEW n \in Nat, NEW w, w[0] \in S,
         \A i \in 1 .. n : w[i - 1] \in S => w[i] \in S
  PROVE  w[n] \in S
<1> DEFINE T == {k \in Nat : k \in 0 .. n => w[k] \in S}
<1>1. 0 \in T
  OBVIOUS
<1>2. ASSUME NEW k \in Nat, k \in T PROVE k + 1 \in T
  <2> SUFFICES ASSUME k + 1 \in 0 .. n PROVE w[k + 1] \in S
    OBVIOUS
  <2>1. w[k] \in S
    BY <1>2
  <2>2. k + 1 \in 1 .. n /\ (k + 1) - 1 = k
    OBVIOUS
  <2> QED
    BY <2>1, <2>2
<1> HIDE DEF T
<1>3. n \in T
  BY <1>1, <1>2, CountUp
<1> QED
  BY <1>3 DEF T

\* Ids are positive, and null is none of them.
LEMMA IdsNumbers == MaxId \in Nat /\ Ids \subseteq Nat \ {0} /\ null \notin Ids
BY MaxIdAssumption DEF Ids, null

\* The least id of a list is on it.
LEMMA HeadListed == \A c \in SUBSET Ids : c # {} => Min(c) \in c
<1> SUFFICES ASSUME NEW c \in SUBSET Ids, c # {} PROVE Min(c) \in c
  OBVIOUS
<1>1. c \in SUBSET Nat
  BY IdsNumbers
<1>2. \E n \in c : \A k \in c : n <= k
  BY <1>1, LeastNumber
<1> QED
  BY <1>2 DEF Min

\* The head of the list is on the list, or null.
LEMMA FirstListed ==
  ASSUME NEW s \in States PROVE First(s) \in s.conns \cup {null}
<1>1. s.conns \in SUBSET Ids
  BY DEF States
<1> QED
  BY <1>1, HeadListed DEF First

\* The connection after another one is on the list, or null.
LEMMA AfterListed ==
  ASSUME NEW s \in States, NEW c PROVE After(s, c) \in s.conns \cup {null}
<1> DEFINE rest == {d \in s.conns : d > c}
<1>1. rest \in SUBSET Ids /\ rest \subseteq s.conns
  BY DEF States
<1>2. After(s, c) = IF rest = {} THEN null ELSE Min(rest)
  BY DEF After
<1> HIDE DEF rest
<1> QED
  BY <1>1, <1>2, HeadListed

-----------------------------------------------------------------------------
(* Steps that leave alone what the invariant is about.                     *)

Alike(s, t) ==
    /\ t \in States
    /\ t.conns = s.conns /\ t.up = s.up /\ t.answered = s.answered
    /\ t.marked = s.marked /\ t.due = s.due /\ t.rings = s.rings
    /\ t.lastId = s.lastId /\ t.pending = s.pending
    /\ t.current = s.current /\ t.nextConn = s.nextConn /\ t.stream = s.stream
    /\ t.mode = s.mode /\ t.last = s.last
    /\ t.dcd = s.dcd /\ t.baudState = s.baudState /\ t.uart = s.uart
    /\ t.blip = s.blip /\ t.stray = s.stray

\* A state like a good one is good.
LEMMA AlikeSound ==
  ASSUME NEW s, NEW t, Alike(s, t)
  PROVE  /\ Sound(s) => Sound(t)
         /\ Good(s) => Good(t)
         /\ Streamed(s) => Streamed(t)
BY DEF Alike, Sound, Good, ListOK, PointersOK, RateOK, CarrierOK, Streamed

\* The fields the invariant does not speak of may change at will.
LEMMA FreeFields ==
  ASSUME NEW s \in States
  PROVE  /\ Alike(s, s)
         /\ \A v \in SUBSET Ids : /\ Alike(s, [s EXCEPT !.unread = v])
                                  /\ Alike(s, [s EXCEPT !.server = v])
                                  /\ Alike(s, [s EXCEPT !.exit = v])
                                  /\ Alike(s, [s EXCEPT !.was = v])
                                  /\ Alike(s, [s EXCEPT !.ringDue = v])
         /\ \A b \in BOOLEAN : /\ Alike(s, [s EXCEPT !.busy = b])
                               /\ Alike(s, [s EXCEPT !.ri = b])
                               /\ Alike(s, [s EXCEPT !.dtr = b])
                               /\ Alike(s, [s EXCEPT !.lastDTR = b])
                               /\ Alike(s, [s EXCEPT !.out = b])
         /\ \A a \in {"off", "set", "due"} : Alike(s, [s EXCEPT !.alarm = a])
         /\ \A n \in Nat : Alike(s, [s EXCEPT !.ringCounter = n])
<1>1. Alike(s, s)
  BY DEF Alike
<1>2. ASSUME NEW v \in SUBSET Ids
      PROVE  /\ Alike(s, [s EXCEPT !.unread = v])
             /\ Alike(s, [s EXCEPT !.server = v])
             /\ Alike(s, [s EXCEPT !.exit = v])
             /\ Alike(s, [s EXCEPT !.was = v])
             /\ Alike(s, [s EXCEPT !.ringDue = v])
  <2>1. Alike(s, [s EXCEPT !.unread = v])
    BY DEF Alike, States
  <2>2. Alike(s, [s EXCEPT !.server = v])
    BY DEF Alike, States
  <2>3. Alike(s, [s EXCEPT !.exit = v])
    BY DEF Alike, States
  <2>4. Alike(s, [s EXCEPT !.was = v])
    BY DEF Alike, States
  <2>5. Alike(s, [s EXCEPT !.ringDue = v])
    BY DEF Alike, States
  <2> QED
    BY <2>1, <2>2, <2>3, <2>4, <2>5
<1>3. ASSUME NEW b \in BOOLEAN
      PROVE  /\ Alike(s, [s EXCEPT !.busy = b])
             /\ Alike(s, [s EXCEPT !.ri = b])
             /\ Alike(s, [s EXCEPT !.dtr = b])
             /\ Alike(s, [s EXCEPT !.lastDTR = b])
             /\ Alike(s, [s EXCEPT !.out = b])
  <2>1. Alike(s, [s EXCEPT !.busy = b])
    BY DEF Alike, States
  <2>2. Alike(s, [s EXCEPT !.ri = b])
    BY DEF Alike, States
  <2>3. Alike(s, [s EXCEPT !.dtr = b])
    BY DEF Alike, States
  <2>4. Alike(s, [s EXCEPT !.lastDTR = b])
    BY DEF Alike, States
  <2>5. Alike(s, [s EXCEPT !.out = b])
    BY DEF Alike, States
  <2> QED
    BY <2>1, <2>2, <2>3, <2>4, <2>5
<1>4. ASSUME NEW a \in {"off", "set", "due"} PROVE Alike(s, [s EXCEPT !.alarm = a])
  BY DEF Alike, States
<1>5. ASSUME NEW n \in Nat PROVE Alike(s, [s EXCEPT !.ringCounter = n])
  BY DEF Alike, States
<1> QED
  BY <1>1, <1>2, <1>3, <1>4, <1>5

\* What is said to the terminal, and the line RI, change such fields only.
LEMMA Talk ==
  ASSUME NEW s \in States
  PROVE  /\ Alike(s, Say(s)) /\ Alike(s, Respond(s))
         /\ \A c : Alike(s, SayNoCarrier(s, c))
         /\ \A b \in BOOLEAN : Alike(s, Pin(s, "ri", b))
BY FreeFields DEF Say, Respond, SayNoCarrier, Pin

-----------------------------------------------------------------------------
(* The list and the carrier.                                               *)

\* A list that is in order is in order but for any connections.
LEMMA ListButOne == \A s, gone : ListOK(s) => ListBut(s, gone)
BY DEF ListOK, ListBut

\* Connections leave the list: no pointer of command mode is left to them.
LEMMA UnlinkKeeps ==
  ASSUME NEW s, s \in States, NEW gone \in SUBSET Ids, ListBut(s, gone), RateOK(s)
  PROVE  /\ Sound(Unlink(s, gone))
         /\ Unlink(s, gone).conns = s.conns \ gone
         /\ Unlink(s, gone).answered = s.answered \ gone
         /\ Unlink(s, gone).due = s.due \ gone
         /\ Unlink(s, gone).up = s.up \ gone
         /\ Unlink(s, gone).was = s.was \ gone
         /\ Unlink(s, gone).marked = s.marked
         /\ Unlink(s, gone).lastId = s.lastId /\ Unlink(s, gone).pending = s.pending
         /\ Unlink(s, gone).mode = s.mode /\ Unlink(s, gone).stream = s.stream
         /\ Unlink(s, gone).last = s.last /\ Unlink(s, gone).stray = s.stray
         /\ Unlink(s, gone).dcd = s.dcd
         /\ s.current \in (s.conns \ gone) \cup {null} => Unlink(s, gone).current = s.current
<1> DEFINE u == [s EXCEPT !.conns = @ \ gone, !.up = @ \ gone,
                          !.unread = @ \ gone, !.answered = @ \ gone,
                          !.server = @ \ gone, !.exit = @ \ gone,
                          !.was = @ \ gone, !.due = @ \ gone,
                          !.ringDue = @ \ gone,
                          !.rings = [c \in Ids |-> IF c \in gone THEN 0 ELSE @[c]]]
           t == Unlink(s, gone)
<1>1. u \in States
  <2> DEFINE r == [c \in Ids |-> IF c \in gone THEN 0 ELSE s.rings[c]]
             v == [s EXCEPT !.conns = @ \ gone, !.up = @ \ gone, !.unread = @ \ gone]
             w == [v EXCEPT !.answered = @ \ gone, !.server = @ \ gone, !.exit = @ \ gone]
             x == [w EXCEPT !.was = @ \ gone, !.due = @ \ gone, !.ringDue = @ \ gone]
  <2>1. r \in [Ids -> Nat]
    BY DEF States
  <2>2. u = [x EXCEPT !.rings = r]
    BY DEF States
  <2> HIDE DEF r, u
  <2>3. v \in States
    BY DEF States
  <2> HIDE DEF v
  <2>4. w \in States
    BY <2>3 DEF States
  <2> HIDE DEF w
  <2>5. x \in States
    BY <2>4 DEF States
  <2> HIDE DEF x
  <2> QED
    BY <2>1, <2>2, <2>5 DEF States
<1>2. /\ u.conns = s.conns \ gone /\ u.answered = s.answered \ gone
      /\ u.due = s.due \ gone /\ u.up = s.up \ gone /\ u.was = s.was \ gone
      /\ u.rings = [c \in Ids |-> IF c \in gone THEN 0 ELSE s.rings[c]]
      /\ u.marked = s.marked /\ u.lastId = s.lastId /\ u.pending = s.pending
      /\ u.mode = s.mode /\ u.stream = s.stream /\ u.last = s.last
      /\ u.stray = s.stray /\ u.dcd = s.dcd /\ u.baudState = s.baudState
      /\ u.uart = s.uart /\ u.blip = s.blip /\ u.current = s.current
      /\ u.nextConn = s.nextConn
  BY DEF States
<1>3. t = [u EXCEPT !.current  = IF @ \in u.conns \cup {null} THEN @ ELSE First(u),
                    !.nextConn = IF @ \in u.conns \cup {null} THEN @ ELSE First(u)]
  BY DEF Unlink, Repair
<1> HIDE DEF u, t
<1> DEFINE cur == IF u.current \in u.conns \cup {null} THEN u.current ELSE First(u)
           nxt == IF u.nextConn \in u.conns \cup {null} THEN u.nextConn ELSE First(u)
<1>4. cur \in u.conns \cup {null} /\ nxt \in u.conns \cup {null}
  BY <1>1, FirstListed
<1>5. t = [u EXCEPT !.current = cur, !.nextConn = nxt]
  BY <1>3
<1>6. (s.current \in (s.conns \ gone) \cup {null}) => cur = s.current
  BY <1>2
<1> HIDE DEF cur, nxt
<1>7. cur \in Ids \cup {null} /\ nxt \in Ids \cup {null}
  BY <1>1, <1>4 DEF States
<1>8. /\ t \in States
      /\ t.conns = u.conns /\ t.answered = u.answered /\ t.due = u.due
      /\ t.up = u.up /\ t.was = u.was /\ t.rings = u.rings
      /\ t.marked = u.marked /\ t.lastId = u.lastId /\ t.pending = u.pending
      /\ t.mode = u.mode /\ t.stream = u.stream /\ t.last = u.last
      /\ t.stray = u.stray /\ t.dcd = u.dcd /\ t.baudState = u.baudState
      /\ t.uart = u.uart /\ t.blip = u.blip /\ t.current = cur /\ t.nextConn = nxt
  <2>1. t \in States
    <3> DEFINE v == [u EXCEPT !.current = cur]
    <3>1. v \in States
      BY <1>1, <1>7 DEF States
    <3>2. t = [v EXCEPT !.nextConn = nxt]
      BY <1>5
    <3> HIDE DEF v
    <3> QED
      BY <1>7, <3>1, <3>2 DEF States
  <2>2. /\ t.conns = u.conns /\ t.answered = u.answered /\ t.due = u.due
        /\ t.up = u.up /\ t.was = u.was /\ t.rings = u.rings
        /\ t.marked = u.marked /\ t.lastId = u.lastId /\ t.pending = u.pending
    BY <1>1, <1>5 DEF States
  <2>3. /\ t.mode = u.mode /\ t.stream = u.stream /\ t.last = u.last
        /\ t.stray = u.stray /\ t.dcd = u.dcd /\ t.baudState = u.baudState
        /\ t.uart = u.uart /\ t.blip = u.blip /\ t.current = cur /\ t.nextConn = nxt
    BY <1>1, <1>5 DEF States
  <2> QED
    BY <2>1, <2>2, <2>3
<1>9. ListOK(t)
  <2>1. \A c \in t.conns \ t.answered : t.rings[c] = s.rings[c]
    BY <1>2, <1>8 DEF States
  <2> QED
    BY <1>2, <1>8, <2>1 DEF ListBut, ListOK
<1>10. PointersOK(t) /\ RateOK(t)
  BY <1>2, <1>4, <1>8 DEF PointersOK, RateOK
<1> QED
  BY <1>2, <1>6, <1>8, <1>9, <1>10 DEF Sound, t

\* What a look at the carrier, or a deletion, leaves alone.
Same(s, t) ==
    /\ t.marked = s.marked /\ t.lastId = s.lastId /\ t.pending = s.pending
    /\ t.mode = s.mode /\ t.stream = s.stream /\ t.last = s.last

\* The expired connections leave the list, and only they.
LEMMA SweepKeeps ==
  ASSUME NEW s, s \in States, ListOK(s), RateOK(s)
  PROVE  /\ Sound(SweepExpired(s))
         /\ Same(s, SweepExpired(s))
         /\ SweepExpired(s).conns = s.conns \ Expired(s)
         /\ SweepExpired(s).answered = s.answered \ Expired(s)
         /\ SweepExpired(s).due = s.due \ Expired(s)
         /\ SweepExpired(s).up = s.up \ Expired(s)
         /\ s.current \in (s.conns \ Expired(s)) \cup {null}
              => SweepExpired(s).current = s.current
<1> DEFINE b == s.stray \/ WalkStrays(s)
           u == [s EXCEPT !.stray = b]
<1>1. b \in BOOLEAN
  BY DEF WalkStrays, States
<1>2. SweepExpired(s) = Unlink(u, Expired(s))
  BY DEF SweepExpired
<1> HIDE DEF b
<1>3. /\ u \in States /\ ListOK(u) /\ RateOK(u) /\ Same(s, u)
      /\ u.conns = s.conns /\ u.answered = s.answered /\ u.due = s.due
      /\ u.up = s.up /\ u.current = s.current
  BY <1>1 DEF States, ListOK, RateOK, Same
<1>4. Expired(s) \in SUBSET Ids
  BY DEF States, Expired
<1> HIDE DEF u
<1> QED
  BY <1>2, <1>3, <1>4, UnlinkKeeps, ListButOne DEF Same

\* The line and the rate when the carrier is lost or found.
LEMMA CarrierKeeps ==
  ASSUME NEW s, Sound(s), NEW t,
         \/ s.dcd /\ t = CarrierLost(s)
         \/ ~s.dcd /\ t = CarrierFound(s)
  PROVE  /\ Sound(t) /\ Same(s, t) /\ (t.dcd <=> ~s.dcd)
         /\ t.conns = s.conns /\ t.answered = s.answered /\ t.due = s.due
         /\ t.up = s.up /\ t.current = s.current
<1>1. s \in States /\ s.dcd \in BOOLEAN /\ s.blip \in BOOLEAN
  BY DEF Sound, States
<1>2. PICK bs \in BaudStates, bl \in BOOLEAN, d \in BOOLEAN :
         /\ t = [s EXCEPT !.dcd = d, !.baudState = bs, !.blip = bl]
         /\ d <=> ~s.dcd
         /\ s.dcd => /\ bs = IF s.baudState = "SWITCHED_TEMP"
                               THEN "SWITCH_NORMAL_NEXT" ELSE s.baudState
                     /\ bl <=> s.blip \/ s.baudState = "SWITCH_TEMP_NEXT"
         /\ ~s.dcd => /\ bs = IF TempBaud /\ s.baudState = "NORMAL"
                                THEN "SWITCH_TEMP_NEXT" ELSE s.baudState
                      /\ bl <=> s.blip \/ s.baudState = "SWITCH_NORMAL_NEXT"
  <2>1. CASE s.dcd
    <3> DEFINE bs == IF s.baudState = "SWITCHED_TEMP"
                       THEN "SWITCH_NORMAL_NEXT" ELSE s.baudState
               bl == s.blip \/ s.baudState = "SWITCH_TEMP_NEXT"
    <3>1. t = [s EXCEPT !.dcd = FALSE, !.baudState = bs, !.blip = bl]
      BY <1>1, <2>1 DEF CarrierLost, Pin, States
    <3>2. bs \in BaudStates
      BY <1>1 DEF States, BaudStates
    <3>3. bl \in BOOLEAN
      OBVIOUS
    <3> QED
      BY <2>1, <3>1, <3>2, <3>3
  <2>2. CASE ~s.dcd
    <3> DEFINE bs == IF TempBaud /\ s.baudState = "NORMAL"
                       THEN "SWITCH_TEMP_NEXT" ELSE s.baudState
               bl == s.blip \/ s.baudState = "SWITCH_NORMAL_NEXT"
    <3>1. t = [s EXCEPT !.dcd = TRUE, !.baudState = bs, !.blip = bl]
      BY <1>1, <2>2 DEF CarrierFound, Pin, States
    <3>2. bs \in BaudStates
      BY <1>1 DEF States, BaudStates
    <3>3. bl \in BOOLEAN
      OBVIOUS
    <3> QED
      BY <2>2, <3>1, <3>2, <3>3
  <2> QED
    BY <1>1, <2>1, <2>2
<1>4. /\ t \in States
      /\ t.dcd = d /\ t.baudState = bs /\ t.blip = bl /\ t.uart = s.uart
      /\ t.conns = s.conns /\ t.answered = s.answered /\ t.due = s.due
      /\ t.up = s.up /\ t.current = s.current /\ t.nextConn = s.nextConn
      /\ t.rings = s.rings /\ Same(s, t)
  <2> DEFINE x == [s EXCEPT !.dcd = d, !.baudState = bs, !.blip = bl]
  <2>1. x \in States
    BY <1>1 DEF States
  <2>2. /\ x.dcd = d /\ x.baudState = bs /\ x.blip = bl /\ x.uart = s.uart
        /\ x.conns = s.conns /\ x.answered = s.answered /\ x.due = s.due
        /\ x.up = s.up /\ x.current = s.current /\ x.nextConn = s.nextConn
        /\ x.rings = s.rings
    BY <1>1 DEF States
  <2>3. Same(s, x)
    BY <1>1 DEF States, Same
  <2>4. t = x
    BY <1>2
  <2> HIDE DEF x
  <2> QED
    BY <2>1, <2>2, <2>3, <2>4
<1>5. ListOK(t) /\ PointersOK(t)
  BY <1>4 DEF Sound, ListOK, PointersOK, Same
<1>6. RateOK(t)
  <2>1. RateOK(s)
    BY DEF Sound
  <2>2. CASE s.dcd
    BY <1>2, <1>4, <2>1, <2>2 DEF RateOK
  <2>3. CASE ~s.dcd
    BY <1>1, <1>2, <1>4, <2>1, <2>3 DEF RateOK, States, BaudStates
  <2> QED
    BY <1>1, <2>2, <2>3
<1> QED
  BY <1>2, <1>4, <1>5, <1>6 DEF Sound

\* checkOpenConnections: after it there is no carrier without a connection.
LEMMA CheckKeeps ==
  ASSUME NEW s, s \in States, ListOK(s), RateOK(s)
  PROVE  /\ Good(CheckOpenConnections(s))
         /\ Same(s, CheckOpenConnections(s))
         /\ CheckOpenConnections(s).conns = s.conns \ Expired(s)
         /\ CheckOpenConnections(s).answered = s.answered \ Expired(s)
         /\ CheckOpenConnections(s).due = s.due \ Expired(s)
         /\ CheckOpenConnections(s).up = s.up \ Expired(s)
         /\ s.current \in (s.conns \ Expired(s)) \cup {null}
              => CheckOpenConnections(s).current = s.current
<1> DEFINE t == SweepExpired(s)
<1>1. /\ Sound(t) /\ Same(s, t)
      /\ t.conns = s.conns \ Expired(s) /\ t.answered = s.answered \ Expired(s)
      /\ t.due = s.due \ Expired(s) /\ t.up = s.up \ Expired(s)
      /\ s.current \in (s.conns \ Expired(s)) \cup {null} => t.current = s.current
  BY SweepKeeps
<1>2. CheckOpenConnections(s) = IF Open(t) = {} /\ t.dcd THEN CarrierLost(t)
                                ELSE IF Open(t) # {} /\ ~t.dcd THEN CarrierFound(t)
                                ELSE t
  BY DEF CheckOpenConnections
<1>3. t.conns = {} => Open(t) = {}
  BY DEF Open
<1> HIDE DEF t
<1>4. CASE Open(t) = {} /\ t.dcd
  <2>1. CheckOpenConnections(s) = CarrierLost(t)
    BY <1>2, <1>4
  <2> DEFINE u == CarrierLost(t)
  <2>2. /\ Sound(u) /\ Same(t, u) /\ (u.dcd <=> ~t.dcd)
        /\ u.conns = t.conns /\ u.answered = t.answered /\ u.due = t.due
        /\ u.up = t.up /\ u.current = t.current
    BY <1>1, <1>4, CarrierKeeps
  <2> HIDE DEF u
  <2>3. Good(u) /\ Same(s, u)
    BY <1>1, <1>4, <2>2 DEF Good, CarrierOK, Same
  <2> QED
    BY <1>1, <2>1, <2>2, <2>3 DEF u
<1>5. CASE Open(t) # {} /\ ~t.dcd
  <2>1. CheckOpenConnections(s) = CarrierFound(t)
    BY <1>2, <1>5
  <2> DEFINE u == CarrierFound(t)
  <2>2. /\ Sound(u) /\ Same(t, u) /\ (u.dcd <=> ~t.dcd)
        /\ u.conns = t.conns /\ u.answered = t.answered /\ u.due = t.due
        /\ u.up = t.up /\ u.current = t.current
    BY <1>1, <1>5, CarrierKeeps
  <2> HIDE DEF u
  <2>3. Good(u) /\ Same(s, u)
    BY <1>1, <1>3, <1>5, <2>2 DEF Good, CarrierOK, Same
  <2> QED
    BY <1>1, <2>1, <2>2, <2>3 DEF u
<1>6. CASE ~(Open(t) = {} /\ t.dcd) /\ ~(Open(t) # {} /\ ~t.dcd)
  <2>1. CheckOpenConnections(s) = t
    BY <1>2, <1>6
  <2> QED
    BY <1>1, <1>3, <1>6, <2>1 DEF Good, CarrierOK
<1> QED
  BY <1>4, <1>5, <1>6

\* A connection is deleted, though its rings may have run out.
LEMMA DeleteButKeeps ==
  ASSUME NEW s, s \in States, NEW c \in Ids, ListBut(s, {c}), RateOK(s)
  PROVE  /\ Good(Delete(s, c))
         /\ Same(s, Delete(s, c))
         /\ Delete(s, c).conns = s.conns \ ({c} \cup Expired(s))
         /\ Delete(s, c).answered = s.answered \ ({c} \cup Expired(s))
<1> DEFINE gone == {c}
           t == Unlink(s, gone)
<1>1. gone \in SUBSET Ids /\ ListBut(s, gone)
  OBVIOUS
<1>2. Delete(s, c) = CheckOpenConnections(t)
  BY DEF Delete
<1> HIDE DEF gone
<1>3. /\ Sound(t) /\ Same(s, t)
      /\ t.conns = s.conns \ gone /\ t.answered = s.answered \ gone
      /\ t.due = s.due \ gone
  BY <1>1, UnlinkKeeps DEF Same
<1> HIDE DEF t
<1>4. Expired(t) = Expired(s) \ gone
  BY <1>3 DEF Expired, Same
<1>5. /\ Good(CheckOpenConnections(t)) /\ Same(t, CheckOpenConnections(t))
      /\ CheckOpenConnections(t).conns = t.conns \ Expired(t)
      /\ CheckOpenConnections(t).answered = t.answered \ Expired(t)
  BY <1>3, CheckKeeps DEF Sound
<1> QED
  BY <1>2, <1>3, <1>4, <1>5 DEF Same, gone

\* A connection is deleted.
LEMMA DeleteKeeps ==
  ASSUME NEW s, s \in States, ListOK(s), RateOK(s), NEW c \in Ids
  PROVE  /\ Good(Delete(s, c))
         /\ Same(s, Delete(s, c))
         /\ Delete(s, c).conns = s.conns \ ({c} \cup Expired(s))
         /\ Delete(s, c).answered = s.answered \ ({c} \cup Expired(s))
BY DeleteButKeeps, ListButOne

\* checkForAutoDisconnections.
LEMMA SweepTimeKeeps ==
  ASSUME NEW s, Good(s)
  PROVE  /\ Good(CheckForAutoDisconnections(s))
         /\ Same(s, CheckForAutoDisconnections(s))
         /\ CheckForAutoDisconnections(s).conns = s.conns \ Expired(s)
<1>1. CASE Expired(s) = {}
  BY <1>1 DEF CheckForAutoDisconnections, Same
<1>2. CASE Expired(s) # {}
  BY <1>2, CheckKeeps DEF CheckForAutoDisconnections, Good, Sound
<1> QED
  BY <1>1, <1>2

\* What a change of the rate leaves alone.
SameCalls(s, t) ==
    /\ Same(s, t)
    /\ t.conns = s.conns /\ t.up = s.up /\ t.answered = s.answered
    /\ t.due = s.due /\ t.stray = s.stray

\* checkBaudChange: no change of rate is pending after it.
LEMMA BaudChangeKeeps ==
  ASSUME NEW s \in States
  PROVE  /\ CheckBaudChange(s) \in States
         /\ SameCalls(s, CheckBaudChange(s))
         /\ RateSettled(CheckBaudChange(s))
         /\ Good(s) => Good(CheckBaudChange(s))
<1> DEFINE t == CheckBaudChange(s)
<1>1. PICK r \in {"normal", "temp"}, bs \in BaudStates :
          /\ t = s \/ t = [s EXCEPT !.uart = r, !.baudState = bs]
          /\ t = s => RateSettled(s)
          /\ t # s => \/ /\ s.baudState = "SWITCH_TEMP_NEXT"
                         /\ r = "temp" /\ bs = "SWITCHED_TEMP"
                      \/ /\ s.baudState = "SWITCH_NORMAL_NEXT"
                         /\ r = "normal" /\ bs = "NORMAL"
  <2>1. CASE s.baudState = "SWITCH_TEMP_NEXT"
    <3>1. t = [s EXCEPT !.uart = "temp", !.baudState = "SWITCHED_TEMP"]
      BY <2>1 DEF CheckBaudChange
    <3>2. t.baudState = "SWITCHED_TEMP"
      BY <3>1 DEF States
    <3> QED
      BY <2>1, <3>1, <3>2 DEF BaudStates
  <2>2. CASE s.baudState = "SWITCH_NORMAL_NEXT"
    <3>1. t = [s EXCEPT !.uart = "normal", !.baudState = "NORMAL"]
      BY <2>2 DEF CheckBaudChange
    <3>2. t.baudState = "NORMAL"
      BY <3>1 DEF States
    <3> QED
      BY <2>2, <3>1, <3>2 DEF BaudStates
  <2>3. CASE s.baudState \notin {"SWITCH_TEMP_NEXT", "SWITCH_NORMAL_NEXT"}
    <3>1. t = s
      BY <2>3 DEF CheckBaudChange
    <3>2. RateSettled(s) /\ s.baudState \in BaudStates
      BY <2>3 DEF States, BaudStates, RateSettled
    <3> QED
      BY <3>1, <3>2
  <2> QED
    BY <2>1, <2>2, <2>3
<1> HIDE DEF t
<1>2. CASE t = s
  BY <1>1, <1>2 DEF SameCalls, Same, t
<1>3. CASE t # s
  <2>1. t = [s EXCEPT !.uart = r, !.baudState = bs]
    BY <1>1, <1>3
  <2>2. t \in States
    BY <2>1 DEF States
  <2>3. /\ t.uart = r /\ t.baudState = bs /\ SameCalls(s, t)
        /\ t.rings = s.rings /\ t.current = s.current /\ t.nextConn = s.nextConn
        /\ t.dcd = s.dcd /\ t.blip = s.blip
    BY <2>1 DEF States, SameCalls, Same
  <2>4. RateSettled(t)
    BY <1>1, <1>3, <2>3 DEF RateSettled
  <2>5. ASSUME Good(s) PROVE Good(t)
    <3>1. ListOK(t) /\ PointersOK(t) /\ CarrierOK(t)
      BY <2>3, <2>5
         DEF Good, Sound, ListOK, PointersOK, CarrierOK, SameCalls, Same
    <3>2. RateOK(t)
      BY <1>1, <1>3, <2>3, <2>5 DEF Good, Sound, RateOK
    <3> QED
      BY <2>2, <3>1, <3>2 DEF Good, Sound
  <2> QED
    BY <2>2, <2>3, <2>4, <2>5 DEF t
<1> QED
  BY <1>2, <1>3

-----------------------------------------------------------------------------
(* New connections.                                                        *)

\* A new connection has an id of the bound.
LEMMA LinkTyped ==
  ASSUME NEW s \in States, NEW c \in Ids, c \in 0 .. MaxId
  PROVE  [s EXCEPT !.lastId = c, !.conns = @ \cup {c}, !.up = @ \cup {c},
                   !.was = @ \cup {c}] \in States
<1> DEFINE conns == s.conns \cup {c}
           up == s.up \cup {c}
           was == s.was \cup {c}
           t == [s EXCEPT !.conns = conns, !.up = up, !.was = was]
<1>1. t \in States
  <2>1. {conns, up, was} \subseteq SUBSET Ids
    BY DEF States
  <2> HIDE DEF conns, up, was
  <2> QED
    BY <2>1 DEF States
<1>2. [s EXCEPT !.lastId = c, !.conns = @ \cup {c}, !.up = @ \cup {c},
               !.was = @ \cup {c}] = [t EXCEPT !.lastId = c]
  BY DEF States
<1> HIDE DEF t
<1>3. [t EXCEPT !.lastId = c] \in States
  BY <1>1 DEF States
<1> QED
  BY <1>2, <1>3

\* finishConnectionLink: the new connection stays, and so do those not marked.
LEMMA LinkKeeps ==
  ASSUME NEW s \in States, RateOK(s), NEW c \in Ids, c = s.lastId + 1,
         s.conns \subseteq 1 .. s.lastId, s.answered \subseteq s.conns \cup {c},
         s.due \subseteq s.conns,
         \A d \in (s.conns \cup {c}) \ s.answered : s.rings[d] > 0,
         s.pending => c < MaxId
  PROVE  /\ Good(Link(s))
         /\ Link(s).lastId = c /\ Link(s).marked = s.marked
         /\ Link(s).pending = s.pending
         /\ Link(s).mode = s.mode /\ Link(s).stream = s.stream
         /\ Link(s).last = s.last
         /\ c \in Link(s).conns
         /\ s.conns \ s.marked \subseteq Link(s).conns
         /\ s.answered \ s.marked \subseteq Link(s).answered
<1> DEFINE u == [s EXCEPT !.lastId = c, !.conns = @ \cup {c}, !.up = @ \cup {c},
                          !.was = @ \cup {c}]
<1>1. c \in 0 .. MaxId /\ s.lastId \in Nat
  BY IdsNumbers DEF Ids, States
<1>2. u \in States
  BY <1>1, LinkTyped
<1>3. /\ u.lastId = c /\ u.conns = s.conns \cup {c} /\ u.answered = s.answered
      /\ u.marked = s.marked /\ u.due = s.due /\ u.rings = s.rings
      /\ u.pending = s.pending /\ u.mode = s.mode /\ u.stream = s.stream
      /\ u.last = s.last /\ u.dcd = s.dcd /\ u.uart = s.uart
      /\ u.baudState = s.baudState /\ u.blip = s.blip
  BY DEF States
<1>4. Link(s) = CheckOpenConnections(u)
  BY DEF Link
<1> HIDE DEF u
<1>5. ListOK(u)
  <2>1. u.conns \subseteq 1 .. u.lastId
    BY <1>1, <1>3
  <2> QED
    BY <1>3, <2>1 DEF ListOK
<1>6. RateOK(u)
  BY <1>3 DEF RateOK
<1>7. Expired(u) \subseteq s.marked /\ c \notin Expired(u)
  BY <1>1, <1>3 DEF Expired
<1> QED
  BY <1>2, <1>3, <1>4, <1>5, <1>6, <1>7, CheckKeeps DEF Same

\* A dialled call takes the next id, which leaves one for a caller that waits.
LEMMA LinkOutgoingKeeps ==
  ASSUME NEW s, Good(s), NEW c \in Ids, c = s.lastId + 1, s.pending => c < MaxId
  PROVE  /\ Good(LinkOutgoing(s))
         /\ LinkOutgoing(s).lastId = c /\ LinkOutgoing(s).pending = s.pending
         /\ LinkOutgoing(s).mode = s.mode
         /\ c \in LinkOutgoing(s).conns
<1> DEFINE u == [s EXCEPT !.answered = @ \cup {c}]
<1>1. s \in States /\ ListOK(s) /\ RateOK(s)
  BY DEF Good, Sound
<1>2. u \in States
  BY <1>1 DEF States
<1>3. /\ u.lastId = s.lastId /\ u.conns = s.conns /\ u.answered = s.answered \cup {c}
      /\ u.marked = s.marked /\ u.due = s.due /\ u.rings = s.rings
      /\ u.pending = s.pending /\ u.mode = s.mode /\ u.dcd = s.dcd
      /\ u.uart = s.uart /\ u.baudState = s.baudState /\ u.blip = s.blip
  BY <1>1 DEF States
<1>4. LinkOutgoing(s) = Link(u)
  BY DEF LinkOutgoing
<1> HIDE DEF u
<1>5. RateOK(u)
  BY <1>1, <1>3 DEF RateOK
<1>6. /\ u.conns \subseteq 1 .. u.lastId /\ u.answered \subseteq u.conns \cup {c}
      /\ u.due \subseteq u.conns
      /\ \A d \in (u.conns \cup {c}) \ u.answered : u.rings[d] > 0
      /\ u.pending => c < MaxId
  BY <1>1, <1>3 DEF ListOK
<1> QED
  BY <1>2, <1>3, <1>4, <1>5, <1>6, LinkKeeps

\* A caller takes the next id.  The streamed call stays what it was.
LEMMA LinkIncomingKeeps ==
  ASSUME NEW s, Good(s), s.pending, NEW n \in Nat
  PROVE  /\ Good(LinkIncoming(s, n))
         /\ LinkIncoming(s, n).lastId = s.lastId + 1
         /\ s.lastId + 1 \in Ids
         /\ LinkIncoming(s, n).mode = s.mode
         /\ LinkIncoming(s, n).stream = s.stream
         /\ LinkIncoming(s, n).marked = s.marked
         /\ s.conns \ s.marked \subseteq LinkIncoming(s, n).conns
         /\ s.answered \ s.marked \subseteq LinkIncoming(s, n).answered
<1> DEFINE c == s.lastId + 1
           a == IF n = 0 THEN s.answered \cup {c} ELSE s.answered
           u == [s EXCEPT !.answered = a, !.rings = [@ EXCEPT ![c] = n],
                          !.pending = FALSE]
<1>1. s \in States /\ ListOK(s) /\ RateOK(s) /\ s.lastId < MaxId
  BY DEF Good, Sound, ListOK
<1>2. c \in Ids /\ c \notin s.conns
  BY <1>1, IdsNumbers DEF Ids, States, ListOK
<1>3. a \in SUBSET Ids /\ [s.rings EXCEPT ![c] = n] \in [Ids -> Nat]
  BY <1>1, <1>2 DEF States
<1>4. a \subseteq s.conns \cup {c} /\ s.answered \subseteq a /\ (n = 0 => c \in a)
  BY <1>1 DEF ListOK
<1>5. LinkIncoming(s, n) = [Link(u) EXCEPT !.server = @ \cup {c}]
  BY <1>1 DEF LinkIncoming
<1> HIDE DEF a
<1>6. u \in States
  BY <1>1, <1>3 DEF States
<1>7. /\ u.lastId = s.lastId /\ u.conns = s.conns /\ u.answered = a
      /\ u.marked = s.marked /\ u.due = s.due
      /\ u.rings = [s.rings EXCEPT ![c] = n]
      /\ u.pending = FALSE /\ u.mode = s.mode /\ u.stream = s.stream
      /\ u.dcd = s.dcd /\ u.uart = s.uart
      /\ u.baudState = s.baudState /\ u.blip = s.blip
  BY <1>1 DEF States
<1> HIDE DEF u, c
<1>8. \A d \in (u.conns \cup {c}) \ u.answered : u.rings[d] > 0
  <2>1. \A d \in s.conns : u.rings[d] = s.rings[d]
    BY <1>1, <1>2, <1>7 DEF States
  <2>2. u.rings[c] = n
    BY <1>1, <1>2, <1>7 DEF States
  <2> QED
    BY <1>1, <1>4, <1>7, <2>1, <2>2 DEF ListOK
<1>9. RateOK(u)
  BY <1>1, <1>7 DEF RateOK
<1>10. /\ Good(Link(u)) /\ Link(u).lastId = c /\ Link(u).marked = s.marked
       /\ Link(u).mode = s.mode /\ Link(u).stream = s.stream
       /\ s.conns \ s.marked \subseteq Link(u).conns
       /\ s.answered \ s.marked \subseteq Link(u).answered
  <2>1. /\ u.conns \subseteq 1 .. u.lastId /\ u.answered \subseteq u.conns \cup {c}
        /\ u.due \subseteq u.conns /\ c = u.lastId + 1
    BY <1>1, <1>4, <1>7 DEF ListOK, c
  <2>2. ~u.pending
    BY <1>7
  <2>3. /\ Good(Link(u)) /\ Link(u).lastId = c /\ Link(u).marked = u.marked
        /\ Link(u).mode = u.mode /\ Link(u).stream = u.stream
        /\ u.conns \ u.marked \subseteq Link(u).conns
        /\ u.answered \ u.marked \subseteq Link(u).answered
    BY <1>2, <1>6, <1>8, <1>9, <2>1, <2>2, LinkKeeps
  <2> QED
    BY <1>4, <1>7, <2>3
<1>11. Link(u).server \cup {c} \in SUBSET Ids /\ Link(u) \in States
  BY <1>2, <1>10 DEF Good, Sound, States
<1>12. Alike(Link(u), LinkIncoming(s, n))
  BY <1>5, <1>11, FreeFields
<1> QED
  BY <1>2, <1>10, <1>12, AlikeSound DEF Alike, c

\* A call is answered, though its rings may have run out.
LEMMA AnswerButKeeps ==
  ASSUME NEW s, s \in States, NEW c \in s.conns, ListBut(s, {c}),
         PointersOK(s), RateOK(s), CarrierOK(s)
  PROVE  /\ Good(Answer(s, c)) /\ Same(s, Answer(s, c))
         /\ Answer(s, c).conns = s.conns
         /\ Answer(s, c).answered = s.answered \cup {c}
<1> DEFINE r == [s.rings EXCEPT ![c] = 0]
           t == [s EXCEPT !.answered = @ \cup {c}, !.rings = r, !.ringDue = @ \ {c}]
<1>1. s \in States /\ c \in Ids
  BY DEF States
<1>2. r \in [Ids -> Nat] /\ \A d \in Ids : d # c => r[d] = s.rings[d]
  BY <1>1 DEF States
<1>3. Answer(s, c) = t
  BY DEF Answer
<1> HIDE DEF r
<1>4. t \in States
  BY <1>1, <1>2 DEF States
<1>5. /\ t.answered = s.answered \cup {c} /\ t.rings = r /\ t.conns = s.conns
      /\ t.due = s.due /\ t.current = s.current /\ t.nextConn = s.nextConn
      /\ t.dcd = s.dcd /\ t.uart = s.uart /\ t.baudState = s.baudState
      /\ t.blip = s.blip /\ Same(s, t)
  BY <1>1 DEF States, Same
<1> HIDE DEF t
<1>6. ListOK(t)
  BY <1>1, <1>2, <1>5 DEF ListBut, ListOK, Same, States
<1>7. PointersOK(t) /\ RateOK(t) /\ CarrierOK(t)
  BY <1>5 DEF PointersOK, RateOK, CarrierOK
<1> QED
  BY <1>3, <1>4, <1>5, <1>6, <1>7 DEF Good, Sound

\* A call is answered.
LEMMA AnswerKeeps ==
  ASSUME NEW s, Good(s), NEW c \in s.conns
  PROVE  /\ Good(Answer(s, c)) /\ Same(s, Answer(s, c))
         /\ Answer(s, c).conns = s.conns
         /\ Answer(s, c).answered = s.answered \cup {c}
BY AnswerButKeeps, ListButOne DEF Good, Sound

\* Calls are marked for disconnection.
LEMMA MarkKeeps ==
  ASSUME NEW s, Good(s), NEW v \in SUBSET Ids
  PROVE  /\ Good([s EXCEPT !.marked = v])
         /\ [s EXCEPT !.marked = v].marked = v
         /\ [s EXCEPT !.marked = v].mode = s.mode
         /\ [s EXCEPT !.marked = v].stream = s.stream
         /\ [s EXCEPT !.marked = v].conns = s.conns
         /\ [s EXCEPT !.marked = v].answered = s.answered
<1> DEFINE t == [s EXCEPT !.marked = v]
<1>1. s \in States
  BY DEF Good, Sound
<1>2. t \in States
  BY <1>1 DEF States
<1>3. /\ t.answered = s.answered /\ t.rings = s.rings /\ t.conns = s.conns
      /\ t.due = s.due /\ t.current = s.current /\ t.nextConn = s.nextConn
      /\ t.dcd = s.dcd /\ t.uart = s.uart /\ t.baudState = s.baudState
      /\ t.blip = s.blip /\ t.marked = v /\ t.mode = s.mode /\ t.stream = s.stream
      /\ t.lastId = s.lastId /\ t.pending = s.pending
  BY <1>1 DEF States
<1> HIDE DEF t
<1>4. Good(t)
  BY <1>2, <1>3 DEF Good, Sound, ListOK, PointersOK, RateOK, CarrierOK
<1> QED
  BY <1>3, <1>4 DEF t

-----------------------------------------------------------------------------
(* Stream mode.                                                            *)

\* The mode and the call it streams are set.
InMode(s, mode, c) == [s EXCEPT !.stream = c, !.mode = mode]

\* The mode and its call are no part of what is good.
LEMMA ModeKeeps ==
  ASSUME NEW s, Good(s), NEW c \in Ids \cup {null}, NEW mode \in {"command", "stream"}
  PROVE  /\ Good(InMode(s, mode, c))
         /\ InMode(s, mode, c).mode = mode
         /\ InMode(s, mode, c).stream = c
         /\ InMode(s, mode, c).conns = s.conns
         /\ InMode(s, mode, c).answered = s.answered
         /\ InMode(s, mode, c).marked = s.marked
<1> DEFINE t == InMode(s, mode, c)
<1>1. s \in States
  BY DEF Good, Sound
<1>2. t \in States
  BY <1>1 DEF States, InMode
<1>3. /\ t.answered = s.answered /\ t.rings = s.rings /\ t.conns = s.conns
      /\ t.due = s.due /\ t.current = s.current /\ t.nextConn = s.nextConn
      /\ t.dcd = s.dcd /\ t.uart = s.uart /\ t.baudState = s.baudState
      /\ t.blip = s.blip /\ t.marked = s.marked /\ t.mode = mode /\ t.stream = c
      /\ t.lastId = s.lastId /\ t.pending = s.pending /\ t.stray = s.stray
      /\ t.last = s.last
  BY <1>1 DEF States, InMode
<1> HIDE DEF t
<1>4. Good(t)
  BY <1>2, <1>3 DEF Good, Sound, ListOK, PointersOK, RateOK, CarrierOK
<1> QED
  BY <1>3, <1>4 DEF t

\* switchTo: the call is streamed, at the rate that was pending.
LEMMA SwitchToKeeps ==
  ASSUME NEW s, Good(s), NEW c \in Ids \cup {null}
  PROVE  /\ Good(SwitchTo(s, c)) /\ RateSettled(SwitchTo(s, c))
         /\ SwitchTo(s, c).mode = "stream" /\ SwitchTo(s, c).stream = c
         /\ SwitchTo(s, c).conns = s.conns /\ SwitchTo(s, c).marked = s.marked
         /\ SwitchTo(s, c).answered = s.answered
<1> DEFINE t == [s EXCEPT !.stream = c, !.mode = "stream"]
           u == CheckBaudChange(t)
           v == [u EXCEPT !.lastDTR = s.dtr]
<1>1. /\ Good(t) /\ t.mode = "stream" /\ t.stream = c
      /\ t.conns = s.conns /\ t.answered = s.answered /\ t.marked = s.marked
  <2>1. t = InMode(s, "stream", c)
    BY DEF InMode
  <2> HIDE DEF t
  <2> QED
    BY <2>1, ModeKeeps
<1>2. SwitchTo(s, c) = [u EXCEPT !.lastDTR = s.dtr, !.alarm = "set"]
  BY DEF SwitchTo
<1> HIDE DEF t
<1>3. /\ Good(u) /\ RateSettled(u) /\ u.mode = "stream" /\ u.stream = c
      /\ u.conns = s.conns /\ u.answered = s.answered /\ u.marked = s.marked
  <2>1. t \in States
    BY <1>1 DEF Good, Sound
  <2> QED
    BY <1>1, <2>1, BaudChangeKeeps DEF SameCalls, Same
<1> HIDE DEF u
<1>4. Alike(u, v)
  <2>1. u \in States /\ s.dtr \in BOOLEAN
    BY <1>3 DEF Good, Sound, States
  <2> QED
    BY <2>1, FreeFields
<1>5. SwitchTo(s, c) = [v EXCEPT !.alarm = "set"]
  BY <1>2, <1>3 DEF Good, Sound, States
<1> HIDE DEF v
<1>6. Alike(v, SwitchTo(s, c))
  <2>1. v \in States
    BY <1>4 DEF Alike
  <2> QED
    BY <1>5, <2>1, FreeFields
<1> QED
  BY <1>3, <1>4, <1>6, AlikeSound DEF Alike, RateSettled

\* switchBackToCommandMode, whether the call is deleted with it or stays.
LEMMA SwitchBackKeeps ==
  ASSUME NEW s, Good(s), NEW pppMode \in BOOLEAN, pppMode => s.stream \in Ids
  PROVE  Good(SwitchBack(s, pppMode)) /\ SwitchBack(s, pppMode).mode = "command"
<1> DEFINE c == s.stream
           t == Pin(s, "ri", FALSE)
           u == IF pppMode /\ HangupType # "NONE"
                  THEN [Respond(t) EXCEPT !.marked = @ \cup {c}]
                ELSE IF pppMode THEN Respond(t)
                ELSE IF c # null /\ c \in s.exit THEN Delete(SayNoCarrier(t, c), c)
                ELSE t
<1>1. Good(t)
  <2>1. s \in States
    BY DEF Good, Sound
  <2> QED
    BY <2>1, Talk, AlikeSound
<1>2. SwitchBack(s, pppMode) = [u EXCEPT !.stream = null, !.mode = "command"]
  BY DEF SwitchBack
<1> HIDE DEF t
<1>3. Good(u)
  <2>1. t \in States
    BY <1>1 DEF Good, Sound
  <2>2. CASE pppMode /\ HangupType # "NONE"
    <3>1. Good(Respond(t)) /\ Respond(t) \in States
      BY <1>1, <2>1, Talk, AlikeSound DEF Alike
    <3>2. Respond(t).marked \cup {c} \in SUBSET Ids
      BY <2>2, <3>1 DEF States
    <3> QED
      BY <2>2, <3>1, <3>2, MarkKeeps
  <2>3. CASE pppMode /\ HangupType = "NONE"
    BY <1>1, <2>1, <2>3, Talk, AlikeSound
  <2>4. CASE ~pppMode /\ c # null /\ c \in s.exit
    <3>1. Good(SayNoCarrier(t, c))
      BY <1>1, <2>1, Talk, AlikeSound
    <3>2. c \in Ids
      BY <2>4 DEF Good, Sound, States
    <3>3. Good(Delete(SayNoCarrier(t, c), c))
      BY <3>1, <3>2, DeleteKeeps DEF Good, Sound
    <3> QED
      BY <2>4, <3>3
  <2>5. CASE ~pppMode /\ ~(c # null /\ c \in s.exit)
    BY <1>1, <2>5
  <2> QED
    BY <2>2, <2>3, <2>4, <2>5
<1> HIDE DEF u
<1>4. SwitchBack(s, pppMode) = InMode(u, "command", null)
  BY <1>2 DEF InMode
<1> QED
  BY <1>3, <1>4, ModeKeeps

\* A caller that comes in stream mode does not disturb the streamed call.
LEMMA AcceptInStreamKeeps ==
  ASSUME NEW s, Good(s), Streamed(s)
  PROVE  /\ Good(AcceptInStream(s)) /\ Streamed(AcceptInStream(s))
         /\ AcceptInStream(s).mode = s.mode
<1>1. CASE s.pending
  <2>1. AcceptInStream(s) = LinkIncoming(s, BusyRings) /\ BusyRings \in Nat
    BY <1>1, RingsAssumption DEF AcceptInStream
  <2> QED
    BY <1>1, <2>1, LinkIncomingKeeps DEF Streamed
<1>2. CASE ~s.pending
  BY <1>2 DEF AcceptInStream
<1> QED
  BY <1>1, <1>2

\* Callers are turned away.
LEMMA TurnAwayKeeps ==
  ASSUME NEW s, Good(s), Streamed(s)
  PROVE  /\ Good(TurnAwayCallers(s)) /\ Streamed(TurnAwayCallers(s))
         /\ TurnAwayCallers(s).mode = s.mode
<1> DEFINE v == s.marked \cup {c \in s.conns \ s.answered :
                                  Connected(s, c) /\ c # s.stream}
<1>1. v \in SUBSET Ids /\ s.marked \subseteq v
  BY DEF Good, Sound, States
<1>2. TurnAwayCallers(s) = [s EXCEPT !.marked = v]
  BY DEF TurnAwayCallers
<1> HIDE DEF v
<1> QED
  BY <1>1, <1>2, MarkKeeps DEF Streamed

\* doHangupChecks: a fall of DTR.
LEMMA HangupCheckKeeps ==
  ASSUME NEW s, Good(s), Streamed(s)
  PROVE  /\ Good(DoHangupChecks(s)) /\ Streamed(DoHangupChecks(s))
<1> DEFINE e == [s EXCEPT !.exit = @ \cup ({s.stream} \ {null})]
           t == IF s.lastDTR /\ ~s.dtr THEN SwitchBack(e, FALSE) ELSE s
<1>1. CASE HangupType # "DTR"
  BY <1>1 DEF DoHangupChecks
<1>2. CASE HangupType = "DTR"
  <2>1. DoHangupChecks(s) = [t EXCEPT !.lastDTR = s.dtr]
    BY <1>2 DEF DoHangupChecks
  <2>2. s \in States /\ s.dtr \in BOOLEAN
    BY DEF Good, Sound, States
  <2>3. Good(e)
    <3>1. s.exit \cup ({s.stream} \ {null}) \in SUBSET Ids
      BY <2>2 DEF States
    <3>2. Alike(s, e)
      BY <2>2, <3>1, FreeFields
    <3> HIDE DEF e
    <3> QED
      BY <3>2, AlikeSound
  <2> HIDE DEF e
  <2>4. Good(t) /\ Streamed(t)
    <3>1. CASE s.lastDTR /\ ~s.dtr
      BY <2>3, <3>1, SwitchBackKeeps DEF Streamed
    <3>2. CASE ~(s.lastDTR /\ ~s.dtr)
      BY <3>2
    <3> QED
      BY <3>1, <3>2
  <2> HIDE DEF t
  <2>5. Alike(t, DoHangupChecks(s))
    <3>1. t \in States
      BY <2>4 DEF Good, Sound
    <3> QED
      BY <2>1, <2>2, <3>1, FreeFields
  <2> QED
    BY <2>4, <2>5, AlikeSound
<1> QED
  BY <1>1, <1>2

\* The streamed call ends, is escaped from, or brings a byte.
LEMMA StreamTurnKeeps ==
  ASSUME NEW s, Good(s), Streamed(s), NEW escape \in BOOLEAN
  PROVE  Good(StreamTurn(s, escape)) /\ Streamed(StreamTurn(s, escape))
<1>1. CASE s.stream = null \/ ~Connected(s, s.stream)
  BY <1>1, SwitchBackKeeps DEF StreamTurn, Streamed
<1>2. CASE s.stream # null /\ Connected(s, s.stream) /\ escape
  <2>1. StreamTurn(s, escape) = SwitchBack(s, TRUE)
    BY <1>2 DEF StreamTurn
  <2>2. s.stream \in Ids
    BY <1>2 DEF Connected, Good, Sound, States
  <2> QED
    BY <2>1, <2>2, SwitchBackKeeps DEF Streamed
<1>3. CASE s.stream # null /\ Connected(s, s.stream) /\ ~escape
  <2>1. StreamTurn(s, escape) = Transfer(s)
    BY <1>3 DEF StreamTurn
  <2>2. s \in States /\ s.unread \ {s.stream} \in SUBSET Ids
    BY DEF Good, Sound, States
  <2> DEFINE u == [s EXCEPT !.unread = @ \ {s.stream}]
  <2>3. Good(u) /\ Streamed(u) /\ u \in States
    <3>1. Alike(s, u)
      BY <2>2, FreeFields
    <3> HIDE DEF u
    <3>2. u \in States
      BY <3>1 DEF Alike
    <3> QED
      BY <3>1, <3>2, AlikeSound
  <2>4. Transfer(s) = IF Available(s, s.stream) THEN Say(u) ELSE s
    BY DEF Transfer
  <2> HIDE DEF u
  <2>5. Good(Say(u)) /\ Streamed(Say(u))
    BY <2>3, Talk, AlikeSound
  <2> QED
    BY <2>1, <2>4, <2>5
<1> QED
  BY <1>1, <1>2, <1>3

\* The ringer is silenced.
LEMMA SilenceKeeps ==
  ASSUME NEW s \in States PROVE Alike(s, SilenceRinger(s))
<1> DEFINE t == Pin(s, "ri", FALSE)
<1>1. Alike(s, t)
  BY Talk
<1>2. SilenceRinger(s) = IF s.alarm = "due" THEN [t EXCEPT !.alarm = "off"] ELSE s
  BY DEF SilenceRinger
<1> HIDE DEF t
<1>3. t \in States
  BY <1>1 DEF Alike
<1>4. Alike(t, [t EXCEPT !.alarm = "off"])
  BY <1>3, FreeFields
<1> QED
  BY <1>1, <1>2, <1>4, FreeFields DEF Alike

\* What a turn of the loop leaves.
Turned(s) ==
    /\ s \in States /\ Streamed(s)
    /\ ~s.stray => Good(s) /\ RateSettled(s)

\* A turn of the loop of stream mode.
LEMMA StreamLoopKeeps ==
  ASSUME NEW s, Good(s), Streamed(s), NEW escape \in BOOLEAN
  PROVE  Turned(StreamLoop(s, escape))
<1> DEFINE a == TurnAwayCallers(AcceptInStream(s))
           t == CheckForAutoDisconnections(a)
           u == StreamTurn(DoHangupChecks(t), escape)
           v == CheckBaudChange(u)
<1>1. Good(a) /\ Streamed(a)
  BY AcceptInStreamKeeps, TurnAwayKeeps
<1> HIDE DEF a
<1>2. Good(t) /\ Streamed(t)
  <2>1. /\ Good(t) /\ t.marked = a.marked /\ t.mode = a.mode /\ t.stream = a.stream
        /\ t.conns = a.conns \ Expired(a)
    BY <1>1, SweepTimeKeeps DEF Same
  <2>2. Expired(a) \subseteq a.marked
    BY DEF Expired
  <2> QED
    BY <1>1, <2>1, <2>2 DEF Streamed
<1>3. StreamLoop(s, escape) =
        IF t.stray \/ t.stream \notin t.conns \cup {null}
          THEN [t EXCEPT !.stray = TRUE] ELSE SilenceRinger(v)
  BY DEF StreamLoop, a
<1> HIDE DEF t
<1>4. CASE t.stray \/ t.stream \notin t.conns \cup {null}
  <2> DEFINE x == [t EXCEPT !.stray = TRUE]
  <2>1. StreamLoop(s, escape) = x
    BY <1>3, <1>4
  <2>2. t \in States
    BY <1>2 DEF Good, Sound
  <2>3. x \in States
    BY <2>2 DEF States
  <2>4. /\ x.stray /\ x.mode = t.mode /\ x.stream = t.stream
        /\ x.conns = t.conns /\ x.marked = t.marked
    BY <2>2 DEF States
  <2> HIDE DEF x
  <2> QED
    BY <1>2, <2>1, <2>3, <2>4 DEF Turned, Streamed
<1>5. CASE ~(t.stray \/ t.stream \notin t.conns \cup {null})
  <2>1. Good(u) /\ Streamed(u)
    BY <1>2, HangupCheckKeeps, StreamTurnKeeps
  <2> HIDE DEF u
  <2>2. u \in States
    BY <2>1 DEF Good, Sound
  <2>3. Good(v) /\ RateSettled(v) /\ SameCalls(u, v)
    BY <2>1, <2>2, BaudChangeKeeps
  <2>4. Streamed(v)
    BY <2>1, <2>3 DEF Streamed, SameCalls, Same
  <2>5. StreamLoop(s, escape) = SilenceRinger(v)
    BY <1>3, <1>5
  <2> HIDE DEF v
  <2>6. Alike(v, SilenceRinger(v))
    BY <2>3, SilenceKeeps DEF Good, Sound
  <2> QED
    BY <2>3, <2>4, <2>5, <2>6, AlikeSound DEF Turned, Alike, RateSettled
<1> QED
  BY <1>4, <1>5

-----------------------------------------------------------------------------
(* The commands.                                                           *)

\* The streamed call is answered, or was marked for disconnection.
Heard(s) == s.mode = "stream" => s.stream \in s.answered \cup s.marked

\* A call that was answered is on the list.
LEMMA HeardStreamed == \A s : Good(s) /\ Heard(s) => Streamed(s)
BY DEF Good, Sound, ListOK, Heard, Streamed

\* A connection of the list becomes the current one.
LEMMA SetCurrentKeeps ==
  ASSUME NEW s, Good(s), NEW c \in Ids \cup {null}
  PROVE  LET t == [s EXCEPT !.current = c]
         IN /\ t \in States /\ ListOK(t) /\ RateOK(t) /\ CarrierOK(t) /\ Same(s, t)
            /\ t.conns = s.conns /\ t.answered = s.answered /\ t.up = s.up
            /\ t.due = s.due /\ t.current = c /\ t.ringCounter = s.ringCounter
            /\ c \in s.conns \cup {null} => Good(t)
<1> DEFINE t == [s EXCEPT !.current = c]
<1>1. s \in States
  BY DEF Good, Sound
<1>2. t \in States
  BY <1>1 DEF States
<1>3. /\ t.answered = s.answered /\ t.rings = s.rings /\ t.conns = s.conns
      /\ t.due = s.due /\ t.current = c /\ t.nextConn = s.nextConn
      /\ t.dcd = s.dcd /\ t.uart = s.uart /\ t.baudState = s.baudState
      /\ t.blip = s.blip /\ t.up = s.up /\ t.ringCounter = s.ringCounter
      /\ Same(s, t)
  BY <1>1 DEF States, Same
<1> HIDE DEF t
<1>4. ListOK(t) /\ RateOK(t) /\ CarrierOK(t)
  BY <1>3 DEF Good, Sound, ListOK, RateOK, CarrierOK, Same
<1>5. c \in s.conns \cup {null} => PointersOK(t)
  BY <1>3 DEF Good, Sound, PointersOK
<1> QED
  BY <1>2, <1>3, <1>4, <1>5 DEF Good, Sound, t

\* doAnswerCommand: the call it streams was answered.
LEMMA DoAnswerKeeps ==
  ASSUME NEW s, Good(s), Heard(s)
  PROVE  Good(DoAnswer(s)) /\ Heard(DoAnswer(s))
<1> DEFINE c == s.last
           cur == [s EXCEPT !.current = c]
           t == CheckOpenConnections(cur)
           u == IF c \notin t.answered \/ t.ringCounter = 0
                  THEN [Answer(Say(t), c) EXCEPT !.ringCounter = 0]
                  ELSE t
           v == CheckOpenConnections(SwitchTo(u, c))
<1>1. s \in States /\ c \in Ids \cup {null}
  BY DEF Good, Sound, States
<1>2. DoAnswer(s) = IF ~Connected(s, c) THEN [s EXCEPT !.busy = FALSE]
                    ELSE IF c \notin t.conns THEN [t EXCEPT !.stray = TRUE]
                    ELSE [v EXCEPT !.busy = FALSE]
  BY DEF DoAnswer
<1>3. CASE ~Connected(s, c)
  <2>1. DoAnswer(s) = [s EXCEPT !.busy = FALSE]
    BY <1>2, <1>3
  <2>2. Alike(s, DoAnswer(s))
    BY <1>1, <2>1, FreeFields
  <2> QED
    BY <2>2, AlikeSound DEF Alike, Heard
<1>4. /\ Good(t) /\ Heard(t) /\ t \in States
  <2>1. /\ cur \in States /\ ListOK(cur) /\ RateOK(cur) /\ Same(s, cur)
        /\ cur.answered = s.answered
    BY <1>1, SetCurrentKeeps
  <2> HIDE DEF cur
  <2>2. Good(t) /\ Same(cur, t) /\ t.answered = cur.answered \ Expired(cur)
    BY <2>1, CheckKeeps
  <2>3. Expired(cur) \subseteq cur.marked
    BY DEF Expired
  <2> QED
    BY <2>1, <2>2, <2>3 DEF Heard, Same, Good, Sound
<1> HIDE DEF cur, t
<1>5. CASE Connected(s, c) /\ c \notin t.conns
  <2> DEFINE x == [t EXCEPT !.stray = TRUE]
  <2>1. DoAnswer(s) = x
    BY <1>2, <1>5
  <2>2. x \in States
    BY <1>4 DEF States
  <2>3. /\ x.answered = t.answered /\ x.rings = t.rings /\ x.conns = t.conns
        /\ x.due = t.due /\ x.current = t.current /\ x.nextConn = t.nextConn
        /\ x.dcd = t.dcd /\ x.uart = t.uart /\ x.baudState = t.baudState
        /\ x.blip = t.blip /\ x.marked = t.marked /\ x.mode = t.mode
        /\ x.stream = t.stream /\ x.lastId = t.lastId /\ x.pending = t.pending
    BY <1>4 DEF States
  <2> HIDE DEF x
  <2>4. Good(x) /\ Heard(x)
    BY <1>4, <2>2, <2>3
       DEF Good, Sound, ListOK, PointersOK, RateOK, CarrierOK, Heard
  <2> QED
    BY <2>1, <2>4
<1>6. CASE Connected(s, c) /\ c \in t.conns
  <2>1. Good(u) /\ c \in u.answered
    <3>1. CASE c \notin t.answered \/ t.ringCounter = 0
      <4> DEFINE x == Answer(Say(t), c)
      <4>1. Good(Say(t)) /\ Say(t).conns = t.conns
        BY <1>4, Talk, AlikeSound DEF Alike
      <4>2. Good(x) /\ c \in x.answered
        BY <1>6, <4>1, AnswerKeeps
      <4> HIDE DEF x
      <4>3. Alike(x, [x EXCEPT !.ringCounter = 0])
        <5>1. x \in States
          BY <4>2 DEF Good, Sound
        <5> QED
          BY <5>1, FreeFields
      <4>4. u = [x EXCEPT !.ringCounter = 0]
        BY <3>1 DEF x
      <4> QED
        BY <4>2, <4>3, <4>4, AlikeSound DEF Alike
    <3>2. CASE ~(c \notin t.answered \/ t.ringCounter = 0)
      BY <1>4, <3>2
    <3> QED
      BY <3>1, <3>2
  <2> HIDE DEF u
  <2> DEFINE w == SwitchTo(u, c)
  <2>2. /\ Good(w) /\ w.mode = "stream" /\ w.stream = c
        /\ w.answered = u.answered
    BY <1>1, <2>1, SwitchToKeeps
  <2> HIDE DEF w
  <2>3. Good(v) /\ Heard(v)
    <3>1. v = CheckOpenConnections(w)
      BY DEF w
    <3>2. Good(v) /\ Same(w, v) /\ v.answered = w.answered \ Expired(w)
      BY <2>2, <3>1, CheckKeeps DEF Good, Sound
    <3>3. Expired(w) \subseteq w.marked
      BY DEF Expired
    <3> QED
      BY <2>1, <2>2, <3>2, <3>3 DEF Heard, Same
  <2>4. DoAnswer(s) = [v EXCEPT !.busy = FALSE]
    BY <1>2, <1>6
  <2> HIDE DEF v
  <2>5. Alike(v, DoAnswer(s))
    <3>1. v \in States
      BY <2>3 DEF Good, Sound
    <3> QED
      BY <2>4, <3>1, FreeFields
  <2> QED
    BY <2>3, <2>5, AlikeSound DEF Alike, Heard
<1> QED
  BY <1>3, <1>5, <1>6

\* The last caller is set.
LastIs(s, c) == [s EXCEPT !.last = c]

\* The last caller is no part of what is good.
LEMMA LastKeeps ==
  ASSUME NEW s, Good(s), NEW c \in Ids \cup {null}
  PROVE  /\ Good(LastIs(s, c))
         /\ LastIs(s, c).mode = s.mode /\ LastIs(s, c).stream = s.stream
         /\ LastIs(s, c).conns = s.conns /\ LastIs(s, c).answered = s.answered
         /\ LastIs(s, c).marked = s.marked /\ LastIs(s, c).stray = s.stray
<1> DEFINE t == LastIs(s, c)
<1>1. s \in States
  BY DEF Good, Sound
<1>2. t \in States
  BY <1>1 DEF States, LastIs
<1>3. /\ t.answered = s.answered /\ t.rings = s.rings /\ t.conns = s.conns
      /\ t.due = s.due /\ t.current = s.current /\ t.nextConn = s.nextConn
      /\ t.dcd = s.dcd /\ t.uart = s.uart /\ t.baudState = s.baudState
      /\ t.blip = s.blip /\ t.marked = s.marked /\ t.mode = s.mode
      /\ t.stream = s.stream /\ t.lastId = s.lastId /\ t.pending = s.pending
      /\ t.stray = s.stray
  BY <1>1 DEF States, LastIs
<1> HIDE DEF t
<1>4. Good(t)
  BY <1>2, <1>3 DEF Good, Sound, ListOK, PointersOK, RateOK, CarrierOK
<1> QED
  BY <1>3, <1>4 DEF t

\* The two pointers are set.
PointAt(s, c, d) == [s EXCEPT !.current = c, !.nextConn = d]

\* The pointers of command mode are set to connections of the list.
LEMMA PointKeeps ==
  ASSUME NEW s \in States, ListOK(s), RateOK(s),
         NEW c \in s.conns \cup {null}, NEW d \in s.conns \cup {null}
  PROVE  /\ Sound(PointAt(s, c, d))
         /\ CarrierOK(s) => Good(PointAt(s, c, d))
         /\ Same(s, PointAt(s, c, d))
         /\ PointAt(s, c, d).conns = s.conns
         /\ PointAt(s, c, d).answered = s.answered
<1> DEFINE t == PointAt(s, c, d)
<1>1. c \in Ids \cup {null} /\ d \in Ids \cup {null}
  BY DEF States
<1>2. t \in States
  BY <1>1 DEF States, PointAt
<1>3. /\ t.answered = s.answered /\ t.rings = s.rings /\ t.conns = s.conns
      /\ t.due = s.due /\ t.current = c /\ t.nextConn = d
      /\ t.dcd = s.dcd /\ t.uart = s.uart /\ t.baudState = s.baudState
      /\ t.blip = s.blip /\ Same(s, t)
  BY DEF States, PointAt, Same
<1> HIDE DEF t
<1>4. ListOK(t) /\ PointersOK(t) /\ RateOK(t) /\ (CarrierOK(s) => CarrierOK(t))
  BY <1>3 DEF ListOK, PointersOK, RateOK, CarrierOK, Same
<1> QED
  BY <1>2, <1>3, <1>4 DEF Good, Sound, t

\* A call that is dialled and refused takes an id.
LEMMA RefusedKeeps ==
  ASSUME NEW s, Good(s), NEW c \in Ids, c = s.lastId + 1, s.pending => c < MaxId
  PROVE  LET t == CheckOpenConnections(Repair([s EXCEPT !.lastId = c]))
         IN Good(t) /\ t.mode = s.mode
<1> DEFINE u == [s EXCEPT !.lastId = c]
           cur == IF u.current \in u.conns \cup {null} THEN u.current ELSE First(u)
           nxt == IF u.nextConn \in u.conns \cup {null} THEN u.nextConn ELSE First(u)
           v == PointAt(u, cur, nxt)
<1>1. s \in States /\ c \in 0 .. MaxId /\ s.lastId \in Nat
  BY IdsNumbers DEF Good, Sound, States, Ids
<1>2. u \in States
  BY <1>1 DEF States
<1>3. /\ u.answered = s.answered /\ u.rings = s.rings /\ u.conns = s.conns
      /\ u.due = s.due /\ u.uart = s.uart /\ u.baudState = s.baudState
      /\ u.blip = s.blip /\ u.dcd = s.dcd /\ u.mode = s.mode
      /\ u.lastId = c /\ u.pending = s.pending
  BY <1>1 DEF States
<1>4. Repair(u) = v
  BY DEF Repair, PointAt
<1> HIDE DEF u
<1>5. cur \in u.conns \cup {null} /\ nxt \in u.conns \cup {null}
  BY <1>2, FirstListed
<1>6. ListOK(u)
  <2>1. u.conns \subseteq 1 .. u.lastId
    BY <1>1, <1>3 DEF Good, Sound, ListOK
  <2> QED
    BY <1>3, <2>1 DEF Good, Sound, ListOK
<1>7. RateOK(u)
  BY <1>3 DEF Good, Sound, RateOK
<1> HIDE DEF cur, nxt
<1>8. Sound(v) /\ Same(u, v)
  BY <1>2, <1>5, <1>6, <1>7, PointKeeps
<1> HIDE DEF v
<1>9. Good(CheckOpenConnections(v)) /\ Same(v, CheckOpenConnections(v))
  BY <1>8, CheckKeeps DEF Sound
<1> QED
  BY <1>3, <1>4, <1>8, <1>9 DEF Same, u

\* A response keeps what is good.
LEMMA RespondKeeps ==
  ASSUME NEW s, Good(s)
  PROVE  /\ Good(Respond(s)) /\ Respond(s).mode = s.mode
         /\ Streamed(s) => Streamed(Respond(s))
<1>1. Alike(s, Respond(s))
  BY Talk DEF Good, Sound
<1> QED
  BY <1>1, AlikeSound DEF Alike

\* ATD and ATC with an address, whatever becomes of the call.
LEMMA DialKeeps ==
  ASSUME NEW s, Good(s), s.mode = "command",
         s.lastId + (IF s.pending THEN 1 ELSE 0) < MaxId,
         NEW stream \in BOOLEAN, NEW outcome \in {"refused", "dropped", "connected"}
  PROVE  Good(Dial(s, stream, outcome)) /\ Streamed(Dial(s, stream, outcome))
<1> DEFINE c == s.lastId + 1
           e == [s EXCEPT !.exit = IF stream THEN @ \cup {c} ELSE @]
           t == LinkOutgoing(e)
           u == [t EXCEPT !.current = c]
<1>1. s \in States /\ s.lastId \in Nat /\ s.pending \in BOOLEAN
  BY IdsNumbers DEF Good, Sound, States
<1>2. c \in Ids /\ (s.pending => c < MaxId)
  <2>1. CASE s.pending
    BY <1>1, <2>1, IdsNumbers DEF Ids
  <2>2. CASE ~s.pending
    BY <1>1, <2>2, IdsNumbers DEF Ids
  <2> QED
    BY <2>1, <2>2
<1>3. Dial(s, stream, outcome) =
        CASE outcome = "refused" ->
               Respond(CheckOpenConnections(Repair([s EXCEPT !.lastId = c])))
          [] outcome = "dropped" -> Respond(Delete(t, c))
          [] outcome = "connected" -> Respond(IF stream THEN SwitchTo(u, c) ELSE u)
  BY DEF Dial
<1> HIDE DEF c
<1>4. Alike(s, e)
  <2> DEFINE x == IF stream THEN s.exit \cup {c} ELSE s.exit
  <2>1. x \in SUBSET Ids
    BY <1>1, <1>2 DEF States
  <2>2. e = [s EXCEPT !.exit = x]
    OBVIOUS
  <2> HIDE DEF x
  <2> QED
    BY <1>1, <2>1, <2>2, FreeFields
<1> HIDE DEF e
<1>5. Good(t) /\ t.mode = "command" /\ c \in t.conns
  <2>1. Good(e) /\ e.lastId = s.lastId /\ e.pending = s.pending /\ e.mode = s.mode
    BY <1>4, AlikeSound DEF Alike
  <2>2. c = e.lastId + 1 /\ (e.pending => c < MaxId)
    BY <1>2, <2>1 DEF c
  <2> QED
    BY <1>2, <2>1, <2>2, LinkOutgoingKeeps
<1> HIDE DEF t
<1>6. CASE outcome = "refused"
  <2> DEFINE r == CheckOpenConnections(Repair([s EXCEPT !.lastId = c]))
  <2>1. Good(r) /\ r.mode = "command"
    BY <1>2, RefusedKeeps DEF c
  <2> HIDE DEF r
  <2>2. Dial(s, stream, outcome) = Respond(r)
    BY <1>3, <1>6 DEF r
  <2> QED
    BY <2>1, <2>2, RespondKeeps DEF Streamed
<1>7. CASE outcome = "dropped"
  <2> DEFINE r == Delete(t, c)
  <2>1. Good(r) /\ r.mode = "command"
    BY <1>2, <1>5, DeleteKeeps DEF Good, Sound, Same
  <2> HIDE DEF r
  <2>2. Dial(s, stream, outcome) = Respond(r)
    BY <1>3, <1>7 DEF r
  <2> QED
    BY <2>1, <2>2, RespondKeeps DEF Streamed
<1>8. CASE outcome = "connected"
  <2> DEFINE r == IF stream THEN SwitchTo(u, c) ELSE u
  <2>1. /\ Good(u) /\ u.conns = t.conns /\ u.mode = "command"
    BY <1>2, <1>5, SetCurrentKeeps DEF Same
  <2> HIDE DEF u
  <2>2. Good(r) /\ Streamed(r)
    <3>1. CASE stream
      BY <1>2, <1>5, <2>1, <3>1, SwitchToKeeps DEF Streamed
    <3>2. CASE ~stream
      BY <2>1, <3>2 DEF Streamed
    <3> QED
      BY <3>1, <3>2
  <2> HIDE DEF r
  <2>3. Dial(s, stream, outcome) = Respond(r)
    BY <1>3, <1>8 DEF r
  <2> QED
    BY <2>2, <2>3, RespondKeeps
<1> QED
  BY <1>6, <1>7, <1>8

\* So does output to the terminal.
LEMMA SayKeeps ==
  ASSUME NEW s, Good(s)
  PROVE  /\ Good(Say(s)) /\ Say(s).mode = s.mode /\ Say(s).conns = s.conns
         /\ Say(s).stream = s.stream /\ Say(s).answered = s.answered
         /\ Say(s).marked = s.marked /\ Say(s).last = s.last
         /\ Streamed(s) => Streamed(Say(s))
<1>1. Alike(s, Say(s))
  BY Talk DEF Good, Sound
<1> QED
  BY <1>1, AlikeSound DEF Alike

\* Busy mode is no part of what is good.
LEMMA BusyKeeps ==
  ASSUME NEW s, Good(s), NEW b \in BOOLEAN
  PROVE  /\ Good([s EXCEPT !.busy = b])
         /\ [s EXCEPT !.busy = b].mode = s.mode
<1> DEFINE t == [s EXCEPT !.busy = b]
<1>1. Alike(s, t)
  BY FreeFields DEF Good, Sound
<1> HIDE DEF t
<1>2. Good(t) /\ t.mode = s.mode
  BY <1>1, AlikeSound DEF Alike
<1> QED
  BY <1>2 DEF t

\* A command is obeyed in command mode; it may stream a call.
Obeyed(s) == Good(s) /\ Streamed(s)

\* What is good in command mode is obeyed.
LEMMA CommandObeyed == \A s : Good(s) /\ s.mode = "command" => Obeyed(s)
BY DEF Obeyed, Streamed

\* A command may respond.
LEMMA RespondObeyed ==
  ASSUME NEW s, Obeyed(s) PROVE Obeyed(Respond(s))
BY RespondKeeps DEF Obeyed

\* ATA and ATO.
LEMMA AnswersObeyed ==
  ASSUME NEW s, Good(s), s.mode = "command"
  PROVE  Obeyed(Respond(DoAnswer(s))) /\ Obeyed(GoOnline(s))
<1>1. Obeyed(DoAnswer(s))
  BY DoAnswerKeeps, HeardStreamed DEF Obeyed, Heard
<1>2. ASSUME Connected(s, s.current) PROVE Obeyed(DoAnswer(LastIs(s, s.current)))
  <2>1. s.current \in Ids \cup {null}
    BY DEF Good, Sound, States
  <2>2. Good(LastIs(s, s.current)) /\ LastIs(s, s.current).mode = "command"
    BY <2>1, LastKeeps
  <2> QED
    BY <2>2, DoAnswerKeeps, HeardStreamed DEF Obeyed, Heard
<1>3. GoOnline(s) = Respond(IF Connected(s, s.current)
                              THEN DoAnswer(LastIs(s, s.current)) ELSE s)
  BY DEF GoOnline, LastIs
<1> QED
  BY <1>1, <1>2, <1>3, RespondObeyed, CommandObeyed

\* ATD, alone or with the id of a connection.
LEMMA StreamsObeyed ==
  ASSUME NEW s, Good(s), s.mode = "command", NEW c \in Ids
  PROVE  Obeyed(StreamCurrent(s)) /\ Obeyed(StreamSelect(s, c))
<1>1. ASSUME NEW u, Good(u), NEW d \in u.conns PROVE Obeyed(SwitchTo(u, d))
  <2>1. d \in Ids \cup {null}
    BY <1>1 DEF Good, Sound, States
  <2> QED
    BY <1>1, <2>1, SwitchToKeeps DEF Obeyed, Streamed
<1>2. Obeyed(StreamCurrent(s))
  BY <1>1, RespondObeyed, CommandObeyed DEF StreamCurrent, Connected
<1>3. ASSUME Connected(s, c) PROVE Obeyed(SwitchTo([s EXCEPT !.current = c], c))
  <2> DEFINE u == [s EXCEPT !.current = c]
  <2>1. Good(u) /\ u.conns = s.conns
    BY <1>3, SetCurrentKeeps DEF Connected
  <2> HIDE DEF u
  <2>2. Obeyed(SwitchTo(u, c))
    BY <1>1, <1>3, <2>1 DEF Connected
  <2> QED
    BY <2>2 DEF u
<1>4. Obeyed(StreamSelect(s, c))
  BY <1>3, RespondObeyed, CommandObeyed DEF StreamSelect
<1> QED
  BY <1>2, <1>4

\* ATC0: the connections of up are answered.
LEMMA AnswerAllKeeps ==
  ASSUME NEW s, Good(s), NEW up \in SUBSET s.conns
  PROVE  LET t == [s EXCEPT !.answered = @ \cup up, !.ringDue = @ \ up,
                            !.rings = [c \in Ids |-> IF c \in up THEN 0 ELSE @[c]]]
         IN Good(t) /\ t.mode = s.mode
<1> DEFINE r == [c \in Ids |-> IF c \in up THEN 0 ELSE s.rings[c]]
           t == [s EXCEPT !.answered = @ \cup up, !.ringDue = @ \ up, !.rings = r]
<1>1. s \in States /\ up \in SUBSET Ids
  BY DEF Good, Sound, States
<1>2. r \in [Ids -> Nat] /\ \A c \in Ids : c \notin up => r[c] = s.rings[c]
  BY <1>1 DEF States
<1>3. t = [s EXCEPT !.answered = @ \cup up, !.ringDue = @ \ up,
                    !.rings = [c \in Ids |-> IF c \in up THEN 0 ELSE @[c]]]
  OBVIOUS
<1> HIDE DEF r
<1>4. t \in States
  BY <1>1, <1>2 DEF States
<1>5. /\ t.answered = s.answered \cup up /\ t.rings = r /\ t.conns = s.conns
      /\ t.due = s.due /\ t.current = s.current /\ t.nextConn = s.nextConn
      /\ t.dcd = s.dcd /\ t.uart = s.uart /\ t.baudState = s.baudState
      /\ t.blip = s.blip /\ t.lastId = s.lastId /\ t.pending = s.pending
      /\ t.mode = s.mode
  BY <1>1 DEF States
<1> HIDE DEF t
<1>6. ListOK(t)
  <2>1. s.conns \in SUBSET Ids
    BY <1>1 DEF States
  <2> QED
    BY <1>2, <1>5, <2>1 DEF Good, Sound, ListOK
<1>7. PointersOK(t) /\ RateOK(t) /\ CarrierOK(t)
  BY <1>5 DEF Good, Sound, PointersOK, RateOK, CarrierOK
<1>8. Good(t) /\ t.mode = s.mode
  BY <1>4, <1>5, <1>6, <1>7 DEF Good, Sound
<1> QED
  BY <1>3, <1>8

\* ATC, alone, for all connections, and with the id of one.
LEMMA ConnectsObeyed ==
  ASSUME NEW s, Good(s), s.mode = "command", NEW c \in Ids
  PROVE  /\ Obeyed(ConnectCurrent(s)) /\ Obeyed(ConnectList(s))
         /\ Obeyed(ConnectSelect(s, c))
<1>1. Obeyed(ConnectCurrent(s))
  <2>1. ASSUME Connected(s, s.current) PROVE Obeyed(Say(Answer(s, s.current)))
    <3>1. /\ Good(Answer(s, s.current)) /\ Answer(s, s.current).mode = "command"
      BY <2>1, AnswerKeeps DEF Connected, Same
    <3> QED
      BY <3>1, SayKeeps, CommandObeyed
  <2>2. Obeyed(Respond(s)) /\ Obeyed(Say(s)) /\ Obeyed(s)
    BY RespondObeyed, SayKeeps, CommandObeyed
  <2> QED
    BY <2>1, <2>2 DEF ConnectCurrent
<1>2. Obeyed(ConnectList(s))
  <2> DEFINE up == {d \in s.conns : Connected(s, d)}
             t == [s EXCEPT !.answered = @ \cup up, !.ringDue = @ \ up,
                            !.rings = [d \in Ids |-> IF d \in up THEN 0 ELSE @[d]]]
  <2>1. up \in SUBSET s.conns
    OBVIOUS
  <2>2. Good(t) /\ t.mode = "command"
    <3> HIDE DEF up
    <3> QED
      BY <2>1, AnswerAllKeeps
  <2>3. ConnectList(s) = Respond(IF Callers \/ t.conns \cap t.answered # {}
                                   THEN Say(t) ELSE t)
    BY DEF ConnectList
  <2> HIDE DEF t
  <2>4. Obeyed(Say(t)) /\ Obeyed(t)
    BY <2>2, SayKeeps, CommandObeyed
  <2> QED
    BY <2>3, <2>4, RespondObeyed
<1>3. Obeyed(ConnectSelect(s, c))
  <2> DEFINE u == [s EXCEPT !.current = c]
  <2>1. c \in s.conns => Good(u) /\ u.mode = "command"
    BY SetCurrentKeeps DEF Same
  <2>2. ConnectSelect(s, c) = Respond(IF c \in s.conns THEN u ELSE s)
    BY DEF ConnectSelect
  <2> HIDE DEF u
  <2> QED
    BY <2>1, <2>2, RespondObeyed, CommandObeyed
<1> QED
  BY <1>1, <1>2, <1>3

-----------------------------------------------------------------------------
(* Hanging up.                                                             *)

\* The states of a walk in command mode.
Commanded == {s \in States : Good(s) /\ s.mode = "command"}

\* The head of the list is deleted.
LEMMA DeleteFirstStays ==
  ASSUME NEW s \in Commanded PROVE DeleteFirst(s) \in Commanded
<1>1. CASE s.conns = {}
  BY <1>1 DEF DeleteFirst
<1>2. CASE s.conns # {}
  <2>1. First(s) \in Ids
    <3>1. s \in States /\ s.conns \in SUBSET Ids
      BY DEF Commanded, States
    <3> QED
      BY <1>2, <3>1, HeadListed DEF First
  <2>2. DeleteFirst(s) = Delete(s, First(s))
    BY <1>2 DEF DeleteFirst
  <2> QED
    BY <2>1, <2>2, DeleteKeeps DEF Commanded, Good, Sound, Same
<1> QED
  BY <1>1, <1>2

\* ATH: every turn of its walk deletes the head of the list.
LEMMA HangupAllObeyed ==
  ASSUME NEW s, Good(s), s.mode = "command" PROVE Obeyed(HangupAll(s))
<1> DEFINE f == [n \in 1 .. MaxId |-> [t \in Commanded |-> DeleteFirst(t)]]
           IsWalk(w) == w = [n \in 0 .. MaxId |->
                               IF n = 0 THEN s ELSE DeleteFirst(w[n - 1])]
<1>1. s \in Commanded /\ MaxId \in Nat
  BY IdsNumbers DEF Commanded, Good, Sound
<1>2. f \in Steps(Commanded, MaxId)
  BY DeleteFirstStays DEF Steps
<1>3. PICK g \in Walks(Commanded, MaxId, f, s) : TRUE
  <2> HIDE DEF f
  <2> QED
    BY <1>1, <1>2, WalkExists
<1>4. IsWalk(g)
  <2>1. g \in [0 .. MaxId -> Commanded] /\ g[0] = s
        /\ \A n \in 1 .. MaxId : g[n] = f[n][g[n - 1]]
    BY <1>3 DEF Walks
  <2>2. \A n \in 1 .. MaxId : g[n - 1] \in Commanded
    <3>1. \A n \in 1 .. MaxId : n - 1 \in 0 .. MaxId
      BY <1>1
    <3> HIDE DEF f
    <3> QED
      BY <2>1, <3>1
  <2>3. \A n \in 1 .. MaxId : f[n][g[n - 1]] = DeleteFirst(g[n - 1])
    BY <2>2
  <2> HIDE DEF f
  <2>4. \A n \in 0 .. MaxId : g[n] = IF n = 0 THEN s ELSE DeleteFirst(g[n - 1])
    BY <2>1, <2>3
  <2> QED
    BY <2>1, <2>4
<1> DEFINE hung == CHOOSE w : IsWalk(w)
<1>5. IsWalk(hung)
  BY <1>4
<1>6. HangupAll(s) = [hung[MaxId] EXCEPT !.last = 0, !.current = null,
                                         !.nextConn = null, !.busy = FALSE]
  BY DEF HangupAll
<1> HIDE DEF hung
<1>7. hung[MaxId] \in Commanded
  <2>1. /\ hung[0] = s
        /\ \A n \in 1 .. MaxId : hung[n] = DeleteFirst(hung[n - 1])
    BY <1>1, <1>5
  <2>2. \A n \in 1 .. MaxId : hung[n - 1] \in Commanded => hung[n] \in Commanded
    BY <2>1, DeleteFirstStays
  <2> QED
    BY <1>1, <2>1, <2>2, WalkStays
<1> DEFINE h == hung[MaxId]
           t == PointAt(LastIs(h, null), null, null)
<1>8. Good(h) /\ h.mode = "command" /\ h \in States
  BY <1>7 DEF Commanded
<1> HIDE DEF h
<1>9. Good(t) /\ t.mode = "command"
  <2>1. Good(LastIs(h, null)) /\ LastIs(h, null).mode = "command"
    BY <1>8, LastKeeps
  <2> QED
    BY <2>1, PointKeeps DEF Good, Sound, Same
<1>10. HangupAll(s) = [t EXCEPT !.busy = FALSE]
  BY <1>6, <1>8 DEF h, LastIs, PointAt, null
<1> HIDE DEF t
<1> QED
  BY <1>9, <1>10, BusyKeeps, CommandObeyed

\* ATH0 and ATH with the id of a connection.
LEMMA HangupsObeyed ==
  ASSUME NEW s, Good(s), s.mode = "command", NEW c \in Ids
  PROVE  Obeyed(HangupCurrent(s)) /\ Obeyed(HangupSelect(s, c))
<1>1. ASSUME NEW d \in Ids
      PROVE  /\ Good(Delete(ForgetCaller(s, d), d))
             /\ Delete(ForgetCaller(s, d), d).mode = "command"
  <2> DEFINE l == IF s.last = d THEN 0 ELSE s.last
  <2>1. ForgetCaller(s, d) = LastIs(s, l)
    BY DEF ForgetCaller, LastIs
  <2>2. l \in Ids \cup {null}
    BY DEF Good, Sound, States, null
  <2> HIDE DEF l
  <2>3. Good(ForgetCaller(s, d)) /\ ForgetCaller(s, d).mode = "command"
    BY <2>1, <2>2, LastKeeps
  <2> QED
    BY <2>3, DeleteKeeps DEF Good, Sound, Same
<1>2. Obeyed(HangupCurrent(s))
  <2>1. CASE s.current = null
    BY <2>1, BusyKeeps, CommandObeyed DEF HangupCurrent
  <2>2. CASE s.current # null
    <3> DEFINE t == Delete(ForgetCaller(s, s.current), s.current)
               u == PointAt(t, First(t), First(t))
    <3>1. s.current \in Ids
      BY <2>2 DEF Good, Sound, States
    <3>2. Good(t) /\ t.mode = "command"
      BY <1>1, <3>1
    <3>3. HangupCurrent(s) = [t EXCEPT !.current = First(t), !.nextConn = First(t),
                                       !.busy = FALSE]
      BY <2>2 DEF HangupCurrent
    <3> HIDE DEF t
    <3>4. Good(u) /\ u.mode = "command"
      BY <3>2, FirstListed, PointKeeps DEF Good, Sound, Same
    <3>5. HangupCurrent(s) = [u EXCEPT !.busy = FALSE]
      BY <3>2, <3>3 DEF PointAt
    <3> HIDE DEF u
    <3> QED
      BY <3>4, <3>5, BusyKeeps, CommandObeyed
  <2> QED
    BY <2>1, <2>2
<1>3. Obeyed(HangupSelect(s, c))
  BY <1>1, BusyKeeps, CommandObeyed DEF HangupSelect
<1> QED
  BY <1>2, <1>3

\* Whatever the command is, it is obeyed.
LEMMA ExecuteKeeps ==
  ASSUME NEW s, Good(s), s.mode = "command", NEW command, NEW t \in Execute(s, command)
  PROVE  Obeyed(t)
<1>1. CASE command = "ATA"
  BY <1>1, AnswersObeyed DEF Execute
<1>2. CASE command = "ATO"
  BY <1>2, AnswersObeyed DEF Execute
<1>3. CASE command = "ATD"
  BY <1>3, IdsNumbers, MaxIdAssumption, StreamsObeyed DEF Execute, Ids
<1>4. CASE command = "ATDn"
  BY <1>4, StreamsObeyed DEF Execute
<1>5. CASE command = "ATC"
  BY <1>5, MaxIdAssumption, ConnectsObeyed DEF Execute, Ids
<1>6. CASE command = "ATC0"
  BY <1>6, MaxIdAssumption, ConnectsObeyed DEF Execute, Ids
<1>7. CASE command = "ATCn"
  BY <1>7, ConnectsObeyed DEF Execute
<1>8. CASE command = "ATH"
  BY <1>8, HangupAllObeyed, RespondObeyed DEF Execute
<1>9. CASE command = "ATH0"
  BY <1>9, MaxIdAssumption, HangupsObeyed, RespondObeyed DEF Execute, Ids
<1>10. CASE command = "ATHn"
  BY <1>10, HangupsObeyed, RespondObeyed DEF Execute
<1> QED
  BY <1>1, <1>2, <1>3, <1>4, <1>5, <1>6, <1>7, <1>8, <1>9, <1>10 DEF Execute

-----------------------------------------------------------------------------
(* Callers.                                                                *)

\* The program has followed a pointer to a deleted connection, or not.
StrayIs(s, b) == [s EXCEPT !.stray = b]

\* A stray pointer alone does no harm yet.
LEMMA StrayKeeps ==
  ASSUME NEW s, s \in States, NEW b \in BOOLEAN
  PROVE  /\ StrayIs(s, b) \in States /\ StrayIs(s, b).stray = b
         /\ Good(s) => Good(StrayIs(s, b))
         /\ Heard(s) => Heard(StrayIs(s, b))
         /\ Streamed(s) => Streamed(StrayIs(s, b))
<1> DEFINE t == StrayIs(s, b)
<1>1. t \in States
  BY DEF States, StrayIs
<1>2. /\ t.answered = s.answered /\ t.rings = s.rings /\ t.conns = s.conns
      /\ t.due = s.due /\ t.current = s.current /\ t.nextConn = s.nextConn
      /\ t.dcd = s.dcd /\ t.uart = s.uart /\ t.baudState = s.baudState
      /\ t.blip = s.blip /\ t.marked = s.marked /\ t.mode = s.mode
      /\ t.stream = s.stream /\ t.lastId = s.lastId /\ t.pending = s.pending
      /\ t.stray = b
  BY DEF States, StrayIs
<1> HIDE DEF t
<1>3. Good(s) => Good(t)
  BY <1>1, <1>2 DEF Good, Sound, ListOK, PointersOK, RateOK, CarrierOK
<1>4. (Heard(s) => Heard(t)) /\ (Streamed(s) => Streamed(t))
  BY <1>2 DEF Heard, Streamed
<1> QED
  BY <1>1, <1>2, <1>3, <1>4 DEF t

\* The states of the walk over the callers that ring.
Hearing == {s \in States : Good(s) /\ Heard(s)}
Ringers == [s : Hearing, done : BOOLEAN]

\* A ring is counted: n are left.
Rung(s, c, n) == [s EXCEPT !.rings[c] = n, !.ringDue = @ \ {c}]

\* A ring of a caller is counted: the list is in order but for that caller.
LEMMA RungKeeps ==
  ASSUME NEW s, Good(s), Heard(s), NEW c \in s.conns \ s.answered, NEW n \in Nat
  PROVE  /\ Rung(s, c, n) \in States /\ ListBut(Rung(s, c, n), {c})
         /\ PointersOK(Rung(s, c, n)) /\ RateOK(Rung(s, c, n))
         /\ CarrierOK(Rung(s, c, n)) /\ Heard(Rung(s, c, n))
         /\ n > 0 => Good(Rung(s, c, n))
         /\ Rung(s, c, n).conns = s.conns /\ Rung(s, c, n).answered = s.answered
<1> DEFINE r == [s.rings EXCEPT ![c] = n]
           t == Rung(s, c, n)
<1>1. s \in States /\ c \in Ids
  BY DEF Good, Sound, States
<1>2. r \in [Ids -> Nat] /\ r[c] = n /\ \A d \in Ids \ {c} : r[d] = s.rings[d]
  BY <1>1 DEF States
<1>3. t = [s EXCEPT !.rings = r, !.ringDue = @ \ {c}]
  BY <1>1 DEF Rung
<1> HIDE DEF r, t
<1>4. t \in States
  BY <1>1, <1>2, <1>3 DEF States
<1>5. /\ t.answered = s.answered /\ t.rings = r /\ t.conns = s.conns
      /\ t.due = s.due /\ t.current = s.current /\ t.nextConn = s.nextConn
      /\ t.dcd = s.dcd /\ t.uart = s.uart /\ t.baudState = s.baudState
      /\ t.blip = s.blip /\ t.marked = s.marked /\ t.mode = s.mode
      /\ t.stream = s.stream /\ t.lastId = s.lastId /\ t.pending = s.pending
  BY <1>1, <1>3 DEF States
<1>6. s.conns \subseteq Ids
  BY <1>1 DEF States
<1>7. ListBut(t, {c}) /\ (n > 0 => ListOK(t))
  BY <1>2, <1>5, <1>6 DEF Good, Sound, ListOK, ListBut
<1>8. PointersOK(t) /\ RateOK(t) /\ CarrierOK(t) /\ Heard(t)
  BY <1>5 DEF Good, Sound, PointersOK, RateOK, CarrierOK, Heard
<1> QED
  BY <1>4, <1>5, <1>7, <1>8 DEF Good, Sound, t

\* The terminal hears the ring.
LEMMA SayHeard ==
  ASSUME NEW s, Good(s), Heard(s)
  PROVE  /\ Good(Say(s)) /\ Heard(Say(s))
         /\ \A b \in BOOLEAN : Good(Pin(s, "ri", b)) /\ Heard(Pin(s, "ri", b))
<1>1. Alike(s, Say(s)) /\ \A b \in BOOLEAN : Alike(s, Pin(s, "ri", b))
  BY Talk DEF Good, Sound
<1> QED
  BY <1>1, AlikeSound DEF Alike, Heard

\* One turn of the walk over the callers: its last ring answers or deletes.
LEMMA RingTurnStays ==
  ASSUME NEW w \in Ringers, NEW c \in Ids PROVE RingTurn(w, c) \in Ringers
<1> DEFINE s == w.s
           n == s.rings[c] - 1
           t == Rung(s, c, n)
           quiet == Pin(t, "ri", FALSE)
           gone == Delete(quiet, c)
           answered == Answer(Say(quiet), c)
           strays == After(s, c) \notin gone.conns \cup {null}
<1>1. Good(s) /\ Heard(s) /\ s \in States /\ w.done \in BOOLEAN
  BY DEF Ringers, Hearing
<1>2. RingTurn(w, c) =
        IF w.done \/ ~Ringing(s, c) \/ c \notin s.ringDue THEN w
        ELSE IF n <= 1 /\ s.ringCounter > 0 /\ AutoStream
          THEN [s |-> DoAnswer(answered), done |-> TRUE]
        ELSE IF n <= 1 /\ s.ringCounter > 0
          THEN [w EXCEPT !.s = answered]
        ELSE IF n <= 1
          THEN [s |-> [gone EXCEPT !.stray = @ \/ strays],
                done |-> gone.stray \/ strays]
        ELSE [w EXCEPT !.s = IF n % 2 = 0 THEN Say(Pin(t, "ri", TRUE)) ELSE quiet]
  BY DEF RingTurn, Rung
<1>3. \A x, d : x \in Hearing /\ d \in BOOLEAN => [s |-> x, done |-> d] \in Ringers
  BY DEF Ringers
<1>4. \A x \in Hearing : [w EXCEPT !.s = x] \in Ringers
  BY DEF Ringers
<1>5. \A x : Good(x) /\ Heard(x) => x \in Hearing
  BY DEF Hearing, Good, Sound
<1> HIDE DEF s, Ringers, Hearing
<1>6. CASE w.done \/ ~Ringing(s, c) \/ c \notin s.ringDue
  BY <1>2, <1>6
<1>7. CASE ~(w.done \/ ~Ringing(s, c) \/ c \notin s.ringDue)
  <2>1. c \in s.conns \ s.answered
    BY <1>7 DEF Ringing, Connected
  <2>2. n \in Nat
    <3>1. s.rings[c] > 0 /\ s.rings[c] \in Nat
      BY <1>1, <2>1 DEF Good, Sound, ListOK, States
    <3> QED
      BY <3>1
  <2> HIDE DEF n
  <2>3. /\ t \in States /\ ListBut(t, {c}) /\ PointersOK(t) /\ RateOK(t)
        /\ CarrierOK(t) /\ Heard(t) /\ (n > 0 => Good(t))
        /\ t.conns = s.conns /\ t.answered = s.answered
    BY <1>1, <2>1, <2>2, RungKeeps
  <2> HIDE DEF t
  <2>4. Alike(t, quiet) /\ Alike(t, Say(quiet))
    <3>1. Alike(t, quiet)
      BY <2>3, Talk
    <3> HIDE DEF quiet
    <3>2. Alike(quiet, Say(quiet))
      BY <3>1, Talk DEF Alike
    <3> QED
      BY <3>1, <3>2 DEF Alike
  <2> DEFINE q == Say(quiet)
  <2>5. \A x : Alike(t, x) => /\ x \in States /\ ListBut(x, {c}) /\ PointersOK(x)
                              /\ RateOK(x) /\ CarrierOK(x) /\ Heard(x)
                              /\ x.conns = s.conns /\ x.answered = s.answered
    BY <2>3 DEF Alike, ListBut, PointersOK, RateOK, CarrierOK, Heard
  <2>6. Good(answered) /\ Heard(answered)
    <3>1. answered = Answer(q, c)
      OBVIOUS
    <3>2. Alike(t, q)
      BY <2>4
    <3> HIDE DEF q
    <3>3. /\ q \in States /\ c \in q.conns /\ ListBut(q, {c}) /\ PointersOK(q)
          /\ RateOK(q) /\ CarrierOK(q) /\ Heard(q)
      BY <2>1, <2>5, <3>2
    <3>4. /\ Good(Answer(q, c)) /\ Same(q, Answer(q, c))
          /\ Answer(q, c).answered = q.answered \cup {c}
      BY <3>3, AnswerButKeeps
    <3> QED
      BY <3>1, <3>3, <3>4 DEF Heard, Same
  <2>7. Good(gone) /\ Heard(gone)
    <3> HIDE DEF quiet
    <3>1. /\ quiet \in States /\ ListBut(quiet, {c}) /\ RateOK(quiet) /\ Heard(quiet)
          /\ quiet.answered = s.answered
      BY <2>4, <2>5
    <3>2. /\ Good(gone) /\ Same(quiet, gone)
          /\ gone.answered = quiet.answered \ ({c} \cup Expired(quiet))
      BY <3>1, DeleteButKeeps
    <3>3. Expired(quiet) \subseteq quiet.marked
      BY DEF Expired
    <3> QED
      BY <2>1, <3>1, <3>2, <3>3 DEF Heard, Same
  <2> HIDE DEF answered, gone
  <2>8. CASE n <= 1 /\ s.ringCounter > 0 /\ AutoStream
    BY <1>2, <1>3, <1>5, <1>7, <2>6, <2>8, DoAnswerKeeps
  <2>9. CASE n <= 1 /\ s.ringCounter > 0 /\ ~AutoStream
    BY <1>2, <1>4, <1>5, <1>7, <2>6, <2>9
  <2>10. CASE n <= 1 /\ ~(s.ringCounter > 0)
    <3> DEFINE b == gone.stray \/ strays
    <3>1. b \in BOOLEAN /\ gone \in States
      BY <2>7 DEF Good, Sound, States
    <3>2. RingTurn(w, c) = [s |-> StrayIs(gone, b), done |-> b]
      BY <1>2, <1>7, <2>10 DEF StrayIs
    <3> HIDE DEF b
    <3>3. Good(StrayIs(gone, b)) /\ Heard(StrayIs(gone, b))
      BY <2>7, <3>1, StrayKeeps
    <3> QED
      BY <1>3, <1>5, <3>1, <3>2, <3>3
  <2>11. CASE ~(n <= 1)
    <3>1. Good(t)
      BY <2>2, <2>3, <2>11
    <3> DEFINE x == IF n % 2 = 0 THEN Say(Pin(t, "ri", TRUE)) ELSE quiet
    <3>2. Good(Pin(t, "ri", TRUE)) /\ Heard(Pin(t, "ri", TRUE))
          /\ Good(quiet) /\ Heard(quiet)
      BY <2>3, <3>1, SayHeard
    <3>3. RingTurn(w, c) = [w EXCEPT !.s = x]
      BY <1>2, <1>7, <2>11
    <3> HIDE DEF quiet
    <3>4. Good(Say(Pin(t, "ri", TRUE))) /\ Heard(Say(Pin(t, "ri", TRUE)))
      BY <3>2, SayHeard
    <3> QED
      BY <1>4, <1>5, <3>2, <3>3, <3>4
  <2> QED
    BY <2>8, <2>9, <2>10, <2>11
<1> QED
  BY <1>6, <1>7

\* A caller comes in command mode; it may be answered at once.
LEMMA AcceptCallerKeeps ==
  ASSUME NEW s, Good(s), s.mode = "command"
  PROVE  Good(AcceptCaller(s)) /\ Heard(AcceptCaller(s))
<1> DEFINE rings == FutureRings(s)
           delay == IF rings > 0 THEN (rings + 1) * 2 ELSE 0
           l == LinkIncoming(s, delay)
           t == Say(Pin(l, "ri", TRUE))
           u == LastIs(t, t.lastId)
           off == [s EXCEPT !.pending = FALSE]
<1>1. AcceptCaller(s) = IF ~s.pending THEN s
                        ELSE IF s.busy THEN off
                        ELSE IF delay = 0 /\ AutoStream THEN DoAnswer(u)
                        ELSE u
  BY DEF AcceptCaller, LastIs
<1>2. delay \in Nat
  <2>1. s.ringCounter \in Nat
    BY DEF Good, Sound, States
  <2>2. rings \in Nat
    BY <2>1, RingsAssumption DEF FutureRings
  <2> HIDE DEF rings
  <2>3. (rings + 1) * 2 \in Nat
    BY <2>2
  <2> QED
    BY <2>3
<1> HIDE DEF delay
<1>3. CASE ~s.pending
  BY <1>1, <1>3 DEF Heard
<1>4. CASE s.pending /\ s.busy
  <2>1. s \in States
    BY DEF Good, Sound
  <2>2. off \in States
    BY <2>1 DEF States
  <2>3. /\ off.answered = s.answered /\ off.rings = s.rings /\ off.conns = s.conns
        /\ off.due = s.due /\ off.current = s.current /\ off.nextConn = s.nextConn
        /\ off.dcd = s.dcd /\ off.uart = s.uart /\ off.baudState = s.baudState
        /\ off.blip = s.blip /\ off.lastId = s.lastId /\ off.pending = FALSE
        /\ off.mode = s.mode
    BY <2>1 DEF States
  <2> HIDE DEF off
  <2>4. Good(off) /\ off.mode = "command"
    BY <2>2, <2>3 DEF Good, Sound, ListOK, PointersOK, RateOK, CarrierOK
  <2> QED
    BY <1>1, <1>4, <2>4 DEF Heard
<1>5. CASE s.pending /\ ~s.busy
  <2>1. Good(l) /\ l.mode = "command"
    BY <1>2, <1>5, LinkIncomingKeeps
  <2> HIDE DEF l
  <2>2. Good(t) /\ t.mode = "command"
    <3>1. Alike(l, Pin(l, "ri", TRUE))
      BY <2>1, Talk DEF Good, Sound
    <3>2. Good(Pin(l, "ri", TRUE)) /\ Pin(l, "ri", TRUE).mode = "command"
      BY <2>1, <3>1, AlikeSound DEF Alike
    <3> QED
      BY <3>2, SayKeeps
  <2> HIDE DEF t
  <2>3. Good(u) /\ u.mode = "command"
    <3>1. t.lastId \in Ids \cup {null}
      BY <2>2, MaxIdAssumption DEF Good, Sound, States, Ids, null
    <3> QED
      BY <2>2, <3>1, LastKeeps
  <2>4. Heard(u)
    BY <2>3 DEF Heard
  <2> HIDE DEF u
  <2> QED
    BY <1>1, <1>5, <2>3, <2>4, DoAnswerKeeps
<1> QED
  BY <1>3, <1>4, <1>5

\* acceptNewConnection: the caller, and the walk over all that ring.
LEMMA AcceptKeeps ==
  ASSUME NEW s, Good(s), s.mode = "command"
  PROVE  Good(AcceptNewConnection(s)) /\ Heard(AcceptNewConnection(s))
<1> DEFINE t == AcceptCaller(s)
           x == [s |-> t, done |-> t.stray]
           f == [c \in 1 .. MaxId |-> [w \in Ringers |-> RingTurn(w, c)]]
           IsWalk(w) == w = [c \in 0 .. MaxId |->
                               IF c = 0 THEN x ELSE RingTurn(w[c - 1], c)]
<1>1. x \in Ringers /\ MaxId \in Nat
  <2>1. Good(t) /\ Heard(t)
    BY AcceptCallerKeeps
  <2> HIDE DEF t
  <2>2. t \in Hearing /\ t.stray \in BOOLEAN
    BY <2>1 DEF Hearing, Good, Sound, States
  <2> QED
    BY <2>2, IdsNumbers DEF Ringers
<1>2. AcceptNewConnection(s) = (CHOOSE w : IsWalk(w))[MaxId].s
  BY DEF AcceptNewConnection
<1> HIDE DEF x
<1>3. f \in Steps(Ringers, MaxId)
  BY RingTurnStays DEF Steps, Ids
<1>4. PICK g \in Walks(Ringers, MaxId, f, x) : TRUE
  <2> HIDE DEF f
  <2> QED
    BY <1>1, <1>3, WalkExists
<1>5. IsWalk(g)
  <2>1. /\ g \in [0 .. MaxId -> Ringers] /\ g[0] = x
        /\ \A c \in 1 .. MaxId : g[c] = f[c][g[c - 1]]
    BY <1>4 DEF Walks
  <2>2. \A c \in 1 .. MaxId : g[c - 1] \in Ringers
    <3>1. \A c \in 1 .. MaxId : c - 1 \in 0 .. MaxId
      BY <1>1
    <3> HIDE DEF f
    <3> QED
      BY <2>1, <3>1
  <2>3. \A c \in 1 .. MaxId : f[c][g[c - 1]] = RingTurn(g[c - 1], c)
    BY <2>2
  <2> HIDE DEF f
  <2>4. \A c \in 0 .. MaxId : g[c] = IF c = 0 THEN x ELSE RingTurn(g[c - 1], c)
    BY <2>1, <2>3
  <2> QED
    BY <2>1, <2>4
<1> DEFINE walk == CHOOSE w : IsWalk(w)
<1>6. IsWalk(walk)
  BY <1>5
<1>7. AcceptNewConnection(s) = walk[MaxId].s
  BY <1>2
<1> HIDE DEF walk
<1>8. walk[MaxId] \in Ringers
  <2>1. walk[0] = x /\ \A c \in 1 .. MaxId : walk[c] = RingTurn(walk[c - 1], c)
    BY <1>1, <1>6
  <2>2. \A c \in 1 .. MaxId : walk[c - 1] \in Ringers => walk[c] \in Ringers
    BY <2>1, RingTurnStays DEF Ids
  <2> QED
    BY <1>1, <2>1, <2>2, WalkStays
<1> QED
  BY <1>7, <1>8 DEF Ringers, Hearing

-----------------------------------------------------------------------------
(* The packets of the connections.                                         *)

\* The cursor of the walk is set.
NextIs(s, c) == [s EXCEPT !.nextConn = c]

\* The cursor goes to a connection of the list, or to none.
LEMMA NextStays ==
  ASSUME NEW s \in Commanded, NEW c \in s.conns \cup {null}
  PROVE  NextIs(s, c) \in Commanded
<1>1. s \in States /\ Good(s) /\ s.mode = "command"
  BY DEF Commanded
<1>2. s.current \in s.conns \cup {null}
  BY <1>1 DEF Good, Sound, PointersOK
<1>3. NextIs(s, c) = PointAt(s, s.current, c)
  BY <1>1 DEF NextIs, PointAt, States
<1>4. Good(PointAt(s, s.current, c)) /\ PointAt(s, s.current, c).mode = "command"
  BY <1>1, <1>2, PointKeeps DEF Good, Sound, Same
<1> QED
  BY <1>3, <1>4 DEF Commanded, Good, Sound

\* A state like one of the walk is one of the walk.
LEMMA AlikeCommanded ==
  ASSUME NEW s \in Commanded, NEW t, Alike(s, t) PROVE t \in Commanded
BY AlikeSound DEF Commanded, Alike

\* So is one in which a pointer was stray.
LEMMA StrayCommanded ==
  ASSUME NEW s \in Commanded, NEW b \in BOOLEAN PROVE StrayIs(s, b) \in Commanded
<1>1. StrayIs(s, b).mode = s.mode /\ s \in States
  BY DEF Commanded, StrayIs, States
<1> QED
  BY <1>1, StrayKeeps DEF Commanded

\* The states of the walk that looks for a packet.
Senders == [m : Commanded, first : Ids \cup {null}, done : BOOLEAN]

\* One turn of the walk that looks for a packet.
LEMMA SendTurnStays ==
  ASSUME NEW w \in Senders PROVE SendTurn(w) \in Senders
<1> DEFINE s == w.m
           c == s.nextConn
           said == SayNoCarrier(s, c)
           heard == [said EXCEPT !.was = @ \ {c}]
           t == IF c \in s.was THEN CheckOpenConnections(heard) ELSE s
           d == t.nextConn
           read == [s EXCEPT !.unread = @ \ {c}]
           sNext == NextIs(s, After(s, s.nextConn))
           tNext == NextIs(t, After(t, t.nextConn))
           More(x) == [m |-> x, first |-> w.first,
                       done |-> x.nextConn \in {null, w.first}]
           Done(x) == [w EXCEPT !.done = TRUE, !.m = x]
<1>1. s \in Commanded /\ w.first \in Ids \cup {null}
  BY DEF Senders
<1>2. SendTurn(w) =
        IF w.done THEN w
        ELSE IF c \notin s.conns THEN Done(StrayIs(s, TRUE))
        ELSE IF Available(s, c) THEN Done(Say(read))
        ELSE IF Connected(s, c) THEN More(sNext)
        ELSE IF d = null \/ t.stray THEN Done(StrayIs(t, TRUE))
        ELSE IF d \in t.server THEN Done(NextIs(Delete(t, d), null))
        ELSE More(tNext)
  BY DEF SendTurn, StrayIs, NextIs
<1>3. ASSUME NEW x \in Commanded PROVE Done(x) \in Senders /\ More(x) \in Senders
  <2>1. Done(x) \in Senders
    BY DEF Senders
  <2> DEFINE b == x.nextConn \in {null, w.first}
  <2>2. b \in BOOLEAN
    OBVIOUS
  <2>3. More(x) = [m |-> x, first |-> w.first, done |-> b]
    OBVIOUS
  <2> HIDE DEF b, More
  <2>4. More(x) \in Senders
    BY <1>1, <2>2, <2>3 DEF Senders
  <2> QED
    BY <2>1, <2>4
<1> HIDE DEF s, Senders, Done, More
<1>4. /\ Good(s) /\ s.mode = "command" /\ s \in States
      /\ c \in Ids \cup {null} /\ s.unread \in SUBSET Ids /\ s.was \in SUBSET Ids
  BY <1>1 DEF Commanded, States
<1>5. StrayIs(s, TRUE) \in Commanded
  BY <1>1, StrayCommanded
<1>6. Say(read) \in Commanded
  <2>1. Alike(s, read)
    BY <1>4, FreeFields
  <2> HIDE DEF read
  <2>2. Alike(read, Say(read))
    BY <2>1, Talk DEF Alike
  <2> QED
    BY <1>1, <2>1, <2>2, AlikeCommanded
<1>7. sNext \in Commanded
  BY <1>1, <1>4, AfterListed, NextStays
<1>8. t \in Commanded
  <2>1. CASE c \in s.was
    <3>1. Alike(s, said)
      BY <1>4, Talk
    <3> HIDE DEF said
    <3>2. Alike(said, heard)
      <4>1. said \in States /\ said.was \ {c} \in SUBSET Ids
        BY <3>1 DEF Alike, States
      <4> QED
        BY <4>1, FreeFields
    <3> HIDE DEF heard
    <3>3. heard \in Commanded
      BY <1>1, <3>1, <3>2, AlikeCommanded
    <3>4. Good(CheckOpenConnections(heard)) /\ Same(heard, CheckOpenConnections(heard))
      BY <3>3, CheckKeeps DEF Commanded, Good, Sound
    <3> QED
      BY <2>1, <3>3, <3>4 DEF Commanded, Good, Sound, Same
  <2>2. CASE c \notin s.was
    BY <1>1, <2>2
  <2> QED
    BY <2>1, <2>2
<1> HIDE DEF t
<1>9. /\ Good(t) /\ t.mode = "command" /\ t \in States /\ d \in Ids \cup {null}
  BY <1>8 DEF Commanded, States
<1>10. StrayIs(t, TRUE) \in Commanded
  BY <1>8, StrayCommanded
<1>11. ASSUME d # null PROVE NextIs(Delete(t, d), null) \in Commanded
  <2>1. d \in Ids
    BY <1>9, <1>11
  <2>2. Good(Delete(t, d)) /\ Delete(t, d).mode = "command"
    BY <1>9, <2>1, DeleteKeeps DEF Good, Sound, Same
  <2>3. Delete(t, d) \in Commanded
    BY <2>2 DEF Commanded, Good, Sound
  <2> QED
    BY <2>3, NextStays
<1>12. tNext \in Commanded
  BY <1>8, <1>9, AfterListed, NextStays
<1> HIDE DEF sNext, tNext, c, d, read
<1> QED
  BY <1>2, <1>3, <1>5, <1>6, <1>7, <1>10, <1>11, <1>12

\* sendNextPacket leaves its cursor on the list.
LEMMA SendKeeps ==
  ASSUME NEW s \in Commanded PROVE SendNextPacket(s) \in Commanded
<1> DEFINE next  == IF s.nextConn = null THEN null ELSE After(s, s.nextConn)
           start == IF next = null THEN First(s) ELSE next
           first == IF next = null THEN null ELSE s.nextConn
           begin == [m |-> NextIs(s, start), first |-> first, done |-> start = null]
           k == MaxId * (MaxId + 1)
           f == [n \in 1 .. k |-> [w \in Senders |-> SendTurn(w)]]
           IsWalk(w) == w = [n \in 0 .. k |-> IF n = 0 THEN begin ELSE SendTurn(w[n - 1])]
<1>1. SendNextPacket(s) = IF s.nextConn \notin s.conns \cup {null}
                            THEN StrayIs(s, TRUE)
                            ELSE (CHOOSE w : IsWalk(w))[k].m
  BY DEF SendNextPacket, StrayIs, NextIs
<1>2. begin \in Senders
  <2>1. s \in States /\ s.nextConn \in Ids \cup {null}
    BY DEF Commanded, States
  <2>2. start \in s.conns \cup {null}
    BY <2>1, FirstListed, AfterListed
  <2>3. first \in Ids \cup {null}
    BY <2>1
  <2> HIDE DEF start, first
  <2> QED
    BY <2>2, <2>3, NextStays DEF Senders
<1>3. k \in Nat
  <2>1. \A i \in Nat : i * (i + 1) \in Nat
    OBVIOUS
  <2> QED
    BY <2>1, IdsNumbers
<1> HIDE DEF begin, k
<1>4. f \in Steps(Senders, k)
  BY SendTurnStays DEF Steps
<1>5. PICK g \in Walks(Senders, k, f, begin) : TRUE
  <2> HIDE DEF f
  <2> QED
    BY <1>2, <1>3, <1>4, WalkExists
<1>6. IsWalk(g)
  <2>1. /\ g \in [0 .. k -> Senders] /\ g[0] = begin
        /\ \A n \in 1 .. k : g[n] = f[n][g[n - 1]]
    BY <1>5 DEF Walks
  <2>2. \A n \in 1 .. k : g[n - 1] \in Senders
    <3>1. \A n \in 1 .. k : n - 1 \in 0 .. k
      BY <1>3
    <3> HIDE DEF f
    <3> QED
      BY <2>1, <3>1
  <2>3. \A n \in 1 .. k : f[n][g[n - 1]] = SendTurn(g[n - 1])
    BY <2>2
  <2> HIDE DEF f
  <2>4. \A n \in 0 .. k : g[n] = IF n = 0 THEN begin ELSE SendTurn(g[n - 1])
    BY <2>1, <2>3
  <2> QED
    BY <2>1, <2>4
<1> DEFINE turn == CHOOSE w : IsWalk(w)
<1>7. IsWalk(turn)
  BY <1>6
<1>8. SendNextPacket(s) = IF s.nextConn \notin s.conns \cup {null}
                            THEN StrayIs(s, TRUE) ELSE turn[k].m
  BY <1>1
<1> HIDE DEF turn
<1>9. turn[k] \in Senders
  <2>1. turn[0] = begin /\ \A n \in 1 .. k : turn[n] = SendTurn(turn[n - 1])
    BY <1>3, <1>7
  <2>2. \A n \in 1 .. k : turn[n - 1] \in Senders => turn[n] \in Senders
    BY <2>1, SendTurnStays
  <2> QED
    BY <1>2, <1>3, <2>1, <2>2, WalkStays
<1>10. turn[k].m \in Commanded
  BY <1>9 DEF Senders
<1> QED
  BY <1>8, <1>10, StrayCommanded

-----------------------------------------------------------------------------
(* A turn of the loop in command mode.                                     *)

\* +++ in command mode.
LEMMA PlusKeeps ==
  ASSUME NEW s, Good(s), s.mode = "command"
  PROVE  Good(PlusPlusPlus(s)) /\ PlusPlusPlus(s).mode = "command"
<1>1. CASE s.current = null
  BY <1>1 DEF PlusPlusPlus
<1>2. CASE s.current # null
  <2> DEFINE c == s.current
             said == SayNoCarrier(s, c)
             t == Delete(said, c)
  <2>1. s \in States /\ c \in Ids
    BY <1>2 DEF Good, Sound, States
  <2>2. PlusPlusPlus(s) = PointAt(t, First(t), First(t))
    BY <1>2 DEF PlusPlusPlus, PointAt
  <2> HIDE DEF c
  <2>3. Good(said) /\ said.mode = "command"
    <3>1. Alike(s, said)
      BY <2>1, Talk
    <3> QED
      BY <3>1, AlikeSound DEF Alike
  <2> HIDE DEF said
  <2>4. Good(t) /\ t.mode = "command"
    BY <2>1, <2>3, DeleteKeeps DEF Good, Sound, Same
  <2> HIDE DEF t
  <2>5. t \in States /\ ListOK(t) /\ RateOK(t) /\ CarrierOK(t)
    BY <2>4 DEF Good, Sound
  <2>6. First(t) \in t.conns \cup {null}
    BY <2>5, FirstListed
  <2> QED
    BY <2>2, <2>4, <2>5, <2>6, PointKeeps DEF Same
<1> QED
  BY <1>1, <1>2

\* A turn of the loop ends with the change of rate that was pending.
LEMMA BaudTurned ==
  ASSUME NEW s, Good(s), Streamed(s) PROVE Turned(CheckBaudChange(s))
<1>1. s \in States
  BY DEF Good, Sound
<1> QED
  BY <1>1, BaudChangeKeeps DEF Turned, Streamed, SameCalls, Same

\* A turn of the loop of command mode.
LEMMA CommandLoopKeeps ==
  ASSUME NEW s, Good(s), s.mode = "command", NEW escape \in BOOLEAN, NEW send \in BOOLEAN
  PROVE  Turned(CommandLoop(s, escape, send))
<1> DEFINE p == IF escape THEN PlusPlusPlus(s) ELSE s
           t == AcceptNewConnection(p)
           u == IF send THEN SendNextPacket(t) ELSE t
<1>1. Good(p) /\ p.mode = "command"
  BY PlusKeeps
<1>2. CommandLoop(s, escape, send) = IF t.stray \/ t.mode # "command"
                                       THEN CheckBaudChange(t) ELSE CheckBaudChange(u)
  BY DEF CommandLoop
<1> HIDE DEF p
<1>3. Good(t) /\ Streamed(t)
  BY <1>1, AcceptKeeps, HeardStreamed
<1> HIDE DEF t
<1>4. t.mode = "command" => Good(u) /\ Streamed(u)
  <2>1. t.mode = "command" => t \in Commanded
    BY <1>3 DEF Commanded, Good, Sound
  <2> QED
    BY <1>3, <2>1, SendKeeps DEF Commanded, Streamed
<1> HIDE DEF u
<1> QED
  BY <1>2, <1>3, <1>4, BaudTurned

\* The ghost blip may end when the rate fits the carrier.
LEMMA SettleKeeps ==
  ASSUME NEW s, Turned(s)
  PROVE  /\ Settle(s) \in States /\ Streamed(Settle(s))
         /\ ~Settle(s).stray => Good(Settle(s)) /\ RateSettled(Settle(s))
<1> DEFINE b == s.blip /\ (s.uart = "temp") # s.dcd
           t == [s EXCEPT !.blip = b]
<1>1. s \in States
  BY DEF Turned
<1>2. b \in BOOLEAN
  BY <1>1 DEF States
<1>3. Settle(s) = t
  BY DEF Settle
<1>4. b <=> s.blip /\ ~(s.uart = "temp" <=> s.dcd)
  BY <1>1 DEF States
<1> HIDE DEF b
<1>5. t \in States
  BY <1>1, <1>2 DEF States
<1>6. /\ t.answered = s.answered /\ t.rings = s.rings /\ t.conns = s.conns
      /\ t.due = s.due /\ t.current = s.current /\ t.nextConn = s.nextConn
      /\ t.dcd = s.dcd /\ t.uart = s.uart /\ t.baudState = s.baudState
      /\ t.blip = b /\ t.marked = s.marked /\ t.mode = s.mode
      /\ t.stream = s.stream /\ t.lastId = s.lastId /\ t.pending = s.pending
      /\ t.stray = s.stray
  BY <1>1 DEF States
<1> HIDE DEF t
<1>7. Streamed(t)
  BY <1>6 DEF Turned, Streamed
<1>8. ASSUME ~s.stray PROVE Good(t) /\ RateSettled(t)
  <2>1. Good(s) /\ RateSettled(s)
    BY <1>8 DEF Turned
  <2>2. ListOK(t) /\ PointersOK(t) /\ CarrierOK(t) /\ RateSettled(t)
    BY <1>6, <2>1 DEF Good, Sound, ListOK, PointersOK, CarrierOK, RateSettled
  <2>3. RateOK(t)
    <3>1. RateOK(s)
      BY <2>1 DEF Good, Sound
    <3>2. CASE s.baudState = "NORMAL"
      BY <1>4, <1>6, <3>1, <3>2 DEF RateOK
    <3>3. CASE s.baudState = "SWITCHED_TEMP"
      BY <1>4, <1>6, <3>1, <3>3 DEF RateOK
    <3> QED
      BY <2>1, <3>2, <3>3 DEF RateSettled
  <2> QED
    BY <1>5, <2>2, <2>3 DEF Good, Sound
<1> QED
  BY <1>3, <1>5, <1>6, <1>7, <1>8

-----------------------------------------------------------------------------
(* The network, the clock and the terminal.                                *)

\* What a step that handles nothing keeps.
Kept(s, t) ==
    /\ t \in States /\ Good(t) /\ (Streamed(s) => Streamed(t))
    /\ t.stray = s.stray /\ t.baudState = s.baudState

\* A step that changes only free fields.
LEMMA AlikeKept ==
  ASSUME NEW s, Good(s), NEW t, Alike(s, t) PROVE Kept(s, t)
BY AlikeSound DEF Alike, Kept

\* A caller calls, or gives up.
LEMMA PendingKept ==
  ASSUME NEW s, Good(s), NEW b \in BOOLEAN, b => s.lastId < MaxId
  PROVE  Kept(s, [s EXCEPT !.pending = b])
<1> DEFINE t == [s EXCEPT !.pending = b]
<1>1. s \in States
  BY DEF Good, Sound
<1>2. t \in States
  BY <1>1 DEF States
<1>3. /\ t.answered = s.answered /\ t.rings = s.rings /\ t.conns = s.conns
      /\ t.due = s.due /\ t.current = s.current /\ t.nextConn = s.nextConn
      /\ t.dcd = s.dcd /\ t.uart = s.uart /\ t.baudState = s.baudState
      /\ t.blip = s.blip /\ t.marked = s.marked /\ t.mode = s.mode
      /\ t.stream = s.stream /\ t.lastId = s.lastId /\ t.pending = b
      /\ t.stray = s.stray
  BY <1>1 DEF States
<1> HIDE DEF t
<1>4. Good(t) /\ (Streamed(s) => Streamed(t))
  BY <1>2, <1>3 DEF Good, Sound, ListOK, PointersOK, RateOK, CarrierOK, Streamed
<1> QED
  BY <1>2, <1>3, <1>4 DEF Kept, t

\* A remote host hangs up.
LEMMA UpKept ==
  ASSUME NEW s, Good(s), NEW v \in SUBSET Ids PROVE Kept(s, [s EXCEPT !.up = v])
<1> DEFINE t == [s EXCEPT !.up = v]
<1>1. s \in States
  BY DEF Good, Sound
<1>2. t \in States
  BY <1>1 DEF States
<1>3. /\ t.answered = s.answered /\ t.rings = s.rings /\ t.conns = s.conns
      /\ t.due = s.due /\ t.current = s.current /\ t.nextConn = s.nextConn
      /\ t.dcd = s.dcd /\ t.uart = s.uart /\ t.baudState = s.baudState
      /\ t.blip = s.blip /\ t.marked = s.marked /\ t.mode = s.mode
      /\ t.stream = s.stream /\ t.lastId = s.lastId /\ t.pending = s.pending
      /\ t.stray = s.stray
  BY <1>1 DEF States
<1> HIDE DEF t
<1>4. Good(t) /\ (Streamed(s) => Streamed(t))
  BY <1>2, <1>3 DEF Good, Sound, ListOK, PointersOK, RateOK, CarrierOK, Streamed
<1> QED
  BY <1>2, <1>3, <1>4 DEF Kept, t

\* The time of a marked call comes.
LEMMA DueKept ==
  ASSUME NEW s, Good(s), NEW v \in SUBSET s.conns PROVE Kept(s, [s EXCEPT !.due = v])
<1> DEFINE t == [s EXCEPT !.due = v]
<1>1. s \in States /\ v \in SUBSET Ids
  BY DEF Good, Sound, States
<1>2. t \in States
  BY <1>1 DEF States
<1>3. /\ t.answered = s.answered /\ t.rings = s.rings /\ t.conns = s.conns
      /\ t.due = v /\ t.current = s.current /\ t.nextConn = s.nextConn
      /\ t.dcd = s.dcd /\ t.uart = s.uart /\ t.baudState = s.baudState
      /\ t.blip = s.blip /\ t.marked = s.marked /\ t.mode = s.mode
      /\ t.stream = s.stream /\ t.lastId = s.lastId /\ t.pending = s.pending
      /\ t.stray = s.stray
  BY <1>1 DEF States
<1> HIDE DEF t
<1>4. Good(t) /\ (Streamed(s) => Streamed(t))
  BY <1>2, <1>3 DEF Good, Sound, ListOK, PointersOK, RateOK, CarrierOK, Streamed
<1> QED
  BY <1>2, <1>3, <1>4 DEF Kept, t

-----------------------------------------------------------------------------
(* The specification.                                                      *)

\* Nothing is connected at the start.
LEMMA InitInv == Init => IInv
<1> SUFFICES ASSUME Init PROVE IInv
  OBVIOUS
<1>1. /\ m.conns = {} /\ m.up = {} /\ m.answered = {} /\ m.due = {} /\ m.marked = {}
      /\ m.lastId = 0 /\ m.current = null /\ m.nextConn = null /\ m.mode = "command"
      /\ ~m.pending /\ ~m.dcd /\ m.baudState = "NORMAL" /\ m.uart = "normal"
      /\ pc = "idle"
  BY DEF Init
<1>2. m \in States
  <2>1. [c \in Ids |-> 0] \in [Ids -> Nat] /\ 0 \in 0 .. MaxId /\ null \in Ids \cup {null}
    BY IdsNumbers
  <2>2. AutoAnswer \in Nat /\ "NORMAL" \in BaudStates /\ null = 0
    BY RingsAssumption DEF BaudStates, null
  <2> QED
    BY <2>1, <2>2 DEF Init, States
<1>3. Good(m) /\ RateSettled(m) /\ Streamed(m)
  BY <1>1, <1>2
     DEF Good, Sound, ListOK, PointersOK, RateOK, CarrierOK, RateSettled, Streamed
<1> QED
  BY <1>1, <1>2, <1>3 DEF IInv

\* The network, the clock and the terminal keep the invariant if their step does.
LEMMA WorldInv ==
  ASSUME NEW t, IInv, World(t), Good(m) => Kept(m, t) PROVE IInv'
<1>1. /\ m' = t /\ pc' = pc /\ Kept(m, t) /\ Streamed(m) /\ pc \in {"idle", "loop"}
      /\ (pc = "idle" => RateSettled(m))
  BY DEF World, IInv
<1>2. t \in States /\ Good(t) /\ Streamed(t) /\ (RateSettled(m) => RateSettled(t))
  BY <1>1 DEF Kept, RateSettled
<1>3. m' \in States /\ Good(m') /\ Streamed(m') /\ (pc' = "idle" => RateSettled(m'))
      /\ pc' \in {"idle", "loop"}
  BY <1>1, <1>2
<1>4. Good(m)' /\ Streamed(m)' /\ (pc' = "idle" => RateSettled(m)')
  BY <1>3 DEF Good, Sound, ListOK, PointersOK, RateOK, CarrierOK, Streamed, RateSettled
<1> QED
  BY <1>3, <1>4 DEF IInv

\* A turn of the loop keeps the invariant.
LEMMA LoopInv == IInv /\ Loop => IInv'
<1> SUFFICES ASSUME IInv, Loop PROVE IInv'
  OBVIOUS
<1>1. PICK s : Turned(s) /\ m' = Settle(s) /\ pc' = "idle"
  <2>1. CASE \E escape, send \in BOOLEAN : LoopInCommandMode(escape, send)
    <3>1. PICK escape \in BOOLEAN, send \in BOOLEAN : LoopInCommandMode(escape, send)
      BY <2>1
    <3>2. /\ Good(m) /\ m.mode = "command" /\ pc' = "idle"
          /\ m' = Settle(CommandLoop(m, escape, send))
      BY <3>1 DEF LoopInCommandMode, IInv
    <3> QED
      BY <3>2, CommandLoopKeeps
  <2>2. CASE \E escape \in BOOLEAN : LoopInStreamMode(escape)
    <3>1. PICK escape \in BOOLEAN : LoopInStreamMode(escape)
      BY <2>2
    <3>2. /\ Good(m) /\ Streamed(m) /\ pc' = "idle"
          /\ m' = Settle(StreamLoop(m, escape))
      BY <3>1 DEF LoopInStreamMode, IInv
    <3> QED
      BY <3>2, StreamLoopKeeps
  <2> QED
    BY <2>1, <2>2 DEF Loop
<1>2. /\ m' \in States /\ Streamed(m') /\ (~m'.stray => Good(m') /\ RateSettled(m'))
  BY <1>1, SettleKeeps
<1>3. Streamed(m)' /\ (~m'.stray => Good(m)' /\ RateSettled(m)')
  BY <1>2 DEF Good, Sound, ListOK, PointersOK, RateOK, CarrierOK, Streamed, RateSettled
<1> QED
  BY <1>1, <1>2, <1>3 DEF IInv

\* A command that is obeyed keeps it.
LEMMA ObeyedInv ==
  ASSUME NEW t, Obeyed(t), m' = t, pc' = "loop" PROVE IInv'
<1>1. m' \in States /\ Good(m') /\ Streamed(m')
  BY DEF Obeyed, Good, Sound
<1>2. Good(m)' /\ Streamed(m)'
  BY <1>1 DEF Good, Sound, ListOK, PointersOK, RateOK, CarrierOK, Streamed
<1> QED
  BY <1>1, <1>2 DEF IInv

\* Commands and the line DTR keep it.
LEMMA TerminalInv == IInv /\ Terminal => IInv'
<1> SUFFICES ASSUME IInv, Terminal PROVE IInv'
  OBVIOUS
<1>1. CASE NoCommand
  BY <1>1 DEF NoCommand, IInv, Good, Sound, ListOK, PointersOK, RateOK, CarrierOK,
              Streamed, RateSettled
<1>2. ASSUME NEW command \in Commands, Command(command) PROVE IInv'
  <2>1. /\ Good(m) /\ m.mode = "command" /\ m' \in Execute(m, command) /\ pc' = "loop"
    BY <1>2 DEF Command, IInv
  <2>2. Obeyed(m')
    BY <2>1, ExecuteKeeps
  <2> QED
    BY <2>1, <2>2, ObeyedInv
<1>3. ASSUME NEW stream \in BOOLEAN, NEW outcome \in {"refused", "dropped", "connected"},
             DialCommand(stream, outcome)
      PROVE  IInv'
  <2>1. /\ Good(m) /\ m.mode = "command" /\ pc' = "loop"
        /\ m.lastId + (IF m.pending THEN 1 ELSE 0) < MaxId
        /\ m' = Dial(m, stream, outcome)
    BY <1>3 DEF DialCommand, IInv
  <2>2. Obeyed(m')
    BY <2>1, DialKeeps DEF Obeyed
  <2> QED
    BY <2>1, <2>2, ObeyedInv
<1>4. ASSUME NEW b \in BOOLEAN, World([m EXCEPT !.dtr = b]) PROVE IInv'
  <2> DEFINE t == [m EXCEPT !.dtr = b]
  <2>1. Good(m) => Kept(m, t)
    <3>1. m \in States => Alike(m, t)
      BY FreeFields
    <3> HIDE DEF t
    <3> QED
      BY <3>1, AlikeKept DEF Good, Sound
  <2>2. World(t)
    BY <1>4
  <2> HIDE DEF t
  <2> QED
    BY <2>1, <2>2, WorldInv
<1> QED
  BY <1>1, <1>2, <1>3, <1>4 DEF Terminal, DropDTR, RaiseDTR

\* Callers and remote hosts keep it.
LEMMA NetworkInv == IInv /\ Network => IInv'
<1> SUFFICES ASSUME IInv, Network PROVE IInv'
  OBVIOUS
<1>1. ASSUME NEW b \in BOOLEAN, b => m.lastId < MaxId, World([m EXCEPT !.pending = b])
      PROVE  IInv'
  <2> DEFINE t == [m EXCEPT !.pending = b]
  <2>1. Good(m) => Kept(m, t)
    BY <1>1, PendingKept
  <2>2. World(t)
    BY <1>1
  <2> HIDE DEF t
  <2> QED
    BY <2>1, <2>2, WorldInv
<1>2. ASSUME NEW c \in Ids, RemoteHangsUp(c) PROVE IInv'
  <2> DEFINE v == m.up \ {c}
             t == [m EXCEPT !.up = v]
  <2>1. v \in SUBSET Ids
    BY DEF IInv, States
  <2>2. World(t)
    BY <1>2 DEF RemoteHangsUp
  <2> HIDE DEF v
  <2>3. Good(m) => Kept(m, t)
    BY <2>1, UpKept
  <2> HIDE DEF t
  <2> QED
    BY <2>2, <2>3, WorldInv
<1>3. ASSUME NEW c \in Ids, RemoteSends(c) PROVE IInv'
  <2> DEFINE v == m.unread \cup {c}
             t == [m EXCEPT !.unread = v]
  <2>1. v \in SUBSET Ids /\ m \in States
    BY DEF IInv, States
  <2>2. World(t)
    BY <1>3 DEF RemoteSends
  <2> HIDE DEF v
  <2>3. Alike(m, t)
    BY <2>1, FreeFields
  <2> HIDE DEF t
  <2> QED
    BY <2>2, <2>3, AlikeKept, WorldInv
<1>4. CASE CallerCalls
  BY <1>1, <1>4 DEF CallerCalls
<1>5. CASE CallerGivesUp
  BY <1>1, <1>5 DEF CallerGivesUp
<1> QED
  BY <1>2, <1>3, <1>4, <1>5 DEF Network

\* Time keeps it.
LEMMA ClockInv == IInv /\ Clock => IInv'
<1> SUFFICES ASSUME IInv, Clock PROVE IInv'
  OBVIOUS
<1>1. CASE AlarmTime
  <2> DEFINE t == [m EXCEPT !.alarm = "due"]
  <2>1. World(t)
    BY <1>1 DEF AlarmTime
  <2>2. Alike(m, t)
    BY FreeFields DEF IInv
  <2> HIDE DEF t
  <2> QED
    BY <2>1, <2>2, AlikeKept, WorldInv
<1>2. CASE OutputSent
  <2> DEFINE t == [m EXCEPT !.out = FALSE]
  <2>1. World(t)
    BY <1>2 DEF OutputSent
  <2>2. Alike(m, t)
    BY FreeFields DEF IInv
  <2> HIDE DEF t
  <2> QED
    BY <2>1, <2>2, AlikeKept, WorldInv
<1>3. ASSUME NEW c \in Ids, DisconnectTime(c) PROVE IInv'
  <2> DEFINE v == m.due \cup {c}
             t == [m EXCEPT !.due = v]
  <2>1. Good(m) => v \in SUBSET m.conns
    BY <1>3 DEF DisconnectTime, Good, Sound, ListOK
  <2>2. World(t)
    BY <1>3 DEF DisconnectTime
  <2> HIDE DEF v
  <2>3. Good(m) => Kept(m, t)
    BY <2>1, DueKept
  <2> HIDE DEF t
  <2> QED
    BY <2>2, <2>3, WorldInv
<1>4. ASSUME NEW c \in Ids, RingTime(c) PROVE IInv'
  <2> DEFINE v == m.ringDue \cup {c}
             t == [m EXCEPT !.ringDue = v]
  <2>1. v \in SUBSET Ids /\ m \in States
    BY DEF IInv, States
  <2>2. World(t)
    BY <1>4 DEF RingTime
  <2> HIDE DEF v
  <2>3. Alike(m, t)
    BY <2>1, FreeFields
  <2> HIDE DEF t
  <2> QED
    BY <2>2, <2>3, AlikeKept, WorldInv
<1> QED
  BY <1>1, <1>2, <1>3, <1>4 DEF Clock

\* The invariant holds.
THEOREM Inductive == Spec => []IInv
<1>1. IInv /\ UNCHANGED vars => IInv'
  BY DEF vars, IInv, Good, Sound, ListOK, PointersOK, RateOK, CarrierOK, Streamed,
         RateSettled
<1>2. IInv /\ Next => IInv'
  BY LoopInv, TerminalInv, NetworkInv, ClockInv DEF Next
<1> QED
  BY InitInv, <1>1, <1>2, PTL DEF Spec

\* Every field of the state has its type: no command, caller or deletion uses
\* up the ids, counts rings below 0, or leaves the states of the rate.
THEOREM Typed == Spec => []TypeOK
<1>1. IInv => TypeOK
  <2> SUFFICES ASSUME IInv PROVE TypeOK
    OBVIOUS
  <2>1. m \in States /\ pc \in {"idle", "loop"}
    BY DEF IInv
  <2> QED
    BY <2>1 DEF TypeOK, States, BaudStates
<1> QED
  BY <1>1, Inductive, PTL

\* Command mode holds no pointer to a deleted connection (~WiFiClientNode
\* moves current and nextConn to the head of the list).
THEOREM CommandPointers == Spec => []PointersListed
<1>1. IInv => PointersListed
  BY DEF IInv, Good, Sound, PointersOK, PointersListed
<1> QED
  BY <1>1, Inductive, PTL

\* Only a call that was marked for disconnection is deleted while stream mode
\* has it: no command, walk or destructor deletes another one behind its back.
THEOREM StreamedCall == Spec => []StreamListed
<1>1. IInv => StreamListed
  BY DEF IInv, Streamed, StreamListed
<1> QED
  BY <1>1, Inductive, PTL

\* Carrier detect is off when the last connection has left the list, whichever
\* handler deleted it (checkOpenConnections, from the destructor).
THEOREM CarrierEnds == Spec => []NoCarrierAlone
<1>1. IInv => NoCarrierAlone
  BY DEF IInv, Good, CarrierOK, NoCarrierAlone
<1> QED
  BY <1>1, Inductive, PTL

\* Between two polls the rate of the UART is the one S43 gives for the carrier,
\* unless the carrier changed while a change of rate was pending.
THEOREM RateFits == Spec => []BaudFollowsCarrier
<1>1. IInv => BaudFollowsCarrier
  <2> SUFFICES ASSUME IInv, TempBaud, pc = "idle", ~m.stray
               PROVE  m.blip \/ (m.uart = "temp") = m.dcd
    BY DEF BaudFollowsCarrier
  <2>1. /\ m \in States /\ RateSettled(m) /\ RateOK(m)
    BY DEF IInv, Good, Sound
  <2>2. m.dcd \in BOOLEAN
    BY <2>1 DEF States
  <2>3. CASE m.baudState = "NORMAL"
    BY <2>1, <2>2, <2>3 DEF RateOK
  <2>4. CASE m.baudState = "SWITCHED_TEMP"
    BY <2>1, <2>2, <2>4 DEF RateOK
  <2> QED
    BY <2>1, <2>3, <2>4 DEF RateSettled
<1> QED
  BY <1>1, Inductive, PTL
=============================================================================
