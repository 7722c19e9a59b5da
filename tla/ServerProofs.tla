---------------------------- MODULE ServerProofs ----------------------------
(***************************************************************************)
(* What holds of the server's master for any number of connections, users, *)
(* addresses and descriptors, whatever clients, games and the kernel do.   *)
(***************************************************************************)
EXTENDS Server, FiniteSetTheorems, WellFoundedInduction, TLAPS

Fields ==
  {"file", "watched", "ready", "batch", "backlog", "map", "alive", "client", "connected",
   "disconnected", "count", "connection_id", "termination_flag", "up", "quit", "check", "sigterm",
   "shut"}
ClientFields ==
  {"state", "pid", "userid", "connid", "sock", "pipe_out", "pipe_in", "unsent"}

(* s is a master: only as much of the types as the rest needs. *)
Shape(s) ==
  /\ DOMAIN s = Fields
  /\ DOMAIN s.file = Fd /\ DOMAIN s.map = Fd
  /\ DOMAIN s.client = Addr /\ \A a \in Addr : DOMAIN s.client[a] = ClientFields
  /\ s.alive \subseteq Addr
  /\ s.connected \in Seq(Addr) /\ s.disconnected \in Seq(Addr)
  /\ s.connection_id \in Nat \ {0} /\ s.up \in BOOLEAN

Entries(list) == {list[i] : i \in DOMAIN list}
Once(list) == \A i, j \in DOMAIN list : list[i] = list[j] => i = j

Lists(s) ==
  /\ s.count = Len(s.connected) + Len(s.disconnected)
  /\ Once(s.connected) /\ Once(s.disconnected)
  /\ Entries(s.connected) \cup Entries(s.disconnected) = s.alive
  /\ Entries(s.connected) \cap Entries(s.disconnected) = {}

(* What client data says of descriptors. *)
Owns(s, a) ==
  LET c == s.client[a] IN
  /\ {c.sock, c.pipe_out, c.pipe_in} \subseteq Fd \cup {NoFd}
  /\ \A f \in OpenFds(c) : s.map[f] = a /\ f \in s.watched
  /\ c.sock # NoFd => s.file[c.sock].t = "sock" /\ User[s.file[c.sock].who] = c.userid
  /\ c.pipe_in # NoFd => s.file[c.pipe_in] = In(c.pid)
  /\ c.pipe_out # NoFd => s.file[c.pipe_out] = Out(c.pid)

(* And of the game, which has both pipes or none. *)
Plays(s, a) ==
  LET c == s.client[a] IN
  /\ c.pid \in Pid /\ c.pid < s.connection_id
  /\ c.pipe_in = NoFd <=> c.pipe_out = NoFd

Whole(s, a) ==
  LET c == s.client[a] IN c.sock = NoFd /\ c.pipe_in # NoFd /\ c.pipe_out # NoFd /\ c.unsent = None

Placed(s, a) ==
  /\ s.client[a].state = "connected" <=> a \in Entries(s.connected)
  /\ a \in Entries(s.disconnected) => Whole(s, a)

Fine(s, a) == Owns(s, a) /\ Plays(s, a) /\ Placed(s, a)

(* Each game belongs to one client at most. *)
Apart(s, A) == \A a, b \in A : s.client[a].pid = s.client[b].pid => a = b

(* No pipe to a game is open that no client has. *)
Piped(s) ==
  \A f \in Fd, p \in Pid : s.file[f] = Out(p) => \E a \in s.alive : s.client[a].pipe_out = f

MasterOK(s) ==
  /\ Shape(s) /\ Lists(s) /\ Piped(s) /\ Apart(s, s.alive)
  /\ \A a \in s.alive : Fine(s, a)

(* A handler is busy with client a: all is well but for him. *)
OkBut(s, a) ==
  /\ Shape(s) /\ Lists(s) /\ Piped(s) /\ Apart(s, s.alive \ {a})
  /\ a \in s.alive
  /\ {s.client[a].sock, s.client[a].pipe_out, s.client[a].pipe_in} \subseteq Fd \cup {NoFd}
  /\ \A b \in s.alive \ {a} :
       Fine(s, b) /\ OpenFds(s.client[b]) \cap OpenFds(s.client[a]) = {}

(* No client has descriptor f. *)
Spare(s, f) == f \in Fd /\ \A a \in s.alive : f \notin OpenFds(s.client[a])

(* A game runs on only for a client, or was told to end, or cannot but. *)
Reached(s, p) ==
  \/ \E a \in s.alive : s.client[a].pid = p
  \/ p \in s.sigterm
  \/ \A f \in Fd : s.file[f] # Out(p)

Reaching(s, t) == \A p \in Pid : Reached(s, p) => Reached(t, p)

ServerInv ==
  /\ MasterOK(m)
  /\ game \in [Pid -> {"none", "running", "exiting", "dead"}]
  /\ \A p \in Pid : game[p] = "running" => Reached(m, p)

-----------------------------------------------------------------------------
(* What does not matter.                                                   *)

LEMMA Numbers ==
  /\ \A f \in Fd : f # NoFd
  /\ Cardinality(Conn) \in Nat /\ NoPid \notin Pid /\ ErrPid \notin Pid
<1>1. Cardinality(Conn) \in Nat /\ NFds \in Nat
  BY ServerAssumption, FS_CardinalityType
<1> QED
  BY <1>1 DEF Fd, NoFd, Pid, NoPid, ErrPid

LEMMA Alike ==
  ASSUME NEW s, NEW t, DOMAIN t = Fields,
         t.file = s.file, t.map = s.map, t.watched = s.watched, t.alive = s.alive,
         t.client = s.client, t.connected = s.connected, t.disconnected = s.disconnected,
         t.count = s.count, t.connection_id = s.connection_id, t.up \in BOOLEAN
  PROVE  /\ MasterOK(s) => MasterOK(t)
         /\ \A a : OkBut(s, a) => OkBut(t, a)
<1>1. /\ Shape(s) => Shape(t)
      /\ Lists(s) => Lists(t)
      /\ Piped(s) => Piped(t)
      /\ \A A : Apart(s, A) => Apart(t, A)
  BY DEF Shape, Lists, Piped, Apart
<1>2. \A a : Fine(s, a) => Fine(t, a)
  BY DEF Fine, Owns, Plays, Placed, Whole
<1> QED
  BY <1>1, <1>2 DEF MasterOK, OkBut

LEMMA StillReached ==
  ASSUME NEW s, NEW t, t.sigterm = s.sigterm, t.alive = s.alive, t.client = s.client,
         t.file = s.file
  PROVE  Reaching(s, t)
BY DEF Reaching, Reached

LEMMA BusyWith ==
  ASSUME NEW s, MasterOK(s), NEW a \in s.alive
  PROVE  OkBut(s, a)
<1>1. \A b \in s.alive \ {a} : OpenFds(s.client[b]) \cap OpenFds(s.client[a]) = {}
  BY DEF MasterOK, Fine, Owns
<1> QED
  BY <1>1 DEF MasterOK, OkBut, Apart, Fine, Owns

LEMMA DoneWith ==
  ASSUME NEW s, NEW a, OkBut(s, a), Fine(s, a),
         \A b \in s.alive \ {a} : s.client[b].pid # s.client[a].pid
  PROVE  MasterOK(s)
BY DEF MasterOK, OkBut, Apart

LEMMA NotifyKeeps ==
  ASSUME NEW s, DOMAIN s = Fields, NEW F
  PROVE  LET t == Notify(s, F) IN
         /\ DOMAIN t = Fields /\ t.file = s.file /\ t.map = s.map /\ t.watched = s.watched
         /\ t.alive = s.alive /\ t.client = s.client /\ t.connected = s.connected
         /\ t.disconnected = s.disconnected /\ t.count = s.count
         /\ t.connection_id = s.connection_id /\ t.up = s.up /\ t.sigterm = s.sigterm
         /\ t.shut = s.shut
BY DEF Notify, Fields

LEMMA CloseFdsKeeps ==
  ASSUME NEW s, Shape(s), NEW F
  PROVE  LET t == CloseFds(s, F) IN
         /\ DOMAIN t = Fields /\ DOMAIN t.file = Fd
         /\ \A f \in Fd : t.file[f] = IF f \in F THEN Closed ELSE s.file[f]
         /\ t.watched = s.watched \ F
         /\ t.map = s.map /\ t.alive = s.alive /\ t.client = s.client
         /\ t.connected = s.connected /\ t.disconnected = s.disconnected /\ t.count = s.count
         /\ t.connection_id = s.connection_id /\ t.up = s.up /\ t.sigterm = s.sigterm
BY DEF CloseFds, Fields, Shape

-----------------------------------------------------------------------------
(* Lists of clients.                                                       *)

LEMMA Least ==
  ASSUME NEW T, T \subseteq Nat, T # {}
  PROVE  \E x \in T : \A y \in T : x <= y
<1>1. PICK x \in T : \A y \in T : ~(<<y, x>> \in OpToRel(<, Nat))
  BY NatLessThanWellFounded, WFMin
<1>2. \A y \in T : x <= y
  <2> TAKE y \in T
  <2>1. ~(y < x)
    BY <1>1 DEF OpToRel
  <2> QED
    BY <2>1
<1> QED
  BY <1>2

LEMMA MinOf ==
  ASSUME NEW T, T \subseteq Nat, T # {}
  PROVE  Min(T) \in T
BY Least DEF Min

LEMMA Joined ==
  ASSUME NEW S, NEW u \in Seq(S), NEW v \in Seq(S)
  PROVE  /\ u \o v \in Seq(S) /\ Len(u \o v) = Len(u) + Len(v)
         /\ \A i \in 1 .. Len(u) + Len(v) : (u \o v)[i] = IF i <= Len(u) THEN u[i] ELSE v[i - Len(u)]
OBVIOUS

LEMMA TakeOut ==
  ASSUME NEW S, NEW l \in Seq(S), NEW k \in 1 .. Len(l)
  PROVE  LET t == RemoveAt(l, k) IN
         /\ t \in Seq(S) /\ Len(t) = Len(l) - 1
         /\ \A i \in 1 .. Len(t) : t[i] = IF i < k THEN l[i] ELSE l[i + 1]
<1> DEFINE u == SubSeq(l, 1, k - 1)
           v == SubSeq(l, k + 1, Len(l))
<1>1. Len(l) \in Nat
  OBVIOUS
<1>2. u \in Seq(S) /\ Len(u) = k - 1 /\ \A i \in 1 .. k - 1 : u[i] = l[i]
  BY <1>1
<1>3. v \in Seq(S) /\ Len(v) = Len(l) - k /\ \A i \in 1 .. Len(l) - k : v[i] = l[k + i]
  BY <1>1
<1> HIDE DEF u
<1> HIDE DEF v
<1>4. /\ u \o v \in Seq(S) /\ Len(u \o v) = Len(u) + Len(v)
      /\ \A i \in 1 .. Len(u) + Len(v) : (u \o v)[i] = IF i <= Len(u) THEN u[i] ELSE v[i - Len(u)]
  BY ONLY <1>2, <1>3, Joined
<1>5. RemoveAt(l, k) = u \o v
  BY DEF RemoveAt, u, v
<1>6. \A i \in 1 .. Len(l) - 1 : (u \o v)[i] = IF i < k THEN l[i] ELSE l[i + 1]
  <2> TAKE i \in 1 .. Len(l) - 1
  <2>1. CASE i < k
    BY <1>1, <1>2, <1>3, <1>4, <2>1
  <2>2. CASE ~(i < k)
    <3>1. i - (k - 1) \in 1 .. Len(l) - k /\ k + (i - (k - 1)) = i + 1
      BY <1>1, <2>2
    <3>2. (u \o v)[i] = v[i - (k - 1)]
      BY <1>1, <1>2, <1>3, <1>4, <2>2
    <3> QED
      BY <1>3, <2>2, <3>1, <3>2
  <2> QED
    BY <2>1, <2>2
<1>7. Len(u \o v) = Len(l) - 1
  BY <1>1, <1>2, <1>3, <1>4
<1> QED
  BY <1>4, <1>5, <1>6, <1>7

LEMMA Unlinked ==
  ASSUME NEW l \in Seq(Addr), Once(l), NEW a
  PROVE  LET t == RemoveFirst(l, a) IN
         /\ t \in Seq(Addr) /\ Once(t)
         /\ Entries(t) = Entries(l) \ {a}
         /\ Len(t) = IF a \in Entries(l) THEN Len(l) - 1 ELSE Len(l)
<1> DEFINE t == RemoveFirst(l, a)
<1>1. Len(l) \in Nat /\ DOMAIN l = 1 .. Len(l)
  OBVIOUS
<1>2. CASE a \notin Entries(l)
  <2>1. t = l
    BY <1>1, <1>2 DEF RemoveFirst, Entries
  <2> QED
    BY <1>2, <2>1 DEF Entries
<1>3. CASE a \in Entries(l)
  <2> DEFINE I == {i \in 1 .. Len(l) : l[i] = a}
             k == Min(I)
  <2>1. I # {} /\ I \subseteq Nat
    BY <1>1, <1>3 DEF Entries
  <2>2. k \in I
    BY <2>1, MinOf
  <2>3. t = RemoveAt(l, k)
    BY <1>1, <2>1 DEF RemoveFirst, SelectInSeq
  <2> HIDE DEF t
  <2> HIDE DEF k
  <2>4. /\ t \in Seq(Addr) /\ Len(t) = Len(l) - 1
        /\ \A i \in 1 .. Len(t) : t[i] = IF i < k THEN l[i] ELSE l[i + 1]
    BY <2>2, <2>3, TakeOut
  <2>5. DOMAIN t = 1 .. Len(l) - 1
    BY <2>4
  <2>6. \A i \in 1 .. Len(l) : l[i] = a <=> i = k
    BY <1>1, <2>2 DEF Once
  <2> DEFINE from(i) == IF i < k THEN i ELSE i + 1
  <2>6a. \A i \in 1 .. Len(l) - 1 :
          from(i) \in 1 .. Len(l) /\ from(i) # k /\ t[i] = l[from(i)]
    BY <1>1, <2>2, <2>4
  <2>6b. \A i, j \in 1 .. Len(l) - 1 : from(i) = from(j) => i = j
    BY <1>1, <2>2
  <2> HIDE DEF from
  <2>7. Once(t)
    BY <1>1, <2>5, <2>6a, <2>6b DEF Once
  <2>8. Entries(t) \subseteq Entries(l) \ {a}
    BY <1>1, <2>5, <2>6, <2>6a DEF Entries
  <2>9. ASSUME NEW x \in Entries(l) \ {a} PROVE x \in Entries(t)
    <3>1. PICK i \in 1 .. Len(l) : l[i] = x /\ i # k
      BY <1>1, <2>2, <2>9 DEF Entries
    <3>2. CASE i < k
      BY <1>1, <2>2, <2>4, <2>5, <3>1, <3>2 DEF Entries
    <3>3. CASE i > k
      <4>1. i - 1 \in 1 .. Len(l) - 1 /\ ~(i - 1 < k) /\ (i - 1) + 1 = i
        BY <1>1, <2>2, <3>1, <3>3
      <4>2. t[i - 1] = x
        BY <1>1, <2>4, <3>1, <4>1
      <4> QED
        BY <2>5, <4>1, <4>2 DEF Entries
    <3> QED
      BY <1>1, <2>2, <3>1, <3>2, <3>3
  <2> QED
    BY <1>3, <2>4, <2>7, <2>8, <2>9 DEF t
<1> QED
  BY <1>2, <1>3

LEMMA LinkedFirst ==
  ASSUME NEW l \in Seq(Addr), Once(l), NEW a \in Addr \ Entries(l)
  PROVE  LET t == <<a>> \o l IN
         /\ t \in Seq(Addr) /\ Once(t)
         /\ Entries(t) = Entries(l) \cup {a}
         /\ Len(t) = Len(l) + 1
<1> DEFINE t == <<a>> \o l
<1>1. Len(l) \in Nat /\ DOMAIN l = 1 .. Len(l)
  OBVIOUS
<1>2. /\ t \in Seq(Addr) /\ Len(t) = Len(l) + 1 /\ DOMAIN t = 1 .. Len(l) + 1 /\ t[1] = a
      /\ \A i \in 1 .. Len(l) + 1 : i # 1 => t[i] = l[i - 1]
  BY <1>1
<1> HIDE DEF t
<1>3. \A i \in 1 .. Len(l) + 1 : i # 1 => i - 1 \in DOMAIN l /\ t[i] # a
  BY <1>1, <1>2 DEF Entries
<1>4. Once(t)
  <2> SUFFICES ASSUME NEW i \in 1 .. Len(l) + 1, NEW j \in 1 .. Len(l) + 1, t[i] = t[j]
              PROVE  i = j
    BY <1>2 DEF Once
  <2>1. CASE i = 1 \/ j = 1
    BY <1>2, <1>3, <2>1
  <2>2. CASE i # 1 /\ j # 1
    <3>1. i - 1 \in DOMAIN l /\ j - 1 \in DOMAIN l /\ l[i - 1] = l[j - 1]
      BY <1>2, <1>3, <2>2
    <3>2. i - 1 = j - 1
      BY <3>1 DEF Once
    <3> QED
      BY <1>1, <3>2
  <2> QED
    BY <2>1, <2>2
<1>5. Entries(t) \subseteq Entries(l) \cup {a}
  BY <1>1, <1>2, <1>3 DEF Entries
<1>6. ASSUME NEW x \in Entries(l) PROVE x \in Entries(t)
  <2>1. PICK i \in 1 .. Len(l) : l[i] = x
    BY <1>1, <1>6 DEF Entries
  <2>2. i + 1 \in DOMAIN t /\ t[i + 1] = x
    BY <1>1, <1>2, <2>1
  <2> QED
    BY <2>2 DEF Entries
<1>7. a \in Entries(t)
  BY <1>1, <1>2 DEF Entries
<1> QED
  BY <1>2, <1>4, <1>5, <1>6, <1>7 DEF t

-----------------------------------------------------------------------------
(* Descriptors.                                                            *)

LEMMA SpareChange ==
  ASSUME NEW s, MasterOK(s), NEW f, Spare(s, f), NEW t,
         DOMAIN t = Fields, DOMAIN t.file = Fd, DOMAIN t.map = Fd,
         \A g \in Fd \ {f} : /\ t.file[g] = s.file[g] /\ t.map[g] = s.map[g]
                             /\ g \in s.watched => g \in t.watched,
         \A p \in Pid : t.file[f] # Out(p),
         t.alive = s.alive, t.client = s.client, t.connected = s.connected,
         t.disconnected = s.disconnected, t.count = s.count,
         t.connection_id = s.connection_id, t.up = s.up, t.sigterm = s.sigterm
  PROVE  MasterOK(t) /\ Spare(t, f) /\ Reaching(s, t)
<1>1. Shape(t) /\ Lists(t) /\ Apart(t, t.alive)
  BY DEF MasterOK, Shape, Lists, Apart
<1>2. Piped(t)
  BY DEF MasterOK, Piped
<1>3. ASSUME NEW a \in s.alive PROVE Fine(t, a)
  <2>1. Fine(s, a) /\ f \notin OpenFds(s.client[a])
    BY DEF MasterOK, Spare
  <2>2. Owns(t, a)
    BY <2>1 DEF Fine, Owns, OpenFds
  <2> QED
    BY <2>1, <2>2 DEF Fine, Plays, Placed, Whole
<1>4. Reaching(s, t)
  BY DEF Reaching, Reached
<1> QED
  BY <1>1, <1>2, <1>3, <1>4 DEF MasterOK, Spare

LEMMA NoPipeSpare ==
  ASSUME NEW s, MasterOK(s), NEW f, Spare(s, f)
  PROVE  \A p \in Pid : s.file[f] # Out(p)
<1>1. SUFFICES ASSUME NEW p \in Pid, s.file[f] = Out(p) PROVE FALSE
  OBVIOUS
<1>2. PICK a \in s.alive : s.client[a].pipe_out = f
  BY <1>1 DEF MasterOK, Piped, Spare
<1> QED
  BY <1>2, Numbers DEF Spare, OpenFds

LEMMA CloseSpare ==
  ASSUME NEW s, MasterOK(s), NEW f, Spare(s, f)
  PROVE  /\ MasterOK(CloseFds(s, {f})) /\ Spare(CloseFds(s, {f}), f)
         /\ Reaching(s, CloseFds(s, {f}))
<1>1. \A p \in Pid : Closed # Out(p)
  BY DEF Closed, Out
<1>2. f \in Fd /\ Shape(s)
  BY DEF Spare, MasterOK
<1>3. DOMAIN CloseFds(s, {f}).map = Fd
  BY <1>2, CloseFdsKeeps DEF Shape
<1> QED
  BY <1>1, <1>2, <1>3, CloseFdsKeeps, SpareChange

LEMMA ClosedIsSpare ==
  ASSUME NEW s, MasterOK(s), NEW f \in Fd, s.file[f] = Closed
  PROVE  Spare(s, f)
<1>1. SUFFICES ASSUME NEW a \in s.alive, f \in OpenFds(s.client[a]) PROVE FALSE
  BY DEF Spare
<1>2. Owns(s, a)
  BY DEF MasterOK, Fine
<1> QED
  BY <1>1, <1>2 DEF Owns, OpenFds, Closed, In, Out

LEMMA UnmappedIsSpare ==
  ASSUME NEW s, MasterOK(s), NEW f \in Fd, s.map[f] \notin s.alive
  PROVE  Spare(s, f)
BY DEF Spare, MasterOK, Fine, Owns

(* A descriptor handed out is closed, and the second and third differ. *)
LEMMA LowestFree ==
  ASSUME NEW s, FdsOf(s, Closed) # {}
  PROVE  FreeFd(s, 1) \in Fd /\ s.file[FreeFd(s, 1)] = Closed
<1> DEFINE T == FdsOf(s, Closed)
<1>1. T \subseteq Nat
  BY ServerAssumption DEF FdsOf, Fd
<1>2. PICK x \in T : \A y \in T : x <= y
  BY <1>1, Least
<1>3. {g \in T : g < x} = {}
  BY <1>1, <1>2
<1>4. Cardinality({g \in T : g < x}) = 1 - 1
  BY <1>3, FS_EmptySet
<1>5. FreeFd(s, 1) \in T
  BY <1>2, <1>4 DEF FreeFd
<1> QED
  BY <1>5 DEF FdsOf

LEMMA PipeFds ==
  ASSUME NEW s, CanPipe(s)
  PROVE  /\ FreeFd(s, 2) \in Fd /\ s.file[FreeFd(s, 2)] = Closed
         /\ FreeFd(s, 3) \in Fd /\ s.file[FreeFd(s, 3)] = Closed
         /\ FreeFd(s, 2) # FreeFd(s, 3)
<1> DEFINE T == FdsOf(s, Closed)
           below(f) == {g \in T : g < f}
<1>1. T \subseteq 1 .. NFds /\ T \subseteq Nat /\ NFds \in Nat
  BY ServerAssumption DEF FdsOf, Fd
<1>2. IsFiniteSet(T) /\ Cardinality(T) >= 4
  <2>1. IsFiniteSet(1 .. NFds)
    BY <1>1, FS_Interval
  <2> QED
    BY <1>1, <2>1, FS_Subset DEF CanPipe
<1> HIDE DEF T
<1>3. T # {}
  BY <1>2, FS_EmptySet
<1>4. PICK x \in T : \A y \in T : x <= y
  BY <1>1, <1>3, Least
<1>5. IsFiniteSet(T \ {x}) /\ Cardinality(T \ {x}) = Cardinality(T) - 1
  BY <1>2, <1>4, FS_RemoveElement
<1>6. T \ {x} # {}
  BY <1>2, <1>5, FS_EmptySet, FS_CardinalityType
<1>7. PICK y \in T \ {x} : \A z \in T \ {x} : y <= z
  BY <1>1, <1>6, Least
<1>8. Cardinality((T \ {x}) \ {y}) = Cardinality(T \ {x}) - 1
  BY <1>5, <1>7, FS_RemoveElement
<1>9. (T \ {x}) \ {y} # {}
  <2>1. Cardinality(T) \in Nat
    BY <1>2, FS_CardinalityType
  <2>2. Cardinality((T \ {x}) \ {y}) # 0
    BY <1>2, <1>5, <1>8, <2>1
  <2> QED
    BY <2>2, FS_EmptySet
<1>10. PICK z \in (T \ {x}) \ {y} : \A w \in (T \ {x}) \ {y} : z <= w
  BY <1>1, <1>9, Least
<1>11. below(y) = {x}
  <2>1. x < y /\ x \in T
    BY <1>1, <1>4, <1>7
  <2>2. ASSUME NEW g \in T, g < y PROVE g = x
    BY <1>1, <1>7, <2>2
  <2> QED
    BY <2>1, <2>2
<1>12. below(z) = {x, y}
  <2>1. x \in T /\ y \in T /\ x < z /\ y < z
    BY <1>1, <1>4, <1>7, <1>10
  <2>2. ASSUME NEW g \in T, g < z PROVE g = x \/ g = y
    BY <1>1, <1>10, <2>2
  <2> QED
    BY <2>1, <2>2
<1>13. Cardinality({x}) = 1 /\ Cardinality({x, y}) = 2
  <2>1. IsFiniteSet({x}) /\ Cardinality({x}) = 1
    BY FS_Singleton
  <2>2. Cardinality({x} \cup {y}) = Cardinality({x}) + 1
    BY <1>7, <2>1, FS_AddElement
  <2>3. {x} \cup {y} = {x, y}
    OBVIOUS
  <2> QED
    BY <2>1, <2>2, <2>3
<1>14. Cardinality(below(y)) = 2 - 1 /\ Cardinality(below(z)) = 3 - 1
  BY <1>11, <1>12, <1>13
<1>15. FreeFd(s, 2) \in T /\ Cardinality(below(FreeFd(s, 2))) = 2 - 1
  BY <1>7, <1>14 DEF FreeFd, T
<1>16. FreeFd(s, 3) \in T /\ Cardinality(below(FreeFd(s, 3))) = 3 - 1
  BY <1>10, <1>14 DEF FreeFd, T
<1> QED
  BY <1>15, <1>16 DEF T, FdsOf

-----------------------------------------------------------------------------
(* A client that goes, and one that is put on a list.                      *)

LEMMA UnlinkFields ==
  ASSUME NEW s, DOMAIN s = Fields, NEW a
  PROVE  LET t == unlink_client_data(s, a) IN
         /\ DOMAIN t = Fields /\ t.file = s.file /\ t.map = s.map /\ t.watched = s.watched
         /\ t.alive = s.alive /\ t.client = s.client
         /\ t.connected = RemoveFirst(s.connected, a)
         /\ t.disconnected = RemoveFirst(s.disconnected, a)
         /\ t.count = s.count - 1
         /\ t.connection_id = s.connection_id /\ t.up = s.up /\ t.sigterm = s.sigterm
BY DEF unlink_client_data, Fields

(* The two lists without a. *)
LEMMA Unlisted ==
  ASSUME NEW s, Shape(s), Lists(s), NEW a \in s.alive
  PROVE  LET c == RemoveFirst(s.connected, a)
             d == RemoveFirst(s.disconnected, a)
         IN /\ c \in Seq(Addr) /\ d \in Seq(Addr) /\ Once(c) /\ Once(d)
            /\ Entries(c) = Entries(s.connected) \ {a}
            /\ Entries(d) = Entries(s.disconnected) \ {a}
            /\ s.count - 1 = Len(c) + Len(d)
<1>1. a \in Entries(s.connected) <=> a \notin Entries(s.disconnected)
  BY DEF Lists
<1>2. s.connected \in Seq(Addr) /\ s.disconnected \in Seq(Addr)
  BY DEF Shape
<1>3. Len(s.connected) \in Nat /\ Len(s.disconnected) \in Nat
  BY <1>2
<1>4. Once(s.connected) /\ Once(s.disconnected)
      /\ s.count = Len(s.connected) + Len(s.disconnected)
  BY DEF Lists
<1> DEFINE c == RemoveFirst(s.connected, a)
           d == RemoveFirst(s.disconnected, a)
<1>5. /\ c \in Seq(Addr) /\ Once(c) /\ Entries(c) = Entries(s.connected) \ {a}
      /\ Len(c) = IF a \in Entries(s.connected) THEN Len(s.connected) - 1 ELSE Len(s.connected)
  BY <1>2, <1>4, Unlinked
<1>6. /\ d \in Seq(Addr) /\ Once(d) /\ Entries(d) = Entries(s.disconnected) \ {a}
      /\ Len(d) = IF a \in Entries(s.disconnected) THEN Len(s.disconnected) - 1
                  ELSE Len(s.disconnected)
  BY <1>2, <1>4, Unlinked
<1> HIDE DEF c
<1> HIDE DEF d
<1>7. s.count - 1 = Len(c) + Len(d)
  <2>1. CASE a \in Entries(s.connected)
    <3>1. Len(c) = Len(s.connected) - 1 /\ Len(d) = Len(s.disconnected)
      BY <1>1, <1>5, <1>6, <2>1
    <3> QED
      BY <1>3, <1>4, <3>1
  <2>2. CASE a \notin Entries(s.connected)
    <3>1. Len(c) = Len(s.connected) /\ Len(d) = Len(s.disconnected) - 1
      BY <1>1, <1>5, <1>6, <2>2
    <3> QED
      BY <1>3, <1>4, <3>1
  <2> QED
    BY <2>1, <2>2
<1> QED
  BY <1>5, <1>6, <1>7 DEF c, d

LEMMA Relinked ==
  ASSUME NEW s, NEW a, OkBut(s, a), NEW list \in {"connected", "disconnected"},
         s.client[a].state = list, Owns(s, a), Plays(s, a),
         list = "disconnected" => Whole(s, a),
         \A b \in s.alive \ {a} : s.client[b].pid # s.client[a].pid
  PROVE  LET t == link_client_data(unlink_client_data(s, a), a, list) IN
         MasterOK(t) /\ Reaching(s, t)
<1> DEFINE u == unlink_client_data(s, a)
           t == link_client_data(u, a, list)
           c == RemoveFirst(s.connected, a)
           d == RemoveFirst(s.disconnected, a)
<1>1. Shape(s) /\ Lists(s) /\ a \in s.alive /\ a \in Addr
  BY DEF OkBut, Shape
<1>2. /\ c \in Seq(Addr) /\ d \in Seq(Addr) /\ Once(c) /\ Once(d)
      /\ Entries(c) = Entries(s.connected) \ {a}
      /\ Entries(d) = Entries(s.disconnected) \ {a}
      /\ s.count - 1 = Len(c) + Len(d)
  BY <1>1, Unlisted
<1>3. /\ DOMAIN u = Fields /\ u.file = s.file /\ u.map = s.map /\ u.watched = s.watched
      /\ u.alive = s.alive /\ u.client = s.client /\ u.connected = c /\ u.disconnected = d
      /\ u.count = s.count - 1
      /\ u.connection_id = s.connection_id /\ u.up = s.up /\ u.sigterm = s.sigterm
  BY <1>1, UnlinkFields DEF Shape
<1> HIDE DEF u
<1> HIDE DEF c
<1> HIDE DEF d
<1>4. /\ DOMAIN t = Fields /\ t.file = s.file /\ t.map = s.map /\ t.watched = s.watched
      /\ t.alive = s.alive /\ t.client = s.client
      /\ t.count = (s.count - 1) + 1
      /\ t.connection_id = s.connection_id /\ t.up = s.up /\ t.sigterm = s.sigterm
      /\ t.connected = IF list = "connected" THEN <<a>> \o c ELSE c
      /\ t.disconnected = IF list = "connected" THEN d ELSE <<a>> \o d
  <2>1. /\ DOMAIN t = Fields /\ t.file = u.file /\ t.map = u.map /\ t.watched = u.watched
        /\ t.alive = u.alive /\ t.client = u.client
        /\ t.count = u.count + 1
        /\ t.connection_id = u.connection_id /\ t.up = u.up /\ t.sigterm = u.sigterm
        /\ t.connected = IF list = "connected" THEN <<a>> \o u.connected ELSE u.connected
        /\ t.disconnected = IF list = "connected" THEN u.disconnected ELSE <<a>> \o u.disconnected
    <3>1. CASE list = "connected"
      BY <1>3, <3>1 DEF link_client_data, Fields
    <3>2. CASE list = "disconnected"
      BY <1>3, <3>2 DEF link_client_data, Fields
    <3> QED
      BY <3>1, <3>2
  <2> HIDE DEF t
  <2> QED
    BY <1>3, <2>1
<1> HIDE DEF t
<1>5. LET x == <<a>> \o c IN
      x \in Seq(Addr) /\ Once(x) /\ Entries(x) = Entries(c) \cup {a} /\ Len(x) = Len(c) + 1
  <2>1. a \in Addr \ Entries(c)
    BY <1>1, <1>2
  <2> QED
    BY <1>2, <2>1, LinkedFirst
<1>6. LET x == <<a>> \o d IN
      x \in Seq(Addr) /\ Once(x) /\ Entries(x) = Entries(d) \cup {a} /\ Len(x) = Len(d) + 1
  <2>1. a \in Addr \ Entries(d)
    BY <1>1, <1>2
  <2> QED
    BY <1>2, <2>1, LinkedFirst
<1>7. Len(c) \in Nat /\ Len(d) \in Nat
  BY <1>2
<1>8. Shape(t)
  <2>1. t.connected \in Seq(Addr) /\ t.disconnected \in Seq(Addr)
    BY <1>2, <1>4, <1>5, <1>6
  <2> QED
    BY <1>1, <1>4, <2>1 DEF Shape
<1>9. /\ Once(t.connected) /\ Once(t.disconnected)
      /\ Entries(t.connected) = IF list = "connected" THEN Entries(c) \cup {a} ELSE Entries(c)
      /\ Entries(t.disconnected) = IF list = "connected" THEN Entries(d) ELSE Entries(d) \cup {a}
      /\ t.count = Len(t.connected) + Len(t.disconnected)
  <2>1. CASE list = "connected"
    BY <1>2, <1>4, <1>5, <1>7, <2>1
  <2>2. CASE list = "disconnected"
    BY <1>2, <1>4, <1>6, <1>7, <2>2
  <2> QED
    BY <2>1, <2>2
<1>10. Lists(t)
  BY <1>1, <1>2, <1>4, <1>9 DEF Lists
<1>11. Piped(t) /\ Apart(t, t.alive)
  BY <1>4 DEF OkBut, Piped, Apart
<1>12. ASSUME NEW b \in s.alive \ {a} PROVE Fine(t, b)
  <2>1. Fine(s, b)
    BY DEF OkBut
  <2>2. Placed(t, b)
    BY <1>2, <1>4, <1>9, <2>1 DEF Fine, Placed, Whole
  <2> QED
    BY <1>4, <2>1, <2>2 DEF Fine, Owns, Plays
<1>13. Fine(t, a)
  <2>1. Placed(t, a)
    BY <1>2, <1>4, <1>9 DEF Placed, Whole
  <2> QED
    BY <1>4, <2>1 DEF Fine, Owns, Plays
<1>14. Reaching(s, t)
  BY <1>4, StillReached
<1> QED
  BY <1>4, <1>8, <1>10, <1>11, <1>12, <1>13, <1>14 DEF MasterOK, t, u

(* cleanup_game_process: the client, his descriptors and his place on a list go,
   and his game is told to. *)
LEMMA Cleaned ==
  ASSUME NEW s, NEW a, OkBut(s, a)
  PROVE  LET t == cleanup_game_process(s, a) IN
         /\ MasterOK(t)
         /\ game \in [Pid -> {"none", "running", "exiting", "dead"}] =>
              \A p \in Pid : game[p] = "running" /\ Reached(s, p) => Reached(t, p)
<1> DEFINE F == OpenFds(s.client[a])
           told == IF s.client[a].pid = ErrPid THEN {p \in Pid : game[p] = "running"}
                   ELSE {s.client[a].pid} \ {NoPid}
           x == CloseFds(s, F)
           u == [x EXCEPT !.sigterm = @ \cup told,
                          !.map = [f \in Fd |-> IF f \in F THEN None ELSE @[f]],
                          !.alive = @ \ {a}]
           t == unlink_client_data(u, a)
           c == RemoveFirst(s.connected, a)
           d == RemoveFirst(s.disconnected, a)
<1>1. Shape(s) /\ Lists(s) /\ a \in s.alive /\ a \in Addr /\ F \subseteq Fd
  BY DEF OkBut, Shape, OpenFds
<1>2. /\ c \in Seq(Addr) /\ d \in Seq(Addr) /\ Once(c) /\ Once(d)
      /\ Entries(c) = Entries(s.connected) \ {a}
      /\ Entries(d) = Entries(s.disconnected) \ {a}
      /\ s.count - 1 = Len(c) + Len(d)
  BY <1>1, Unlisted
<1>3. /\ DOMAIN x = Fields /\ DOMAIN x.file = Fd
      /\ \A f \in Fd : x.file[f] = IF f \in F THEN Closed ELSE s.file[f]
      /\ x.watched = s.watched \ F
      /\ x.map = s.map /\ x.alive = s.alive /\ x.client = s.client
      /\ x.connected = s.connected /\ x.disconnected = s.disconnected /\ x.count = s.count
      /\ x.connection_id = s.connection_id /\ x.up = s.up /\ x.sigterm = s.sigterm
  BY <1>1, CloseFdsKeeps
<1> HIDE DEF x
<1>4. /\ DOMAIN u = Fields /\ u.file = x.file /\ u.watched = s.watched \ F
      /\ u.map = [f \in Fd |-> IF f \in F THEN None ELSE s.map[f]]
      /\ u.alive = s.alive \ {a} /\ u.client = s.client
      /\ u.connected = s.connected /\ u.disconnected = s.disconnected /\ u.count = s.count
      /\ u.connection_id = s.connection_id /\ u.up = s.up /\ u.sigterm = s.sigterm \cup told
  BY <1>3 DEF Fields
<1>5. cleanup_game_process(s, a) = t
  BY DEF cleanup_game_process, x
<1> HIDE DEF u
<1> HIDE DEF c
<1> HIDE DEF d
<1> HIDE DEF told
<1> HIDE DEF F
<1>6. /\ DOMAIN t = Fields /\ DOMAIN t.file = Fd /\ DOMAIN t.map = Fd
      /\ \A f \in Fd : /\ t.file[f] = IF f \in F THEN Closed ELSE s.file[f]
                       /\ t.map[f] = IF f \in F THEN None ELSE s.map[f]
      /\ t.watched = s.watched \ F /\ t.alive = s.alive \ {a} /\ t.client = s.client
      /\ t.connected = c /\ t.disconnected = d /\ t.count = s.count - 1
      /\ t.connection_id = s.connection_id /\ t.up = s.up /\ t.sigterm = s.sigterm \cup told
  BY <1>3, <1>4, UnlinkFields DEF c, d
<1> HIDE DEF t
<1>7. Shape(t) /\ Lists(t)
  BY <1>1, <1>2, <1>6 DEF Shape, Lists
<1>8. Apart(t, t.alive)
  BY <1>6 DEF OkBut, Apart
<1>9. Piped(t)
  <2> SUFFICES ASSUME NEW f \in Fd, NEW p \in Pid, t.file[f] = Out(p)
              PROVE  \E b \in t.alive : t.client[b].pipe_out = f
    BY DEF Piped
  <2>1. f \notin F /\ s.file[f] = Out(p)
    BY <1>6 DEF Closed, Out
  <2>2. PICK b \in s.alive : s.client[b].pipe_out = f
    BY <2>1 DEF OkBut, Piped
  <2>3. b # a
    BY <2>1, <2>2, Numbers DEF F, OpenFds
  <2> QED
    BY <1>6, <2>2, <2>3
<1>10. ASSUME NEW b \in t.alive PROVE Fine(t, b)
  <2>1. Fine(s, b) /\ OpenFds(s.client[b]) \cap F = {}
    BY <1>6 DEF OkBut, F
  <2>2. Owns(t, b)
    BY <1>6, <2>1 DEF Fine, Owns, OpenFds
  <2>3. Placed(t, b)
    BY <1>2, <1>6, <2>1 DEF Fine, Placed, Whole
  <2> QED
    BY <1>6, <2>1, <2>2, <2>3 DEF Fine, Plays
<1>11. ASSUME NEW p \in Pid, game[p] = "running", Reached(s, p) PROVE Reached(t, p)
  <2>1. CASE \E b \in s.alive : s.client[b].pid = p
    <3>1. PICK b \in s.alive : s.client[b].pid = p
      BY <2>1
    <3>2. b = a => p \in told
      BY <3>1, Numbers DEF told
    <3> QED
      BY <1>6, <3>1, <3>2 DEF Reached
  <2>2. CASE p \in s.sigterm
    BY <1>6, <2>2 DEF Reached
  <2>3. CASE \A f \in Fd : s.file[f] # Out(p)
    <3>1. \A f \in Fd : t.file[f] # Out(p)
      BY <1>6, <2>3 DEF Closed, Out
    <3> QED
      BY <3>1 DEF Reached
  <2> QED
    BY <1>11, <2>1, <2>2, <2>3 DEF Reached
<1> QED
  BY <1>5, <1>7, <1>8, <1>9, <1>10, <1>11 DEF MasterOK

-----------------------------------------------------------------------------
(* A client's game.                                                        *)

NewClientLinked(s, f, c, a) ==
  link_client_data([Watch(s, f, Sock(c)) EXCEPT
     !.alive = @ \cup {a}, !.client[a] = NewClient(s, c, f), !.map[f] = a,
     !.connection_id = @ + 1], a, "connected")

LEMMA NewlyLinked ==
  ASSUME NEW s, MasterOK(s), NEW f, Spare(s, f), NEW c, NEW a \in Addr \ s.alive
  PROVE  LET t == NewClientLinked(s, f, c, a) IN
         /\ OkBut(t, a) /\ Owns(t, a) /\ Reaching(s, t)
         /\ t.client[a] = NewClient(s, c, f)
         /\ t.connection_id = s.connection_id + 1
         /\ \A b \in t.alive \ {a} : t.client[b].pid < s.connection_id
<1> DEFINE t == NewClientLinked(s, f, c, a)
           n == NewClient(s, c, f)
<1>1. /\ Shape(s) /\ Lists(s) /\ f \in Fd /\ f # NoFd
      /\ \A b \in s.alive : f \notin OpenFds(s.client[b])
  BY Numbers DEF MasterOK, Spare
<1>2. /\ DOMAIN t = Fields
      /\ t.file = [s.file EXCEPT ![f] = Sock(c)] /\ t.map = [s.map EXCEPT ![f] = a]
      /\ t.watched = s.watched \cup {f} /\ t.alive = s.alive \cup {a}
      /\ t.client = [s.client EXCEPT ![a] = n]
      /\ t.connected = <<a>> \o s.connected /\ t.disconnected = s.disconnected
      /\ t.count = s.count + 1 /\ t.connection_id = s.connection_id + 1
      /\ t.up = s.up /\ t.sigterm = s.sigterm
  BY <1>1 DEF NewClientLinked, link_client_data, Watch, Add, Fields, Shape
<1>3. /\ DOMAIN n = ClientFields /\ n.state = "connected" /\ n.pid = NoPid
      /\ n.userid = User[c] /\ n.sock = f
      /\ n.pipe_out = NoFd /\ n.pipe_in = NoFd /\ n.unsent = None
  BY DEF NewClient, ClientFields
<1> HIDE DEF t
<1> HIDE DEF n
<1>4. /\ a \in Addr /\ a \notin s.alive /\ a \notin Entries(s.connected)
      /\ a \notin Entries(s.disconnected)
  BY <1>1 DEF Lists
<1>5. LET x == <<a>> \o s.connected IN
      /\ x \in Seq(Addr) /\ Once(x) /\ Entries(x) = Entries(s.connected) \cup {a}
      /\ Len(x) = Len(s.connected) + 1
  <2>1. s.connected \in Seq(Addr) /\ Once(s.connected) /\ a \in Addr \ Entries(s.connected)
    BY <1>1, <1>4 DEF Shape, Lists
  <2> QED
    BY <2>1, LinkedFirst
<1>6. t.client[a] = n /\ \A b \in Addr \ {a} : t.client[b] = s.client[b]
  BY <1>1, <1>2, <1>4 DEF Shape
<1>7. /\ t.connected \in Seq(Addr) /\ Once(t.connected)
      /\ Entries(t.connected) = Entries(s.connected) \cup {a}
      /\ Len(t.connected) = Len(s.connected) + 1
  BY <1>2, <1>5
<1>8. Shape(t)
  BY <1>1, <1>2, <1>3, <1>4, <1>6, <1>7 DEF Shape
<1>9. Lists(t)
  <2>1. Len(s.connected) \in Nat /\ Len(s.disconnected) \in Nat
    BY <1>1 DEF Shape
  <2>2. t.count = Len(t.connected) + Len(t.disconnected)
    <3> DEFINE x == Len(s.connected)
               y == Len(s.disconnected)
    <3>1. s.count = x + y /\ x \in Nat /\ y \in Nat
      BY <1>1, <2>1 DEF Lists
    <3>2. t.count = s.count + 1 /\ Len(t.disconnected) = y
      BY <1>2
    <3>3. Len(t.connected) = x + 1
      BY <1>7
    <3> HIDE DEF x
    <3> HIDE DEF y
    <3>4. t.count = (x + 1) + y
      BY <3>1, <3>2
    <3> QED
      BY <3>2, <3>3, <3>4
  <2> QED
    BY <1>1, <1>2, <1>4, <1>7, <2>2 DEF Lists
<1>10. \A g \in Fd : g # f => t.file[g] = s.file[g] /\ t.map[g] = s.map[g]
  BY <1>1, <1>2 DEF Shape
<1>11. t.file[f] = Sock(c) /\ t.map[f] = a
  BY <1>1, <1>2 DEF Shape
<1>12. Piped(t)
  <2> SUFFICES ASSUME NEW g \in Fd, NEW p \in Pid, t.file[g] = Out(p)
              PROVE  \E b \in t.alive : t.client[b].pipe_out = g
    BY DEF Piped
  <2>1. s.file[g] = Out(p)
    BY <1>10, <1>11 DEF Sock, Out
  <2>2. PICK b \in s.alive : s.client[b].pipe_out = g
    BY <2>1 DEF MasterOK, Piped
  <2> QED
    BY <1>1, <1>2, <1>4, <1>6, <2>2 DEF Shape
<1>13. t.alive \ {a} = s.alive /\ s.alive \subseteq Addr \ {a}
  BY <1>1, <1>2, <1>4 DEF Shape
<1>14. ASSUME NEW b \in s.alive
       PROVE  Fine(t, b) /\ OpenFds(t.client[b]) \cap OpenFds(t.client[a]) = {}
                /\ t.client[b].pid < s.connection_id
  <2>1. Fine(s, b) /\ f \notin OpenFds(s.client[b]) /\ t.client[b] = s.client[b]
    BY <1>1, <1>6, <1>13 DEF MasterOK
  <2>2. Owns(t, b)
    BY <1>2, <1>10, <2>1 DEF Fine, Owns, OpenFds
  <2>3. s.client[b].pid < s.connection_id /\ s.client[b].pid \in Int /\ s.connection_id \in Int
    BY <1>1, <2>1, Numbers DEF Fine, Plays, Pid, Shape
  <2>4. Plays(t, b)
    BY <1>2, <2>1, <2>3 DEF Fine, Plays
  <2>5. Placed(t, b)
    BY <1>2, <1>4, <1>7, <2>1 DEF Fine, Placed, Whole
  <2>6. OpenFds(t.client[a]) = {f}
    BY <1>1, <1>3, <1>6 DEF OpenFds
  <2> QED
    BY <2>1, <2>2, <2>3, <2>4, <2>5, <2>6 DEF Fine
<1>15. Apart(t, t.alive \ {a})
  BY <1>6, <1>13 DEF MasterOK, Apart
<1>16. Owns(t, a)
  BY <1>1, <1>2, <1>3, <1>6, <1>11 DEF Owns, OpenFds, Sock
<1>17. Reaching(s, t)
  <2> SUFFICES ASSUME NEW p \in Pid, Reached(s, p) PROVE Reached(t, p)
    BY DEF Reaching
  <2>1. \A b \in s.alive : b \in t.alive /\ t.client[b] = s.client[b]
    BY <1>2, <1>6, <1>13
  <2>2. (\A g \in Fd : s.file[g] # Out(p)) => \A g \in Fd : t.file[g] # Out(p)
    BY <1>10, <1>11 DEF Sock, Out
  <2> QED
    BY <1>2, <2>1, <2>2 DEF Reached
<1>18. OkBut(t, a)
  BY <1>2, <1>3, <1>6, <1>8, <1>9, <1>12, <1>13, <1>14, <1>15, <1>1 DEF OkBut
<1> QED
  BY <1>2, <1>6, <1>13, <1>14, <1>16, <1>17, <1>18 DEF t, n

(* Two descriptors for the pipes of a client that has none. *)
LEMMA Plumbed ==
  ASSUME NEW s, NEW a, OkBut(s, a), Owns(s, a), CanPipe(s), NEW q,
         s.client[a].pid = NoPid, s.client[a].pipe_out = NoFd, s.client[a].pipe_in = NoFd
  PROVE  LET t == WithPipes(s, a, q)
             out == FreeFd(s, 2)
             in == FreeFd(s, 3)
         IN /\ OkBut(t, a) /\ Reaching(s, t)
            /\ DOMAIN t.client[a] = ClientFields
            /\ t.client[a].state = s.client[a].state /\ t.client[a].pid = q
            /\ t.client[a].userid = s.client[a].userid
            /\ t.client[a].sock = s.client[a].sock
            /\ t.client[a].pipe_out = out /\ t.client[a].pipe_in = in
            /\ t.client[a].unsent = s.client[a].unsent
            /\ \A f \in OpenFds(t.client[a]) : f \in Fd /\ t.map[f] = a
            /\ \A b \in Addr \ {a} : t.client[b] = s.client[b]
            /\ t.file = s.file /\ t.watched = s.watched /\ t.alive = s.alive
            /\ t.connection_id = s.connection_id /\ t.sigterm = s.sigterm
            /\ out # in /\ out # NoFd /\ in # NoFd /\ out # s.client[a].sock /\ in # s.client[a].sock
            /\ \A b \in s.alive \ {a} : out \notin OpenFds(s.client[b]) /\ in \notin OpenFds(s.client[b])
<1> DEFINE t == WithPipes(s, a, q)
           out == FreeFd(s, 2)
           in == FreeFd(s, 3)
<1>1. Shape(s) /\ a \in s.alive /\ a \in Addr
  BY DEF OkBut, Shape
<1>2. /\ out \in Fd /\ in \in Fd /\ out # in /\ out # NoFd /\ in # NoFd
      /\ s.file[out] = Closed /\ s.file[in] = Closed
  BY PipeFds, Numbers
<1> HIDE DEF out
<1> HIDE DEF in
<1>3. /\ DOMAIN t = Fields /\ t.file = s.file /\ t.watched = s.watched /\ t.alive = s.alive
      /\ DOMAIN t.map = Fd /\ t.map[out] = a /\ t.map[in] = a
      /\ \A f \in Fd \ {out, in} : t.map[f] = s.map[f]
      /\ DOMAIN t.client = Addr /\ DOMAIN t.client[a] = ClientFields
      /\ t.client[a].state = s.client[a].state /\ t.client[a].pid = q
      /\ t.client[a].userid = s.client[a].userid
      /\ t.client[a].sock = s.client[a].sock
      /\ t.client[a].pipe_out = out /\ t.client[a].pipe_in = in
      /\ t.client[a].unsent = s.client[a].unsent
      /\ \A b \in Addr \ {a} : t.client[b] = s.client[b]
      /\ t.connected = s.connected /\ t.disconnected = s.disconnected /\ t.count = s.count
      /\ t.connection_id = s.connection_id /\ t.up = s.up /\ t.sigterm = s.sigterm
  BY <1>1, <1>2 DEF WithPipes, out, in, Shape, Fields, ClientFields
<1> HIDE DEF t
<1>4. Shape(t) /\ Lists(t)
  BY <1>1, <1>3 DEF OkBut, Shape, Lists
<1>5. Piped(t)
  <2> SUFFICES ASSUME NEW f \in Fd, NEW p \in Pid, t.file[f] = Out(p)
              PROVE  \E b \in t.alive : t.client[b].pipe_out = f
    BY DEF Piped
  <2>1. PICK b \in s.alive : s.client[b].pipe_out = f
    BY <1>3 DEF OkBut, Piped
  <2>2. b # a
    BY <2>1, Numbers
  <2> QED
    BY <1>1, <1>3, <2>1, <2>2 DEF Shape
<1>6. \A b \in s.alive \ {a} : b \in Addr /\ t.client[b] = s.client[b]
  BY <1>1, <1>3 DEF Shape
<1>7. Apart(t, t.alive \ {a})
  BY <1>3, <1>6 DEF OkBut, Apart
<1>8. ASSUME NEW b \in s.alive \ {a}
      PROVE  /\ Fine(t, b)
             /\ out \notin OpenFds(s.client[b]) /\ in \notin OpenFds(s.client[b])
  <2>1. Fine(s, b) /\ t.client[b] = s.client[b]
    BY <1>6 DEF OkBut
  <2>2. out \notin OpenFds(s.client[b]) /\ in \notin OpenFds(s.client[b])
    BY <1>2, <2>1 DEF Fine, Owns, OpenFds, Closed, In, Out
  <2>3. Owns(t, b)
    BY <1>3, <2>1, <2>2 DEF Fine, Owns, OpenFds
  <2> QED
    BY <1>3, <2>1, <2>2, <2>3 DEF Fine, Plays, Placed, Whole
<1>9. out # s.client[a].sock /\ in # s.client[a].sock
  BY <1>2 DEF Owns, Closed
<1>10. s.client[a].sock \in Fd \cup {NoFd}
  BY DEF OkBut
<1>11. OpenFds(t.client[a]) = {out, in} \cup ({s.client[a].sock} \ {NoFd})
  BY <1>2, <1>3 DEF OpenFds
<1>12. \A b \in s.alive \ {a} : OpenFds(t.client[b]) \cap OpenFds(t.client[a]) = {}
  <2> TAKE b \in s.alive \ {a}
  <2>1. s.client[a].sock # NoFd => s.client[a].sock \notin OpenFds(s.client[b])
    BY DEF OkBut, OpenFds
  <2> QED
    BY <1>6, <1>8, <1>11, <2>1
<1>13. \A f \in OpenFds(t.client[a]) : f \in Fd /\ t.map[f] = a
  BY <1>2, <1>3, <1>9, <1>10, <1>11 DEF Owns, OpenFds
<1>14. OkBut(t, a)
  BY <1>1, <1>2, <1>3, <1>4, <1>5, <1>7, <1>8, <1>10, <1>12 DEF OkBut
<1>15. Reaching(s, t)
  BY <1>3, <1>6, Numbers DEF Reaching, Reached
<1> QED
  BY <1>2, <1>3, <1>8, <1>9, <1>13, <1>14, <1>15 DEF t, out, in

(* fork_client for a client that was just linked. *)
LEMMA Forked ==
  ASSUME NEW s, NEW a, OkBut(s, a), Owns(s, a), CanPipe(s), NEW p \in Pid,
         s.client[a].pid = NoPid, s.client[a].pipe_out = NoFd, s.client[a].pipe_in = NoFd,
         s.client[a].state = "connected", p < s.connection_id,
         \A b \in s.alive \ {a} : s.client[b].pid < p
  PROVE  LET t == fork_client(s, a, p) IN
         MasterOK(t) /\ Reaching(s, t) /\ Reached(t, p)
<1> DEFINE w == WithPipes(s, a, p)
           out == FreeFd(s, 2)
           in == FreeFd(s, 3)
           d == Add(Add(w, out, Out(p)), in, In(p))
           r == link_client_data(unlink_client_data(d, a), a, "connected")
           t == fork_client(s, a, p)
<1>1. /\ OkBut(w, a) /\ Reaching(s, w)
      /\ DOMAIN w.client[a] = ClientFields
      /\ w.client[a].state = s.client[a].state /\ w.client[a].pid = p
      /\ w.client[a].userid = s.client[a].userid
      /\ w.client[a].sock = s.client[a].sock
      /\ w.client[a].pipe_out = out /\ w.client[a].pipe_in = in
      /\ \A f \in OpenFds(w.client[a]) : f \in Fd /\ w.map[f] = a
      /\ \A b \in Addr \ {a} : w.client[b] = s.client[b]
      /\ w.file = s.file /\ w.watched = s.watched /\ w.alive = s.alive
      /\ w.connection_id = s.connection_id /\ w.sigterm = s.sigterm
      /\ out # in /\ out # NoFd /\ in # NoFd /\ out # s.client[a].sock /\ in # s.client[a].sock
      /\ \A b \in s.alive \ {a} : out \notin OpenFds(s.client[b]) /\ in \notin OpenFds(s.client[b])
  BY Plumbed
<1>2. out \in Fd /\ in \in Fd
  BY PipeFds
<1>3. /\ Shape(s) /\ Shape(w) /\ a \in s.alive /\ a \in Addr
  BY <1>1 DEF OkBut, Shape
<1>4. t = Add(Add(link_client_data(unlink_client_data(w, a), a, "connected"), out, Out(p)), in, In(p))
  BY <1>1 DEF fork_client
<1> HIDE DEF w
<1> HIDE DEF out
<1> HIDE DEF in
<1> HIDE DEF t
<1>5. /\ DOMAIN t = Fields /\ DOMAIN r = Fields
      /\ t.file = r.file /\ t.map = r.map /\ t.watched = r.watched /\ t.alive = r.alive
      /\ t.client = r.client /\ t.connected = r.connected /\ t.disconnected = r.disconnected
      /\ t.count = r.count /\ t.connection_id = r.connection_id /\ t.up = r.up /\ t.up = w.up
      /\ t.sigterm = r.sigterm
  <2> DEFINE q == unlink_client_data(w, a)
             l == link_client_data(q, a, "connected")
             v == Add(l, out, Out(p))
             d0 == Add(w, out, Out(p))
             z == unlink_client_data(d, a)
  <2>1. /\ DOMAIN l = Fields /\ l.file = w.file /\ l.map = w.map /\ l.watched = w.watched
        /\ l.alive = w.alive /\ l.client = w.client
        /\ l.connected = <<a>> \o RemoveFirst(w.connected, a)
        /\ l.disconnected = RemoveFirst(w.disconnected, a) /\ l.count = (w.count - 1) + 1
        /\ l.connection_id = w.connection_id /\ l.up = w.up /\ l.sigterm = w.sigterm
    BY <1>3 DEF link_client_data, unlink_client_data, Fields, Shape
  <2> HIDE DEF l
  <2>2. /\ DOMAIN v = Fields /\ v.file = [w.file EXCEPT ![out] = Out(p)] /\ v.map = w.map
        /\ v.watched = w.watched \cup {out}
        /\ v.alive = w.alive /\ v.client = w.client
        /\ v.connected = l.connected
        /\ v.disconnected = l.disconnected /\ v.count = l.count
        /\ v.connection_id = w.connection_id /\ v.up = w.up /\ v.sigterm = w.sigterm
    BY <2>1 DEF Add, Fields
  <2>3. t = Add(v, in, In(p))
    BY <1>4 DEF l
  <2> HIDE DEF v
  <2>4. /\ DOMAIN t = Fields /\ t.file = [v.file EXCEPT ![in] = In(p)] /\ t.map = w.map
        /\ t.watched = (w.watched \cup {out}) \cup {in}
        /\ t.alive = w.alive /\ t.client = w.client
        /\ t.connected = l.connected
        /\ t.disconnected = l.disconnected /\ t.count = l.count
        /\ t.connection_id = w.connection_id /\ t.up = w.up /\ t.sigterm = w.sigterm
    BY <2>2, <2>3 DEF Add, Fields
  <2>5. /\ DOMAIN d0 = Fields /\ d0.file = [w.file EXCEPT ![out] = Out(p)] /\ d0.map = w.map
        /\ d0.watched = w.watched \cup {out}
        /\ d0.alive = w.alive /\ d0.client = w.client
        /\ d0.connected = w.connected
        /\ d0.disconnected = w.disconnected /\ d0.count = w.count
        /\ d0.connection_id = w.connection_id /\ d0.up = w.up /\ d0.sigterm = w.sigterm
    BY <1>3 DEF Add, Fields, Shape
  <2> HIDE DEF d0
  <2>6. /\ DOMAIN d = Fields /\ d.file = [d0.file EXCEPT ![in] = In(p)] /\ d.map = w.map
        /\ d.watched = (w.watched \cup {out}) \cup {in}
        /\ d.alive = w.alive /\ d.client = w.client
        /\ d.connected = w.connected
        /\ d.disconnected = w.disconnected /\ d.count = w.count
        /\ d.connection_id = w.connection_id /\ d.up = w.up /\ d.sigterm = w.sigterm
    BY <2>5 DEF Add, Fields, d0
  <2> HIDE DEF d
  <2>7. /\ DOMAIN z = Fields /\ z.file = d.file /\ z.map = d.map /\ z.watched = d.watched
        /\ z.alive = d.alive /\ z.client = d.client
        /\ z.connected = RemoveFirst(d.connected, a)
        /\ z.disconnected = RemoveFirst(d.disconnected, a) /\ z.count = d.count - 1
        /\ z.connection_id = d.connection_id /\ z.up = d.up /\ z.sigterm = d.sigterm
    BY <2>6, UnlinkFields
  <2> HIDE DEF z
  <2>8. /\ DOMAIN r = Fields /\ r.file = z.file /\ r.map = z.map /\ r.watched = z.watched
        /\ r.alive = z.alive /\ r.client = z.client
        /\ r.connected = <<a>> \o z.connected
        /\ r.disconnected = z.disconnected /\ r.count = z.count + 1
        /\ r.connection_id = z.connection_id /\ r.up = z.up /\ r.sigterm = z.sigterm
    <3>1. r = link_client_data(z, a, "connected")
      BY DEF z
    <3> QED
      BY <2>7, <3>1 DEF link_client_data, Fields
  <2> HIDE DEF r
  <2> QED
    BY <2>1, <2>2, <2>4, <2>5, <2>6, <2>7, <2>8
<1>6. /\ DOMAIN d = Fields /\ DOMAIN d.file = Fd
      /\ d.file[out] = Out(p) /\ d.file[in] = In(p)
      /\ \A f \in Fd \ {out, in} : d.file[f] = s.file[f]
      /\ d.watched = (w.watched \cup {out}) \cup {in}
      /\ d.map = w.map /\ d.alive = w.alive /\ d.client = w.client
      /\ d.connected = w.connected /\ d.disconnected = w.disconnected /\ d.count = w.count
      /\ d.connection_id = w.connection_id /\ d.up = w.up /\ d.sigterm = w.sigterm
  BY <1>1, <1>2, <1>3 DEF Add, Fields, Shape
<1> HIDE DEF d
<1>7. Shape(d) /\ Lists(d)
  BY <1>1, <1>3, <1>6 DEF OkBut, Shape, Lists
<1>8. Piped(d)
  <2> SUFFICES ASSUME NEW f \in Fd, NEW q \in Pid, d.file[f] = Out(q)
              PROVE  \E b \in d.alive : d.client[b].pipe_out = f
    BY DEF Piped
  <2>1. CASE f = out
    BY <1>1, <1>3, <1>6, <2>1
  <2>2. CASE f # out
    <3>1. w.file[f] = Out(q)
      BY <1>1, <1>6, <2>2 DEF In, Out
    <3> QED
      BY <1>1, <1>6, <3>1 DEF OkBut, Piped
  <2> QED
    BY <2>1, <2>2
<1>9. \A b \in d.alive \ {a} : d.client[b] = s.client[b] /\ b \in s.alive \ {a} /\ b \in w.alive \ {a}
  BY <1>1, <1>3, <1>6 DEF Shape
<1>10. Apart(d, d.alive \ {a})
  BY <1>1, <1>6, <1>9 DEF OkBut, Apart
<1>11. ASSUME NEW b \in d.alive \ {a}
       PROVE  Fine(d, b) /\ OpenFds(d.client[b]) \cap OpenFds(d.client[a]) = {}
  <2>1. Fine(w, b) /\ OpenFds(w.client[b]) \cap OpenFds(w.client[a]) = {}
        /\ d.client[b] = w.client[b] /\ d.client[b] = s.client[b]
    BY <1>1, <1>6, <1>9 DEF OkBut
  <2>2. out \notin OpenFds(w.client[b]) /\ in \notin OpenFds(w.client[b])
    BY <1>1, <1>9, <2>1
  <2>3. Owns(d, b)
    BY <1>1, <1>6, <2>1, <2>2 DEF Fine, Owns, OpenFds
  <2> QED
    BY <1>6, <2>1, <2>3 DEF Fine, Plays, Placed, Whole
<1>12. OkBut(d, a)
  BY <1>1, <1>3, <1>6, <1>7, <1>8, <1>10, <1>11 DEF OkBut
<1>13. d.client[a] = w.client[a] /\ d.client[a].sock = s.client[a].sock
  BY <1>1, <1>6
<1>14. Owns(d, a)
  <2>1. \A f \in OpenFds(d.client[a]) : d.map[f] = a /\ f \in d.watched
    <3>1. \A f \in OpenFds(d.client[a]) : f = out \/ f = in \/ f \in OpenFds(s.client[a])
      BY <1>1, <1>13 DEF OpenFds
    <3>2. \A f \in OpenFds(s.client[a]) : f \in s.watched
      BY DEF Owns
    <3> QED
      BY <1>1, <1>6, <1>13, <3>1, <3>2
  <2>2. d.client[a].sock # NoFd =>
          d.file[d.client[a].sock].t = "sock" /\ User[d.file[d.client[a].sock].who] = d.client[a].userid
    BY <1>1, <1>6, <1>13 DEF Owns
  <2>3. {d.client[a].sock, d.client[a].pipe_out, d.client[a].pipe_in} \subseteq Fd \cup {NoFd}
    BY <1>12 DEF OkBut
  <2>4. d.file[d.client[a].pipe_in] = In(d.client[a].pid) /\ d.file[d.client[a].pipe_out] = Out(d.client[a].pid)
    BY <1>1, <1>6, <1>13
  <2> QED
    BY <2>1, <2>2, <2>3, <2>4 DEF Owns
<1>15. Plays(d, a)
  BY <1>1, <1>6, <1>13 DEF Plays
<1>16. \A b \in d.alive \ {a} : d.client[b].pid # d.client[a].pid
  BY <1>1, <1>9, <1>13, Numbers DEF Pid
<1>17. d.client[a].state = "connected"
  BY <1>1, <1>13
<1>18. MasterOK(r) /\ Reaching(d, r)
  BY <1>12, <1>14, <1>15, <1>16, <1>17, Relinked
<1> HIDE DEF r
<1>19. MasterOK(t)
  <2>1. t.up \in BOOLEAN
    BY <1>3, <1>5 DEF Shape
  <2> QED
    BY <1>5, <1>18, <2>1, Alike
<1>20. Reaching(r, t)
  BY <1>5, StillReached
<1>21. Reaching(w, d)
  <2> SUFFICES ASSUME NEW q \in Pid, Reached(w, q) PROVE Reached(d, q)
    BY DEF Reaching
  <2>1. CASE q = p
    BY <1>1, <1>3, <1>6, <1>13, <2>1 DEF Reached
  <2>2. CASE q # p
    <3>1. (\A f \in Fd : w.file[f] # Out(q)) => \A f \in Fd : d.file[f] # Out(q)
      BY <1>1, <1>6, <2>2 DEF In, Out
    <3> QED
      BY <1>6, <3>1 DEF Reached
  <2> QED
    BY <2>1, <2>2
<1>22. Reached(d, p)
  BY <1>1, <1>3, <1>6, <1>13 DEF Reached
<1> QED
  BY <1>1, <1>18, <1>19, <1>20, <1>21, <1>22 DEF Reaching, t

-----------------------------------------------------------------------------
(* A client that comes back, loses his socket, or loses his game.          *)

LEMMA Found ==
  ASSUME NEW s, Shape(s), NEW user, NEW rid, FindClient(s, user, rid) # None
  PROVE  LET a == FindClient(s, user, rid) IN
         /\ a \in Entries(s.connected) \cup Entries(s.disconnected)
         /\ s.client[a].userid = user
<1> DEFINE mine(a) == s.client[a].userid = user /\ (rid = 0 \/ rid = s.client[a].connid)
           at(list) == SelectInSeq(list, mine)
           first(list) == IF at(list) = 0 THEN None ELSE list[at(list)]
<1>1. ASSUME NEW list \in Seq(Addr), first(list) # None
      PROVE  first(list) \in Entries(list) /\ s.client[first(list)].userid = user
  <2> DEFINE I == {i \in 1 .. Len(list) : mine(list[i])}
  <2>1. Len(list) \in Nat /\ DOMAIN list = 1 .. Len(list)
    OBVIOUS
  <2>2. at(list) # 0
    BY <1>1
  <2>3. at(list) = IF I # {} THEN Min(I) ELSE 0
    BY DEF SelectInSeq
  <2>4. I # {} /\ at(list) = Min(I) /\ I \subseteq Nat
    BY <2>1, <2>2, <2>3
  <2>5. at(list) \in I
    BY <2>4, MinOf
  <2>6. at(list) \in DOMAIN list /\ mine(list[at(list)]) /\ first(list) = list[at(list)]
    BY <2>1, <2>2, <2>5
  <2> QED
    BY <2>6 DEF Entries
<1>2. FindClient(s, user, rid) = first(s.disconnected) \/ FindClient(s, user, rid) = first(s.connected)
  BY DEF FindClient
<1>3. s.connected \in Seq(Addr) /\ s.disconnected \in Seq(Addr)
  BY DEF Shape
<1> HIDE DEF first
<1> QED
  BY <1>1, <1>2, <1>3

LEMMA CameBack ==
  ASSUME NEW s, MasterOK(s), NEW f, Spare(s, f), NEW a \in s.alive, NEW c,
         s.file[f] = Sock(c), f \in s.watched, User[c] = s.client[a].userid
  PROVE  MasterOK(Reconnect(s, a, f)) /\ Reaching(s, Reconnect(s, a, f))
<1> DEFINE t == [s EXCEPT !.client[a].sock = f, !.client[a].state = "connected", !.map[f] = a]
<1>1. /\ Shape(s) /\ Lists(s) /\ a \in Addr /\ f \in Fd /\ f # NoFd
      /\ \A b \in s.alive : f \notin OpenFds(s.client[b])
  BY Numbers DEF MasterOK, Spare, Shape
<1>2. /\ DOMAIN t = Fields /\ t.file = s.file /\ t.watched = s.watched
      /\ DOMAIN t.map = Fd /\ t.map[f] = a /\ \A g \in Fd \ {f} : t.map[g] = s.map[g]
      /\ t.alive = s.alive /\ DOMAIN t.client = Addr
      /\ DOMAIN t.client[a] = ClientFields
      /\ \A b \in Addr \ {a} : t.client[b] = s.client[b]
      /\ t.client[a].sock = f /\ t.client[a].state = "connected"
      /\ t.client[a].pid = s.client[a].pid /\ t.client[a].userid = s.client[a].userid
      /\ t.client[a].pipe_out = s.client[a].pipe_out /\ t.client[a].pipe_in = s.client[a].pipe_in
      /\ t.connected = s.connected /\ t.disconnected = s.disconnected
      /\ t.count = s.count /\ t.connection_id = s.connection_id
      /\ t.up = s.up /\ t.sigterm = s.sigterm
  BY <1>1 DEF Shape, Fields, ClientFields
<1>3. Reconnect(s, a, f) = link_client_data(unlink_client_data(t, a), a, "connected")
  BY DEF Reconnect
<1> HIDE DEF t
<1>4. OkBut(s, a) /\ Fine(s, a)
  BY BusyWith DEF MasterOK
<1>5. Shape(t) /\ Lists(t)
  BY <1>1, <1>2 DEF Shape, Lists
<1>6. \A b \in s.alive : b \in Addr /\ t.client[b].pid = s.client[b].pid
                         /\ t.client[b].pipe_out = s.client[b].pipe_out
  BY <1>1, <1>2 DEF Shape
<1>7. Piped(t) /\ Apart(t, t.alive)
  BY <1>2, <1>6 DEF MasterOK, Piped, Apart
<1>8. OpenFds(t.client[a]) \subseteq OpenFds(s.client[a]) \cup {f}
  BY <1>2 DEF OpenFds
<1>9. ASSUME NEW b \in t.alive \ {a}
      PROVE  Fine(t, b) /\ OpenFds(t.client[b]) \cap OpenFds(t.client[a]) = {}
  <2>1. Fine(s, b) /\ t.client[b] = s.client[b] /\ f \notin OpenFds(s.client[b])
        /\ OpenFds(s.client[b]) \cap OpenFds(s.client[a]) = {}
    BY <1>1, <1>2, <1>4, <1>6 DEF OkBut
  <2>2. Owns(t, b)
    BY <1>2, <2>1 DEF Fine, Owns, OpenFds
  <2> QED
    BY <1>2, <1>8, <2>1, <2>2 DEF Fine, Plays, Placed, Whole
<1>10. OkBut(t, a)
  BY <1>1, <1>2, <1>4, <1>5, <1>7, <1>9 DEF OkBut, Apart
<1>11. Owns(t, a) /\ Plays(t, a)
  <2>1. {t.client[a].sock, t.client[a].pipe_out, t.client[a].pipe_in} \subseteq Fd \cup {NoFd}
    BY <1>10 DEF OkBut
  <2>2. \A g \in OpenFds(t.client[a]) : t.map[g] = a /\ g \in t.watched
    <3>1. \A g \in OpenFds(s.client[a]) : g \in Fd /\ s.map[g] = a /\ g \in s.watched
      BY <1>4 DEF Fine, Owns, OpenFds
    <3> QED
      BY <1>2, <1>8, <3>1
  <2>3. t.file[t.client[a].sock].t = "sock" /\ User[t.file[t.client[a].sock].who] = t.client[a].userid
    BY <1>2 DEF Sock
  <2> QED
    BY <1>2, <1>4, <2>1, <2>2, <2>3 DEF Fine, Owns, Plays
<1>12. \A b \in t.alive \ {a} : t.client[b].pid # t.client[a].pid
  BY <1>2, <1>7 DEF Apart
<1>13. MasterOK(Reconnect(s, a, f)) /\ Reaching(t, Reconnect(s, a, f))
  BY <1>2, <1>3, <1>10, <1>11, <1>12, Relinked
<1>14. Reaching(s, t)
  BY <1>2, <1>6 DEF Reaching, Reached
<1> QED
  BY <1>13, <1>14 DEF Reaching

SocketLost(s, a) ==
  [CloseFds(s, {s.client[a].sock}) EXCEPT
     !.map[s.client[a].sock] = None, !.client[a].sock = NoFd, !.client[a].unsent = None]

LEMMA LostSocket ==
  ASSUME NEW s, MasterOK(s), NEW a \in s.alive, s.client[a].sock # NoFd
  PROVE  LET t == SocketLost(s, a) IN
         /\ OkBut(t, a) /\ Reaching(s, t)
         /\ Owns(t, a) /\ Plays(t, a)
         /\ t.client[a].sock = NoFd /\ t.client[a].unsent = None
         /\ t.client[a].pipe_out = s.client[a].pipe_out /\ t.client[a].pipe_in = s.client[a].pipe_in
         /\ \A b \in t.alive \ {a} : t.client[b].pid # t.client[a].pid
<1> DEFINE f == s.client[a].sock
           x == CloseFds(s, {f})
           t == SocketLost(s, a)
<1>1. Shape(s) /\ Lists(s) /\ a \in Addr /\ Fine(s, a) /\ OkBut(s, a)
  BY BusyWith DEF MasterOK, Shape
<1>2. f \in Fd /\ f \in OpenFds(s.client[a]) /\ s.file[f].t = "sock"
  BY <1>1 DEF Fine, Owns, OpenFds
<1>3. /\ DOMAIN x = Fields /\ DOMAIN x.file = Fd
      /\ \A g \in Fd : x.file[g] = IF g \in {f} THEN Closed ELSE s.file[g]
      /\ x.watched = s.watched \ {f}
      /\ x.map = s.map /\ x.alive = s.alive /\ x.client = s.client
      /\ x.connected = s.connected /\ x.disconnected = s.disconnected /\ x.count = s.count
      /\ x.connection_id = s.connection_id /\ x.up = s.up /\ x.sigterm = s.sigterm
  BY <1>1, CloseFdsKeeps
<1>4. t = [x EXCEPT !.map[f] = None, !.client[a].sock = NoFd, !.client[a].unsent = None]
  BY DEF SocketLost
<1> HIDE DEF x
<1> HIDE DEF t
<1> HIDE DEF f
<1>5. /\ DOMAIN t = Fields /\ t.file = x.file /\ t.watched = s.watched \ {f}
      /\ DOMAIN t.map = Fd /\ \A g \in Fd \ {f} : t.map[g] = s.map[g]
      /\ t.alive = s.alive /\ DOMAIN t.client = Addr
      /\ DOMAIN t.client[a] = ClientFields
      /\ \A b \in Addr \ {a} : t.client[b] = s.client[b]
      /\ t.client[a].sock = NoFd /\ t.client[a].unsent = None
      /\ t.client[a].pid = s.client[a].pid
      /\ t.client[a].pipe_out = s.client[a].pipe_out /\ t.client[a].pipe_in = s.client[a].pipe_in
      /\ t.connected = s.connected /\ t.disconnected = s.disconnected
      /\ t.count = s.count /\ t.connection_id = s.connection_id
      /\ t.up = s.up /\ t.sigterm = s.sigterm
  BY <1>1, <1>2, <1>3, <1>4 DEF Shape, Fields, ClientFields
<1>6. Shape(t) /\ Lists(t)
  BY <1>1, <1>3, <1>5 DEF Shape, Lists
<1>7. \A b \in s.alive : b \in Addr /\ t.client[b].pid = s.client[b].pid
                         /\ t.client[b].pipe_out = s.client[b].pipe_out
  BY <1>1, <1>5 DEF Shape
<1>8. \A g \in Fd, p \in Pid : t.file[g] = Out(p) <=> s.file[g] = Out(p)
  BY <1>2, <1>3, <1>5 DEF Closed, Out
<1>9. Piped(t) /\ Apart(t, t.alive)
  BY <1>5, <1>7, <1>8 DEF MasterOK, Piped, Apart
<1>10. OpenFds(t.client[a]) \subseteq OpenFds(s.client[a])
  BY <1>5 DEF OpenFds
<1>11. ASSUME NEW b \in t.alive \ {a}
       PROVE  Fine(t, b) /\ OpenFds(t.client[b]) \cap OpenFds(t.client[a]) = {}
  <2>1. Fine(s, b) /\ t.client[b] = s.client[b] /\ f \notin OpenFds(s.client[b])
        /\ OpenFds(s.client[b]) \cap OpenFds(s.client[a]) = {}
    BY <1>1, <1>2, <1>5, <1>7 DEF OkBut
  <2>2. \A g \in OpenFds(s.client[b]) : g \in Fd /\ g # f
    BY <2>1 DEF Fine, Owns, OpenFds
  <2>3. Owns(t, b)
    BY <1>3, <1>5, <2>1, <2>2 DEF Fine, Owns, OpenFds
  <2> QED
    BY <1>5, <1>10, <2>1, <2>3 DEF Fine, Plays, Placed, Whole
<1>12. OkBut(t, a)
  BY <1>1, <1>5, <1>6, <1>9, <1>11 DEF OkBut, Apart
<1>13. Owns(t, a) /\ Plays(t, a)
  <2>1. s.client[a].pipe_in # f /\ s.client[a].pipe_out # f
    BY <1>1, <1>2, Numbers DEF Fine, Owns, In, Out
  <2>2. \A g \in OpenFds(t.client[a]) : t.map[g] = a /\ g \in t.watched
    <3>1. \A g \in OpenFds(t.client[a]) : g \in Fd /\ s.map[g] = a /\ g \in s.watched /\ g # f
      BY <1>1, <1>5, <2>1 DEF Fine, Owns, OpenFds
    <3> QED
      BY <1>5, <3>1
  <2>3. t.client[a].pipe_in # NoFd => t.file[t.client[a].pipe_in] = In(t.client[a].pid)
    BY <1>1, <1>3, <1>5, <2>1 DEF Fine, Owns
  <2>4. t.client[a].pipe_out # NoFd => t.file[t.client[a].pipe_out] = Out(t.client[a].pid)
    BY <1>1, <1>3, <1>5, <2>1 DEF Fine, Owns
  <2>5. Owns(t, a)
    BY <1>5, <1>12, <2>2, <2>3, <2>4 DEF OkBut, Owns
  <2> QED
    BY <1>1, <1>5, <2>5 DEF Fine, Plays
<1>14. \A b \in t.alive \ {a} : t.client[b].pid # t.client[a].pid
  BY <1>5, <1>9 DEF Apart
<1>15. Reaching(s, t)
  BY <1>5, <1>7, <1>8 DEF Reaching, Reached
<1> QED
  BY <1>5, <1>12, <1>13, <1>14, <1>15 DEF t

(* t is s but for what client a's data says beside his descriptors. *)
Retouched(s, t, a) ==
  /\ DOMAIN t = Fields
  /\ t.file = s.file /\ t.map = s.map /\ t.watched = s.watched /\ t.alive = s.alive
  /\ t.connected = s.connected /\ t.disconnected = s.disconnected /\ t.count = s.count
  /\ t.connection_id = s.connection_id /\ t.up = s.up /\ t.sigterm = s.sigterm
  /\ DOMAIN t.client = Addr /\ \A b \in Addr \ {a} : t.client[b] = s.client[b]
  /\ DOMAIN t.client[a] = ClientFields /\ t.client[a].userid = s.client[a].userid
  /\ t.client[a].sock = s.client[a].sock
  /\ t.client[a].pipe_out = s.client[a].pipe_out /\ t.client[a].pipe_in = s.client[a].pipe_in

LEMMA RetouchedIsBusy ==
  ASSUME NEW s, NEW a, OkBut(s, a), NEW t, Retouched(s, t, a)
  PROVE  OkBut(t, a)
<1>1. Shape(s) /\ a \in Addr /\ a \in s.alive
  BY DEF OkBut, Shape
<1>2. Shape(t) /\ Lists(t)
  BY <1>1 DEF OkBut, Shape, Lists, Retouched
<1>3. \A b \in s.alive : b \in Addr /\ t.client[b].pipe_out = s.client[b].pipe_out
                         /\ OpenFds(t.client[b]) = OpenFds(s.client[b])
  BY <1>1 DEF Shape, Retouched, OpenFds
<1>4. Piped(t)
  BY <1>3 DEF OkBut, Piped, Retouched
<1>5. \A b \in s.alive \ {a} : t.client[b] = s.client[b]
  BY <1>3 DEF Retouched
<1>6. Apart(t, t.alive \ {a})
  BY <1>5 DEF OkBut, Apart, Retouched
<1>7. ASSUME NEW b \in t.alive \ {a} PROVE Fine(t, b)
  <2>1. Fine(s, b) /\ t.client[b] = s.client[b]
    BY <1>5 DEF OkBut, Retouched
  <2> QED
    BY <2>1 DEF Fine, Owns, Plays, Placed, Whole, Retouched
<1> QED
  BY <1>1, <1>2, <1>3, <1>4, <1>6, <1>7 DEF OkBut, Retouched

LEMMA GoesToWait ==
  ASSUME NEW s, MasterOK(s), NEW a \in s.alive, s.client[a].sock # NoFd,
         s.client[a].pipe_in # NoFd, s.client[a].pipe_out # NoFd
  PROVE  LET t == link_client_data(unlink_client_data(
                    [SocketLost(s, a) EXCEPT !.client[a].state = "disconnected"], a),
                    a, "disconnected")
         IN MasterOK(t) /\ Reaching(s, t)
<1> DEFINE x == SocketLost(s, a)
           y == [x EXCEPT !.client[a].state = "disconnected"]
           t == link_client_data(unlink_client_data(y, a), a, "disconnected")
<1>1. /\ OkBut(x, a) /\ Reaching(s, x)
      /\ Owns(x, a) /\ Plays(x, a)
      /\ x.client[a].sock = NoFd /\ x.client[a].unsent = None
      /\ x.client[a].pipe_out # NoFd /\ x.client[a].pipe_in # NoFd
      /\ \A b \in x.alive \ {a} : x.client[b].pid # x.client[a].pid
  BY LostSocket
<1> HIDE DEF x
<1>2. Shape(x) /\ a \in Addr
  BY <1>1 DEF OkBut, Shape
<1>3. Retouched(x, y, a) /\ y.client[a].state = "disconnected"
      /\ y.client[a].pid = x.client[a].pid /\ y.client[a].unsent = None
  BY <1>1, <1>2 DEF Retouched, Shape, Fields, ClientFields
<1> HIDE DEF y
<1>4. OkBut(y, a)
  BY <1>1, <1>3, RetouchedIsBusy
<1>5. Owns(y, a) /\ Plays(y, a) /\ Whole(y, a)
  BY <1>1, <1>3 DEF Owns, Plays, Whole, Retouched, OpenFds
<1>6. \A b \in y.alive \ {a} : y.client[b].pid # y.client[a].pid
  BY <1>1, <1>2, <1>3 DEF Retouched, Shape
<1>7. MasterOK(t) /\ Reaching(y, t)
  BY <1>3, <1>4, <1>5, <1>6, Relinked
<1>8. Reaching(x, y)
  <2>1. \A b \in x.alive : y.client[b].pid = x.client[b].pid
    BY <1>2, <1>3 DEF Retouched, Shape
  <2> QED
    BY <1>3, <2>1 DEF Reaching, Reached, Retouched
<1> QED
  BY <1>1, <1>7, <1>8 DEF Reaching, x, y

(* His game has closed its pipes, so it is ending and need not be told. *)
LEMMA GoesForGood ==
  ASSUME NEW s, MasterOK(s), NEW a \in s.alive, s.client[a].sock # NoFd,
         ~(s.client[a].pipe_in # NoFd /\ s.client[a].pipe_out # NoFd)
  PROVE  LET t == cleanup_game_process([SocketLost(s, a) EXCEPT !.client[a].pid = NoPid], a) IN
         /\ MasterOK(t)
         /\ game \in [Pid -> {"none", "running", "exiting", "dead"}] =>
              \A p \in Pid : game[p] = "running" /\ Reached(s, p) => Reached(t, p)
<1> DEFINE x == SocketLost(s, a)
           y == [x EXCEPT !.client[a].pid = NoPid]
           t == cleanup_game_process(y, a)
<1>1. /\ OkBut(x, a) /\ Reaching(s, x)
      /\ Owns(x, a) /\ Plays(x, a)
      /\ x.client[a].pipe_out = s.client[a].pipe_out /\ x.client[a].pipe_in = s.client[a].pipe_in
      /\ \A b \in x.alive \ {a} : x.client[b].pid # x.client[a].pid
  BY LostSocket
<1> HIDE DEF x
<1>2. Shape(x) /\ a \in Addr
  BY <1>1 DEF OkBut, Shape
<1>3. Retouched(x, y, a)
  BY <1>1, <1>2 DEF Retouched, Shape, Fields, ClientFields
<1> HIDE DEF y
<1>4. OkBut(y, a)
  BY <1>1, <1>3, RetouchedIsBusy
<1>5. x.client[a].pipe_out = NoFd
  BY <1>1 DEF MasterOK, Fine, Plays
<1>6. ASSUME NEW p \in Pid, Reached(x, p) PROVE Reached(y, p)
  <2>1. CASE x.client[a].pid = p
    <3>1. ASSUME NEW f \in Fd, x.file[f] = Out(p) PROVE FALSE
      <4>1. PICK b \in x.alive : x.client[b].pipe_out = f
        BY <1>1, <3>1 DEF OkBut, Piped
      <4>2. f # NoFd
        BY Numbers
      <4>3. b # a
        BY <1>5, <4>1, <4>2
      <4>4. Owns(x, b)
        BY <1>1, <4>1, <4>3 DEF OkBut, Fine
      <4>5. x.file[f] = Out(x.client[b].pid)
        BY <4>1, <4>2, <4>4 DEF Owns
      <4>6. x.client[b].pid = p
        BY <3>1, <4>5 DEF Out
      <4> QED
        BY <1>1, <2>1, <4>1, <4>3, <4>6
    <3>2. \A f \in Fd : y.file[f] # Out(p)
      BY <1>3, <3>1 DEF Retouched
    <3> QED
      BY <3>2 DEF Reached
  <2>2. CASE x.client[a].pid # p
    <3>1. \A b \in x.alive \ {a} : y.client[b] = x.client[b]
      BY <1>2, <1>3 DEF Retouched, Shape
    <3> QED
      BY <1>3, <1>6, <2>2, <3>1 DEF Reached, Retouched
  <2> QED
    BY <2>1, <2>2
<1>7. /\ MasterOK(t)
      /\ game \in [Pid -> {"none", "running", "exiting", "dead"}] =>
           \A p \in Pid : game[p] = "running" /\ Reached(y, p) => Reached(t, p)
  BY <1>4, Cleaned
<1> QED
  BY <1>1, <1>6, <1>7 DEF Reaching, x, y

LEMMA UnsentChanges ==
  ASSUME NEW s, MasterOK(s), NEW a \in s.alive, s.client[a].state = "connected",
         NEW t, Retouched(s, t, a), t.client[a].state = "connected",
         t.client[a].pid = s.client[a].pid
  PROVE  MasterOK(t) /\ Reaching(s, t)
<1>1. OkBut(s, a) /\ Fine(s, a) /\ Lists(s) /\ Shape(s) /\ a \in Addr
  BY BusyWith DEF MasterOK, Shape
<1>2. OkBut(t, a)
  BY <1>1, RetouchedIsBusy
<1>3. Owns(t, a) /\ Plays(t, a)
  BY <1>1 DEF Fine, Owns, Plays, Retouched, OpenFds
<1>4. Placed(t, a)
  BY <1>1 DEF Fine, Placed, Lists, Retouched
<1>5. \A b \in s.alive : b \in Addr /\ t.client[b].pid = s.client[b].pid
  BY <1>1 DEF Shape, Retouched
<1>6. \A b \in t.alive \ {a} : t.client[b].pid # t.client[a].pid
  BY <1>5 DEF MasterOK, Apart, Retouched
<1>7. Reaching(s, t)
  BY <1>5 DEF Reaching, Reached, Retouched
<1> QED
  BY <1>2, <1>3, <1>4, <1>6, <1>7, DoneWith DEF Fine

LEMMA PipesClosed ==
  ASSUME NEW s, MasterOK(s), NEW a \in s.alive, s.client[a].state = "connected"
  PROVE  LET t == close_client_pipe(s, a) IN MasterOK(t) /\ Reaching(s, t)
<1> DEFINE P == {s.client[a].pipe_out, s.client[a].pipe_in} \ {NoFd}
           h == IF s.client[a].sock = NoFd THEN s
                ELSE [s EXCEPT !.shut = @ \cup {s.file[s.client[a].sock].who}]
           x == CloseFds(h, P)
           y == [x EXCEPT !.map = [f \in Fd |-> IF f \in P THEN None ELSE @[f]],
                          !.client[a].pipe_out = NoFd, !.client[a].pipe_in = NoFd]
           W == IF s.client[a].sock = NoFd THEN {} ELSE {s.file[s.client[a].sock]}
           t == Notify(y, W)
<1>1. close_client_pipe(s, a) = t
  BY DEF close_client_pipe
<1>2. Shape(s) /\ Lists(s) /\ a \in Addr /\ Fine(s, a) /\ OkBut(s, a)
  BY BusyWith DEF MasterOK, Shape
<1>3. /\ DOMAIN h = Fields
      /\ h.file = s.file /\ h.map = s.map /\ h.watched = s.watched /\ h.alive = s.alive
      /\ h.client = s.client /\ h.connected = s.connected /\ h.disconnected = s.disconnected
      /\ h.count = s.count /\ h.connection_id = s.connection_id /\ h.up = s.up
      /\ h.sigterm = s.sigterm
  BY <1>2 DEF Shape, Fields
<1> HIDE DEF h
<1>4. Shape(h)
  BY <1>2, <1>3 DEF Shape
<1>5. /\ DOMAIN x = Fields /\ DOMAIN x.file = Fd
      /\ \A g \in Fd : x.file[g] = IF g \in P THEN Closed ELSE h.file[g]
      /\ x.watched = h.watched \ P
      /\ x.map = h.map /\ x.alive = h.alive /\ x.client = h.client
      /\ x.connected = h.connected /\ x.disconnected = h.disconnected /\ x.count = h.count
      /\ x.connection_id = h.connection_id /\ x.up = h.up /\ x.sigterm = h.sigterm
  BY <1>4, CloseFdsKeeps
<1> HIDE DEF x
<1> HIDE DEF P
<1>6. /\ DOMAIN y = Fields /\ DOMAIN y.file = Fd /\ DOMAIN y.map = Fd
      /\ \A g \in Fd : /\ y.file[g] = IF g \in P THEN Closed ELSE s.file[g]
                       /\ y.map[g] = IF g \in P THEN None ELSE s.map[g]
      /\ y.watched = s.watched \ P
      /\ y.alive = s.alive /\ DOMAIN y.client = Addr
      /\ DOMAIN y.client[a] = ClientFields
      /\ \A b \in Addr \ {a} : y.client[b] = s.client[b]
      /\ y.client[a].state = "connected"
      /\ y.client[a].sock = s.client[a].sock
      /\ y.client[a].pid = s.client[a].pid /\ y.client[a].userid = s.client[a].userid
      /\ y.client[a].pipe_out = NoFd /\ y.client[a].pipe_in = NoFd
      /\ y.connected = s.connected /\ y.disconnected = s.disconnected
      /\ y.count = s.count /\ y.connection_id = s.connection_id
      /\ y.up = s.up /\ y.sigterm = s.sigterm
  BY <1>2, <1>3, <1>5 DEF Shape, Fields, ClientFields
<1> HIDE DEF y
<1> HIDE DEF W
<1>7. Shape(y) /\ Lists(y)
  BY <1>2, <1>6 DEF Shape, Lists
<1>8. \A b \in s.alive : b \in Addr /\ y.client[b].pid = s.client[b].pid
  BY <1>2, <1>6 DEF Shape
<1>9. Apart(y, y.alive)
  BY <1>6, <1>8 DEF MasterOK, Apart
<1>10. \A g \in Fd, p \in Pid : y.file[g] = Out(p) => s.file[g] = Out(p) /\ g \notin P
  BY <1>6 DEF Closed, Out
<1>11. Piped(y)
  <2> SUFFICES ASSUME NEW g \in Fd, NEW p \in Pid, y.file[g] = Out(p)
              PROVE  \E b \in y.alive : y.client[b].pipe_out = g
    BY DEF Piped
  <2>1. s.file[g] = Out(p) /\ g \notin P /\ g # NoFd
    BY <1>10, Numbers
  <2>2. PICK b \in s.alive : s.client[b].pipe_out = g
    BY <2>1 DEF MasterOK, Piped
  <2>3. b # a
    BY <2>1, <2>2 DEF P
  <2> QED
    BY <1>6, <1>8, <2>2, <2>3
<1>12. P \subseteq OpenFds(s.client[a])
  BY DEF P, OpenFds
<1>13. ASSUME NEW b \in s.alive \ {a} PROVE Fine(y, b)
  <2>1. Fine(s, b) /\ y.client[b] = s.client[b] /\ OpenFds(s.client[b]) \cap P = {}
    BY <1>2, <1>6, <1>8, <1>12 DEF OkBut
  <2>2. Owns(y, b)
    BY <1>6, <2>1 DEF Fine, Owns, OpenFds
  <2> QED
    BY <1>6, <2>1, <2>2 DEF Fine, Plays, Placed, Whole
<1>14. Fine(y, a)
  <2>1. s.client[a].sock # NoFd => s.client[a].sock \notin P
    BY <1>2 DEF Fine, Owns, P, In, Out
  <2>2. OpenFds(y.client[a]) \subseteq OpenFds(s.client[a]) \ P
    BY <1>6, <2>1 DEF OpenFds
  <2>3. Owns(y, a)
    BY <1>2, <1>6, <2>1, <2>2 DEF Fine, Owns, OpenFds
  <2>4. Placed(y, a)
    BY <1>2, <1>6 DEF Fine, Placed, Lists
  <2> QED
    BY <1>2, <1>6, <2>3, <2>4 DEF Fine, Plays
<1>15. MasterOK(y)
  BY <1>6, <1>7, <1>9, <1>11, <1>13, <1>14 DEF MasterOK
<1>16. Reaching(s, y)
  BY <1>6, <1>8, <1>10 DEF Reaching, Reached
<1>17. /\ DOMAIN t = Fields /\ t.file = y.file /\ t.map = y.map /\ t.watched = y.watched
       /\ t.alive = y.alive /\ t.client = y.client /\ t.connected = y.connected
       /\ t.disconnected = y.disconnected /\ t.count = y.count
       /\ t.connection_id = y.connection_id /\ t.up = y.up /\ t.sigterm = y.sigterm
  BY <1>6, NotifyKeeps
<1> HIDE DEF t
<1>18. MasterOK(t)
  <2>1. t.up \in BOOLEAN
    BY <1>7, <1>17 DEF Shape
  <2> QED
    BY <1>15, <1>17, <2>1, Alike
<1>19. Reaching(y, t)
  BY <1>17, StillReached
<1> QED
  BY <1>1, <1>16, <1>18, <1>19 DEF Reaching

-----------------------------------------------------------------------------
(* handle_new_connection.                                                  *)

LEMMA Unregisters ==
  ASSUME NEW s, MasterOK(s), NEW f, Spare(s, f)
  PROVE  LET t == Unregistered(s, f) IN MasterOK(t) /\ Spare(t, f) /\ Reaching(s, t)
<1> DEFINE t == Unregistered(s, f)
<1>1. Shape(s) /\ f \in Fd /\ \A p \in Pid : s.file[f] # Out(p)
  BY NoPipeSpare DEF MasterOK, Spare
<1>2. CASE s.map[f] = Dummy
  <2>1. /\ DOMAIN t = Fields /\ t.file = s.file
        /\ DOMAIN t.map = Fd /\ \A g \in Fd \ {f} : t.map[g] = s.map[g]
        /\ t.watched = s.watched \ {f} /\ t.alive = s.alive /\ t.client = s.client
        /\ t.connected = s.connected /\ t.disconnected = s.disconnected /\ t.count = s.count
        /\ t.connection_id = s.connection_id /\ t.up = s.up /\ t.sigterm = s.sigterm
    BY <1>1, <1>2 DEF Unregistered, Shape, Fields
  <2>2. DOMAIN t.file = Fd
    BY <1>1, <2>1 DEF Shape
  <2> HIDE DEF t
  <2> QED
    BY <1>1, <2>1, <2>2, SpareChange DEF t
<1>3. CASE s.map[f] # Dummy
  BY <1>3 DEF Unregistered, Reaching
<1> QED
  BY <1>2, <1>3

LEMMA Watches ==
  ASSUME NEW s, MasterOK(s), NEW f, Spare(s, f), NEW c
  PROVE  LET t == Watch(s, f, Sock(c)) IN
         /\ MasterOK(t) /\ Spare(t, f) /\ Reaching(s, t)
         /\ t.file[f] = Sock(c) /\ f \in t.watched /\ t.alive = s.alive /\ t.client = s.client
         /\ t.connection_id = s.connection_id
<1> DEFINE t == Watch(s, f, Sock(c))
<1>1. Shape(s) /\ f \in Fd
  BY DEF MasterOK, Spare
<1>2. /\ DOMAIN t = Fields /\ DOMAIN t.file = Fd
      /\ t.file[f] = Sock(c) /\ \A g \in Fd \ {f} : t.file[g] = s.file[g]
      /\ t.map = s.map /\ t.watched = s.watched \cup {f} /\ t.alive = s.alive
      /\ t.client = s.client
      /\ t.connected = s.connected /\ t.disconnected = s.disconnected /\ t.count = s.count
      /\ t.connection_id = s.connection_id /\ t.up = s.up /\ t.sigterm = s.sigterm
  BY <1>1 DEF Watch, Add, Shape, Fields
<1>3. DOMAIN t.map = Fd /\ \A p \in Pid : t.file[f] # Out(p)
  BY <1>1, <1>2 DEF Shape, Sock, Out
<1> HIDE DEF t
<1> QED
  BY <1>2, <1>3, SpareChange DEF t

LEMMA Onward ==
  ASSUME ServerInv, MasterOK(m'), game' = game,
         \A p \in Pid : game[p] = "running" /\ Reached(m, p) => Reached(m', p)
  PROVE  ServerInv'
<1>1. \A p \in Pid : game'[p] = "running" => Reached(m', p)
  BY DEF ServerInv
<1>2. MasterOK(m)'
  OBVIOUS
<1>3. (\A p \in Pid : game[p] = "running" => Reached(m, p))'
  BY <1>1
<1> QED
  BY <1>2, <1>3 DEF ServerInv

LEMMA NewGameKeeps ==
  ASSUME ServerInv, NEW s, MasterOK(s), NEW f, Spare(s, f), Reaching(m, s), NEW c,
         NewGame(s, f, c)
  PROVE  ServerInv'
<1>1. PICK a \in Addr \ s.alive :
        LET p == s.connection_id
            s1 == NewClientLinked(s, f, c, a)
        IN /\ p \in Pid
           /\ \/ CanPipe(s1) /\ m' = fork_client(s1, a, p) /\ game' = [game EXCEPT ![p] = "running"]
              \/ m' = cleanup_game_process(s1, a) /\ game' = game
              \/ /\ CanPipe(s1) /\ game' = game
                 /\ m' = cleanup_game_process(WithPipes(s1, a, ErrPid), a)
  BY DEF NewGame, NewClientLinked
<1> DEFINE p == s.connection_id
           s1 == NewClientLinked(s, f, c, a)
<1>2. /\ OkBut(s1, a) /\ Owns(s1, a) /\ Reaching(s, s1)
      /\ s1.client[a] = NewClient(s, c, f)
      /\ s1.connection_id = s.connection_id + 1
      /\ \A b \in s1.alive \ {a} : s1.client[b].pid < p
  BY NewlyLinked
<1> HIDE DEF s1
<1>3. /\ s1.client[a].pid = NoPid /\ s1.client[a].pipe_out = NoFd /\ s1.client[a].pipe_in = NoFd
      /\ s1.client[a].state = "connected"
  BY <1>2 DEF NewClient
<1>4. game \in [Pid -> {"none", "running", "exiting", "dead"}]
  BY DEF ServerInv
<1>5. p \in Pid /\ p \in Nat /\ p < s1.connection_id
  BY <1>1, <1>2 DEF MasterOK, Shape
<1>6. CASE CanPipe(s1) /\ m' = fork_client(s1, a, p) /\ game' = [game EXCEPT ![p] = "running"]
  <2>1. MasterOK(fork_client(s1, a, p)) /\ Reaching(s1, fork_client(s1, a, p))
        /\ Reached(fork_client(s1, a, p), p)
    BY <1>2, <1>3, <1>5, <1>6, Forked
  <2>2. MasterOK(m)'
    BY <1>6, <2>1
  <2>3. (game \in [Pid -> {"none", "running", "exiting", "dead"}])'
    BY <1>4, <1>5, <1>6
  <2>4. ASSUME NEW q \in Pid, game'[q] = "running" PROVE Reached(m', q)
    <3>1. CASE q = p
      BY <1>6, <2>1, <3>1
    <3>2. CASE q # p
      <4>1. game[q] = "running"
        BY <1>4, <1>5, <1>6, <2>4, <3>2
      <4>2. Reached(s1, q)
        BY <1>2, <4>1 DEF ServerInv, Reaching
      <4> QED
        BY <1>6, <2>1, <4>2 DEF Reaching
    <3> QED
      BY <3>1, <3>2
  <2> QED
    BY <2>2, <2>3, <2>4 DEF ServerInv
<1>7. CASE m' = cleanup_game_process(s1, a) /\ game' = game
  <2>1. /\ MasterOK(m')
        /\ \A q \in Pid : game[q] = "running" /\ Reached(s1, q) => Reached(m', q)
    BY <1>2, <1>4, <1>7, Cleaned
  <2>2. \A q \in Pid : Reached(m, q) => Reached(s1, q)
    BY <1>2 DEF Reaching
  <2> QED
    BY <1>7, <2>1, <2>2, Onward
<1>8. CASE /\ CanPipe(s1) /\ game' = game
           /\ m' = cleanup_game_process(WithPipes(s1, a, ErrPid), a)
  <2>1. OkBut(WithPipes(s1, a, ErrPid), a) /\ Reaching(s1, WithPipes(s1, a, ErrPid))
    BY <1>2, <1>3, <1>8, Plumbed
  <2>2. /\ MasterOK(m')
        /\ \A q \in Pid : game[q] = "running" /\ Reached(WithPipes(s1, a, ErrPid), q) => Reached(m', q)
    BY <1>4, <1>8, <2>1, Cleaned
  <2>3. \A q \in Pid : Reached(m, q) => Reached(WithPipes(s1, a, ErrPid), q)
    BY <1>2, <2>1 DEF Reaching
  <2> QED
    BY <1>8, <2>2, <2>3, Onward
<1> QED
  BY <1>1, <1>6, <1>7, <1>8 DEF s1

LEMMA Handled ==
  ASSUME ServerInv, NEW s0, MasterOK(s0), NEW f, Spare(s0, f), Reaching(m, s0), NEW c,
         handle_new_connection(s0, f, c)
  PROVE  ServerInv'
<1> DEFINE s == Unregistered(s0, f)
<1>1. MasterOK(s) /\ Spare(s, f) /\ Reaching(m, s)
  BY Unregisters DEF Reaching
<1>2. \/ Refused(s, f, c)
      \/ IncompleteJSON(s, c)
      \/ \E a : a # None /\ (\E rid : a = FindClient(s, User[c], rid)) /\ Reconnected(s, f, c, a)
      \/ NewGame(s, f, c)
  BY DEF handle_new_connection
<1> HIDE DEF s
<1>3. CASE Refused(s, f, c)
  <2>1. m' = CloseFds(s, {f}) /\ game' = game
    BY <1>3 DEF Refused
  <2>2. MasterOK(m') /\ Reaching(m, m')
    BY <1>1, <2>1, CloseSpare DEF Reaching
  <2> QED
    BY <2>1, <2>2, Onward DEF Reaching
<1>4. CASE IncompleteJSON(s, c)
  BY <1>1, <1>4, Onward DEF IncompleteJSON, Reaching
<1>5. ASSUME NEW a, NEW rid, a # None, a = FindClient(s, User[c], rid), Reconnected(s, f, c, a)
      PROVE  ServerInv'
  <2> DEFINE w == Watch(s, f, Sock(c))
  <2>1. a \in s.alive /\ s.client[a].userid = User[c]
    BY <1>1, <1>5, Found DEF MasterOK, Lists
  <2>2. /\ MasterOK(w) /\ Spare(w, f) /\ Reaching(s, w)
        /\ w.file[f] = Sock(c) /\ f \in w.watched /\ w.alive = s.alive /\ w.client = s.client
    BY <1>1, Watches
  <2>3. m' = Reconnect(w, a, f) /\ game' = game
    BY <1>5 DEF Reconnected
  <2> HIDE DEF w
  <2>4. MasterOK(m') /\ Reaching(w, m')
    BY <2>1, <2>2, <2>3, CameBack
  <2> QED
    BY <1>1, <2>2, <2>3, <2>4, Onward DEF Reaching
<1>6. CASE NewGame(s, f, c)
  BY <1>1, <1>6, NewGameKeeps
<1> QED
  BY <1>2, <1>3, <1>4, <1>5, <1>6

-----------------------------------------------------------------------------
(* The steps.                                                              *)

(* t is s but for what epoll, the listening sockets and the signals did. *)
SameClients(s, t) ==
  /\ DOMAIN t = Fields
  /\ t.file = s.file /\ t.map = s.map /\ t.watched = s.watched /\ t.alive = s.alive
  /\ t.client = s.client /\ t.connected = s.connected /\ t.disconnected = s.disconnected
  /\ t.count = s.count /\ t.connection_id = s.connection_id /\ t.sigterm = s.sigterm
  /\ t.up \in BOOLEAN

LEMMA SameIsOK ==
  ASSUME NEW s, MasterOK(s), NEW t, SameClients(s, t)
  PROVE  MasterOK(t) /\ Reaching(s, t)
<1>1. MasterOK(t)
  BY Alike DEF SameClients
<1>2. Reaching(s, t)
  BY StillReached DEF SameClients
<1> QED
  BY <1>1, <1>2

LEMMA Untouched ==
  ASSUME ServerInv, SameClients(m, m'),
         game' \in [Pid -> {"none", "running", "exiting", "dead"}],
         \A p \in Pid : game'[p] = "running" => game[p] = "running"
  PROVE  ServerInv'
<1>1. MasterOK(m') /\ Reaching(m, m')
  BY SameIsOK DEF ServerInv
<1>2. \A p \in Pid : game'[p] = "running" => Reached(m', p)
  BY <1>1 DEF ServerInv, Reaching
<1> QED
  BY <1>1, <1>2 DEF ServerInv

LEMMA Wakes ==
  ASSUME NEW s, Shape(s), NEW F
  PROVE  SameClients(s, Notify(s, F))
BY NotifyKeeps DEF SameClients, Shape

LEMMA Pops ==
  ASSUME ServerInv
  PROVE  /\ SameClients(m, Popped) /\ SameClients(m, Served)
         /\ MasterOK(Popped) /\ Reaching(m, Popped)
         /\ MasterOK(Served) /\ Reaching(m, Served)
<1>1. Shape(m)
  BY DEF ServerInv, MasterOK
<1>2. SameClients(m, Popped)
  BY <1>1 DEF Popped, SameClients, Shape, Fields
<1>3. SameClients(m, Served)
  BY <1>1 DEF Popped, Served, SameClients, Shape, Fields
<1> QED
  BY <1>2, <1>3, SameIsOK DEF ServerInv

LEMMA AcceptStep ==
  ASSUME ServerInv, Accept
  PROVE  ServerInv'
<1>1. MasterOK(m) /\ Shape(m) /\ game \in [Pid -> {"none", "running", "exiting", "dead"}]
  BY DEF ServerInv, MasterOK
<1>2. CASE m.backlog[e.fd] = <<>> \/ FdsOf(m, Closed) = {}
  BY <1>1, <1>2, Pops, Untouched DEF Accept
<1>3. CASE ~(m.backlog[e.fd] = <<>> \/ FdsOf(m, Closed) = {})
  <2> DEFINE c == Head(m.backlog[e.fd])
             f == FreeFd(m, 1)
             s == [Popped EXCEPT !.backlog[e.fd] = Tail(@)]
  <2>1. IF c \in Local
        THEN m' = map_fd_to_client(Watch(s, f, Sock(c)), f, Dummy) /\ game' = game
        ELSE handle_new_connection([s EXCEPT !.file[f] = Sock(c)], f, c)
    BY <1>3 DEF Accept
  <2>2. f \in Fd /\ m.file[f] = Closed
    BY <1>3, LowestFree
  <2>3. SameClients(m, s)
    BY Pops DEF SameClients, Fields
  <2> HIDE DEF s
  <2> HIDE DEF f
  <2> HIDE DEF c
  <2>4. MasterOK(s) /\ Reaching(m, s) /\ Shape(s) /\ s.file[f] = Closed
    BY <1>1, <2>2, <2>3, SameIsOK DEF MasterOK, SameClients
  <2>5. Spare(s, f)
    BY <2>2, <2>4, ClosedIsSpare
  <2>6. CASE c \in Local
    <3> DEFINE w == Watch(s, f, Sock(c))
               t == map_fd_to_client(w, f, Dummy)
    <3>1. MasterOK(w) /\ Spare(w, f) /\ Reaching(s, w) /\ w.file[f] = Sock(c)
      BY <2>4, <2>5, Watches
    <3> HIDE DEF w
    <3>2. /\ DOMAIN t = Fields /\ t.file = w.file /\ t.map = [w.map EXCEPT ![f] = Dummy]
          /\ t.watched = w.watched /\ t.alive = w.alive /\ t.client = w.client
          /\ t.connected = w.connected /\ t.disconnected = w.disconnected /\ t.count = w.count
          /\ t.connection_id = w.connection_id /\ t.up = w.up /\ t.sigterm = w.sigterm
      BY <3>1 DEF map_fd_to_client, MasterOK, Shape, Fields
    <3> HIDE DEF t
    <3>3. DOMAIN t.file = Fd /\ DOMAIN t.map = Fd /\ \A p \in Pid : t.file[f] # Out(p)
      BY <3>1, <3>2 DEF MasterOK, Shape, Sock, Out
    <3>4. \A g \in Fd \ {f} : /\ t.file[g] = w.file[g] /\ t.map[g] = w.map[g]
                              /\ g \in w.watched => g \in t.watched
      BY <3>1, <3>2 DEF MasterOK, Shape
    <3>5. MasterOK(t) /\ Reaching(w, t)
      BY <3>1, <3>2, <3>3, <3>4, SpareChange
    <3>6. m' = t /\ game' = game
      BY <2>1, <2>6 DEF t, w
    <3> QED
      BY <2>4, <3>1, <3>5, <3>6, Onward DEF Reaching
  <2>7. CASE c \notin Local
    <3> DEFINE t == [s EXCEPT !.file[f] = Sock(c)]
    <3>1. /\ DOMAIN t = Fields /\ t.file = [s.file EXCEPT ![f] = Sock(c)] /\ t.map = s.map
          /\ t.watched = s.watched /\ t.alive = s.alive /\ t.client = s.client
          /\ t.connected = s.connected /\ t.disconnected = s.disconnected /\ t.count = s.count
          /\ t.connection_id = s.connection_id /\ t.up = s.up /\ t.sigterm = s.sigterm
      BY <2>4 DEF Shape, Fields
    <3> HIDE DEF t
    <3>2. DOMAIN t.file = Fd /\ DOMAIN t.map = Fd /\ \A p \in Pid : t.file[f] # Out(p)
      BY <2>2, <2>4, <3>1 DEF Shape, Sock, Out
    <3>3. \A g \in Fd \ {f} : /\ t.file[g] = s.file[g] /\ t.map[g] = s.map[g]
                              /\ g \in s.watched => g \in t.watched
      BY <2>4, <3>1 DEF Shape
    <3>4. MasterOK(t) /\ Spare(t, f) /\ Reaching(s, t)
      BY <2>4, <2>5, <3>1, <3>2, <3>3, SpareChange
    <3>5. handle_new_connection(t, f, c)
      BY <2>1, <2>7 DEF t
    <3> QED
      BY <2>4, <3>4, <3>5, Handled DEF Reaching
  <2> QED
    BY <2>6, <2>7
<1> QED
  BY <1>2, <1>3

LEMMA NewConnectionStep ==
  ASSUME ServerInv, NewConnectionEvent
  PROVE  ServerInv'
<1>1. e.fd \in Fd /\ m.map[e.fd] = Dummy /\ m.alive \subseteq Addr
  BY DEF NewConnectionEvent, ServerInv, MasterOK, Shape
<1>2. /\ MasterOK(Served) /\ Reaching(m, Served) /\ SameClients(m, Served)
      /\ game \in [Pid -> {"none", "running", "exiting", "dead"}]
  BY Pops DEF ServerInv
<1>3. Spare(Served, e.fd)
  BY <1>1, <1>2, UnmappedIsSpare, ServerAssumption DEF SameClients
<1>4. \/ m' = CloseFds(Served, {e.fd}) /\ game' = game
      \/ handle_new_connection(Served, e.fd, m.file[e.fd].who)
      \/ m' = Served /\ game' = game
  BY DEF NewConnectionEvent
<1>5. CASE m' = CloseFds(Served, {e.fd}) /\ game' = game
  <2>1. MasterOK(m') /\ Reaching(Served, m')
    BY <1>2, <1>3, <1>5, CloseSpare
  <2> QED
    BY <1>2, <1>5, <2>1, Onward DEF Reaching
<1>6. CASE handle_new_connection(Served, e.fd, m.file[e.fd].who)
  BY <1>2, <1>3, <1>6, Handled
<1>7. CASE m' = Served /\ game' = game
  BY <1>2, <1>7, Untouched
<1> QED
  BY <1>4, <1>5, <1>6, <1>7

LEMMA FreedStep ==
  ASSUME ServerInv, FreedEvent
  PROVE  ServerInv'
<1>1. e.fd \in Fd /\ m.map[e.fd] \notin m.alive
  BY DEF FreedEvent
<1>2. /\ MasterOK(Served) /\ Reaching(m, Served) /\ SameClients(m, Served)
      /\ game \in [Pid -> {"none", "running", "exiting", "dead"}]
  BY Pops DEF ServerInv
<1>3. Spare(Served, e.fd)
  BY <1>1, <1>2, UnmappedIsSpare DEF SameClients
<1>4. (m' = CloseFds(Served, {e.fd}) \/ m' = Served) /\ game' = game
  BY DEF FreedEvent
<1>5. CASE m' = CloseFds(Served, {e.fd})
  <2>1. MasterOK(m') /\ Reaching(Served, m')
    BY <1>2, <1>3, <1>5, CloseSpare
  <2> QED
    BY <1>2, <1>4, <2>1, Onward DEF Reaching
<1>6. CASE m' = Served
  BY <1>2, <1>4, <1>6, Untouched
<1> QED
  BY <1>4, <1>5, <1>6

(* What the handlers of a client's events start from. *)
LEMMA Serves ==
  ASSUME ServerInv, m.map[e.fd] \in m.alive
  PROVE  LET a == m.map[e.fd] IN
         /\ MasterOK(Served) /\ Reaching(m, Served) /\ SameClients(m, Served) /\ Shape(Served)
         /\ a \in Served.alive /\ a \in Addr /\ OkBut(Served, a)
         /\ game \in [Pid -> {"none", "running", "exiting", "dead"}]
<1>1. /\ MasterOK(Served) /\ Reaching(m, Served) /\ SameClients(m, Served)
      /\ game \in [Pid -> {"none", "running", "exiting", "dead"}]
  BY Pops DEF ServerInv
<1>2. Shape(Served) /\ m.map[e.fd] \in Served.alive
  BY <1>1 DEF MasterOK, SameClients
<1> QED
  BY <1>1, <1>2, BusyWith DEF Shape

LEMMA CleanedStep ==
  ASSUME ServerInv, NEW s, NEW a, OkBut(s, a), Reaching(m, s),
         m' = cleanup_game_process(s, a), game' = game
  PROVE  ServerInv'
<1>1. /\ MasterOK(m')
      /\ game \in [Pid -> {"none", "running", "exiting", "dead"}] =>
           \A p \in Pid : game[p] = "running" /\ Reached(s, p) => Reached(m', p)
  BY Cleaned
<1> QED
  BY <1>1, Onward DEF Reaching, ServerInv

LEMMA DisconnectedStep ==
  ASSUME ServerInv, DisconnectedEvent
  PROVE  ServerInv'
<1>1. m.map[e.fd] \in m.alive
  BY DEF DisconnectedEvent, Belongs
<1>2. /\ SameClients(m, Served) /\ Reaching(m, Served) /\ OkBut(Served, m.map[e.fd])
      /\ game \in [Pid -> {"none", "running", "exiting", "dead"}]
  BY <1>1, Serves
<1>3. (m' = cleanup_game_process(Served, m.map[e.fd]) \/ m' = Served) /\ game' = game
  BY DEF DisconnectedEvent
<1> QED
  BY <1>2, <1>3, CleanedStep, Untouched

LEMMA TailKeeps ==
  ASSUME NEW s, MasterOK(s), NEW a \in s.alive, s.client[a].state = "connected",
         NEW t, SendTail(s, a), m' = t
  PROVE  MasterOK(t) /\ Reaching(s, t)
<1> DEFINE u == [s EXCEPT !.client[a].unsent = None]
<1>1. Shape(s) /\ a \in Addr
  BY DEF MasterOK, Shape
<1>2. Retouched(s, u, a) /\ u.client[a].state = "connected" /\ u.client[a].pid = s.client[a].pid
  BY <1>1 DEF Retouched, Shape, Fields, ClientFields
<1>3. MasterOK(u) /\ Reaching(s, u)
  BY <1>2, UnsentChanges
<1> HIDE DEF u
<1>4. \A x : MasterOK(x) => SameClients(x, FlushTail(x, a))
  <2> SUFFICES ASSUME NEW x, MasterOK(x) PROVE SameClients(x, FlushTail(x, a))
    OBVIOUS
  <2>1. Shape(x)
    BY DEF MasterOK
  <2>2. SameClients(x, x)
    BY <2>1 DEF SameClients, Shape
  <2> QED
    BY <2>1, <2>2, Wakes DEF FlushTail
<1>5. \A x : MasterOK(x) => MasterOK(FlushTail(x, a)) /\ Reaching(x, FlushTail(x, a))
  BY <1>4, SameIsOK
<1>6. PICK c : \/ t = FlushTail(u, a) \/ t = FlushTail(s, a)
               \/ t = FlushTail([s EXCEPT !.shut = @ \cup {c}], a)
  BY DEF SendTail, u
<1>7. SameClients(s, [s EXCEPT !.shut = @ \cup {c}])
  BY <1>1 DEF SameClients, Shape, Fields
<1>8. MasterOK([s EXCEPT !.shut = @ \cup {c}]) /\ Reaching(s, [s EXCEPT !.shut = @ \cup {c}])
  BY <1>7, SameIsOK
<1> QED
  BY <1>3, <1>5, <1>6, <1>8 DEF Reaching

LEMMA SockStep ==
  ASSUME ServerInv, SockEvent
  PROVE  ServerInv'
<1> DEFINE a == m.map[e.fd]
           c == m.client[a]
<1>1. /\ a \in m.alive /\ c.state = "connected" /\ e.fd \in Fd /\ e.fd = c.sock /\ c.sock # NoFd
      /\ game' = game
  BY Numbers DEF SockEvent, Belongs
<1>2. /\ MasterOK(Served) /\ Reaching(m, Served) /\ SameClients(m, Served)
      /\ a \in Served.alive /\ OkBut(Served, a) /\ Served.client = m.client
      /\ game \in [Pid -> {"none", "running", "exiting", "dead"}]
  BY <1>1, Serves DEF SameClients
<1>3. \/ SockClosed(a)
      \/ SendTail(Served, a)
      \/ m' = Served
      \/ m' = cleanup_game_process(Served, a)
  BY DEF SockEvent, SockData
<1> HIDE DEF a
<1>4. CASE SockClosed(a)
  <2>1. m' = IF c.pipe_in # NoFd /\ c.pipe_out # NoFd
             THEN link_client_data(unlink_client_data(
                    [SocketLost(Served, a) EXCEPT !.client[a].state = "disconnected"], a),
                    a, "disconnected")
             ELSE cleanup_game_process([SocketLost(Served, a) EXCEPT !.client[a].pid = NoPid], a)
    BY <1>2, <1>4 DEF SockClosed, SocketLost
  <2>2. CASE c.pipe_in # NoFd /\ c.pipe_out # NoFd
    <3>1. MasterOK(m') /\ Reaching(Served, m')
      BY <1>1, <1>2, <2>1, <2>2, GoesToWait
    <3> QED
      BY <1>1, <1>2, <3>1, Onward DEF Reaching
  <2>3. CASE ~(c.pipe_in # NoFd /\ c.pipe_out # NoFd)
    <3>1. /\ MasterOK(m')
          /\ \A p \in Pid : game[p] = "running" /\ Reached(Served, p) => Reached(m', p)
      BY <1>1, <1>2, <2>1, <2>3, GoesForGood
    <3> QED
      BY <1>1, <1>2, <3>1, Onward DEF Reaching
  <2> QED
    BY <2>2, <2>3
<1>5. CASE SendTail(Served, a)
  <2>1. MasterOK(m') /\ Reaching(Served, m')
    BY <1>1, <1>2, <1>5, TailKeeps
  <2> QED
    BY <1>1, <1>2, <2>1, Onward DEF Reaching
<1>6. CASE m' = Served
  BY <1>1, <1>2, <1>6, Untouched
<1>7. CASE m' = cleanup_game_process(Served, a)
  BY <1>1, <1>2, <1>7, CleanedStep
<1> QED
  BY <1>3, <1>4, <1>5, <1>6, <1>7

LEMMA PipeStep ==
  ASSUME ServerInv, PipeEvent
  PROVE  ServerInv'
<1> DEFINE a == m.map[e.fd]
<1>1. a \in m.alive /\ m.client[a].state = "connected" /\ game' = game
  BY DEF PipeEvent, Belongs
<1>2. /\ MasterOK(Served) /\ Reaching(m, Served) /\ SameClients(m, Served) /\ Shape(Served)
      /\ a \in Served.alive /\ a \in Addr /\ Served.client = m.client
      /\ game \in [Pid -> {"none", "running", "exiting", "dead"}]
  BY <1>1, Serves DEF SameClients
<1>3. PICK w : \/ m' = close_client_pipe(Served, a)
               \/ m' = Served
               \/ m' = [Served EXCEPT !.client[a].unsent = w]
               \/ m' = [Served EXCEPT !.shut = @ \cup {w}]
  BY DEF PipeEvent, PipeInData
<1> HIDE DEF a
<1>4. CASE m' = close_client_pipe(Served, a)
  <2>1. MasterOK(m') /\ Reaching(Served, m')
    BY <1>1, <1>2, <1>4, PipesClosed
  <2> QED
    BY <1>1, <1>2, <2>1, Onward DEF Reaching
<1>5. CASE m' = Served
  BY <1>1, <1>2, <1>5, Untouched
<1>6. CASE m' = [Served EXCEPT !.client[a].unsent = w]
  <2>1. /\ Retouched(Served, m', a) /\ m'.client[a].state = "connected"
        /\ m'.client[a].pid = Served.client[a].pid
    BY <1>1, <1>2, <1>6 DEF Retouched, Shape, Fields, ClientFields
  <2>2. MasterOK(m') /\ Reaching(Served, m')
    BY <1>1, <1>2, <2>1, UnsentChanges
  <2> QED
    BY <1>1, <1>2, <2>2, Onward DEF Reaching
<1>7. CASE m' = [Served EXCEPT !.shut = @ \cup {w}]
  <2>1. SameClients(Served, m')
    BY <1>2, <1>7 DEF SameClients, Shape, Fields
  <2>2. SameClients(m, m')
    BY <1>2, <2>1 DEF SameClients
  <2> QED
    BY <1>1, <1>2, <2>2, Untouched
<1> QED
  BY <1>3, <1>4, <1>5, <1>6, <1>7

LEMMA LoopStep ==
  ASSUME ServerInv,
         NobodysEvent \/ StrayEvent \/ Wait \/ trigger_server_shutdown \/ Check
           \/ ShutdownTimeout \/ signal_quit
  PROVE  ServerInv'
<1>1. /\ Shape(m) /\ game \in [Pid -> {"none", "running", "exiting", "dead"}]
      /\ SameClients(m, Popped) /\ SameClients(m, Served)
  BY Pops DEF ServerInv, MasterOK
<1>2. SameClients(m, m)
  BY <1>1 DEF SameClients, Shape
<1>3. SameClients(m, finally)
  BY <1>1 DEF SameClients, Shape, Fields, finally
<1>4. CASE NobodysEvent
  BY <1>1, <1>4, Untouched DEF NobodysEvent
<1>5. CASE StrayEvent
  BY <1>1, <1>5, Untouched DEF StrayEvent
<1>6. CASE Wait
  <2>1. PICK b : m' = [m EXCEPT !.ready = <<>>, !.batch = b]
    BY <1>6 DEF Wait
  <2>2. SameClients(m, m')
    BY <1>1, <2>1 DEF SameClients, Shape, Fields
  <2> QED
    BY <1>1, <1>6, <2>2, Untouched DEF Wait
<1>7. CASE trigger_server_shutdown
  <2>1. PICK b, r : m' = [m EXCEPT !.termination_flag = 2, !.backlog = b, !.ready = r] \/ m' = finally
    BY <1>7 DEF trigger_server_shutdown
  <2>2. SameClients(m, m')
    BY <1>1, <1>3, <2>1 DEF SameClients, Shape, Fields
  <2> QED
    BY <1>1, <1>7, <2>2, Untouched DEF trigger_server_shutdown
<1>8. CASE Check
  <2>1. m' = finally \/ m' = [m EXCEPT !.check = FALSE]
    BY <1>8 DEF Check
  <2>2. SameClients(m, m')
    BY <1>1, <1>3, <2>1 DEF SameClients, Shape, Fields
  <2> QED
    BY <1>1, <1>8, <2>2, Untouched DEF Check
<1>9. CASE ShutdownTimeout
  BY <1>1, <1>3, <1>9, Untouched DEF ShutdownTimeout
<1>10. CASE signal_quit
  <2>1. SameClients(m, m')
    BY <1>1, <1>10 DEF SameClients, Shape, Fields, signal_quit
  <2> QED
    BY <1>1, <1>10, <2>1, Untouched DEF signal_quit
<1> QED
  BY <1>4, <1>5, <1>6, <1>7, <1>8, <1>9, <1>10

LEMMA CleanUpStep ==
  ASSUME ServerInv, CleanUp
  PROVE  ServerInv'
<1>1. MasterOK(m) /\ Shape(m) /\ Lists(m)
  BY DEF ServerInv, MasterOK
<1>2. PICK l \in {m.disconnected, m.connected} : l # <<>> /\ m' = cleanup_game_process(m, Head(l))
  BY DEF CleanUp
<1>3. l \in Seq(Addr) /\ Entries(l) \subseteq m.alive
  BY <1>1 DEF Shape, Lists
<1>4. 1 \in DOMAIN l /\ Head(l) = l[1]
  BY <1>2, <1>3
<1>5. Head(l) \in m.alive
  BY <1>3, <1>4 DEF Entries
<1>6. OkBut(m, Head(l))
  BY <1>1, <1>5, BusyWith
<1> QED
  BY <1>2, <1>6, CleanedStep DEF CleanUp, Reaching

LEMMA ShutStep ==
  ASSUME ServerInv, Shut
  PROVE  ServerInv'
<1>1. MasterOK(m) /\ Shape(m) /\ Lists(m) /\ m.connected = <<>> /\ m.disconnected = <<>>
  BY DEF ServerInv, MasterOK, Shut
<1>2. m.alive = {}
  BY <1>1 DEF Lists, Entries
<1>3. /\ DOMAIN m' = Fields /\ m'.file = [f \in Fd |-> Closed] /\ m'.map = m.map
      /\ m'.alive = m.alive /\ m'.client = m.client
      /\ m'.connected = m.connected /\ m'.disconnected = m.disconnected /\ m'.count = m.count
      /\ m'.connection_id = m.connection_id /\ m'.up = FALSE
  BY <1>1 DEF Shut, Shape, Fields
<1>4. Shape(m') /\ Lists(m')
  BY <1>1, <1>3 DEF Shape, Lists
<1>5. \A f \in Fd, p \in Pid : m'.file[f] # Out(p)
  BY <1>3 DEF Closed, Out
<1>6. MasterOK(m')
  BY <1>2, <1>3, <1>4, <1>5 DEF MasterOK, Piped, Apart
<1>7. \A p \in Pid : Reached(m', p)
  BY <1>5 DEF Reached
<1> QED
  BY <1>6, <1>7, Onward DEF Shut

LEMMA WorldStep ==
  ASSUME ServerInv, World \/ Traffic
  PROVE  ServerInv'
<1>1. Shape(m) /\ game \in [Pid -> {"none", "running", "exiting", "dead"}]
  BY DEF ServerInv, MasterOK
<1>2. ASSUME NEW c, Connect(c) PROVE ServerInv'
  <2>1. PICK b, r : m' = [m EXCEPT !.backlog = b, !.ready = r]
    BY <1>1, <1>2 DEF Connect, Shape, Fields
  <2>2. SameClients(m, m')
    BY <1>1, <2>1 DEF SameClients, Shape, Fields
  <2> QED
    BY <1>1, <1>2, <2>2, Untouched DEF Connect
<1>3. ASSUME NEW F, m' = Notify(m, F), game' = game PROVE ServerInv'
  BY <1>1, <1>3, Wakes, Untouched
<1>4. ASSUME NEW c, Login(c) \/ HangUp(c) \/ Drain(c) \/ \E n \in Sizes : Send(c, n)
      PROVE  ServerInv'
  BY <1>3, <1>4 DEF Login, HangUp, Drain, Send
<1>5. ASSUME NEW p, NEW n, Reply(p, n) PROVE ServerInv'
  BY <1>3, <1>5 DEF Reply
<1>6. ASSUME NEW p \in Pid, Exit(p) \/ Die(p) PROVE ServerInv'
  <2>1. PICK F : m' = Notify(m, F)
    BY <1>6 DEF Exit, Die
  <2>2. game' = [game EXCEPT ![p] = "exiting"] \/ game' = [game EXCEPT ![p] = "dead"]
    BY <1>6 DEF Exit, Die
  <2>3. /\ game' \in [Pid -> {"none", "running", "exiting", "dead"}]
        /\ \A q \in Pid : game'[q] = "running" => game[q] = "running"
    BY <1>1, <2>2
  <2> QED
    BY <1>1, <2>1, <2>3, Wakes, Untouched
<1> QED
  BY <1>2, <1>4, <1>5, <1>6 DEF World, Traffic

LEMMA Start ==
  ASSUME ServerInit
  PROVE  ServerInv
<1>1. DOMAIN m = Fields
  BY DEF ServerInit, Fields
<1>2. /\ m.file = [f \in Fd |-> Closed] /\ m.map = [f \in Fd |-> None] /\ m.alive = {}
      /\ DOMAIN m.client = Addr /\ m.connected = <<>> /\ m.disconnected = <<>>
      /\ m.count = 0 /\ m.connection_id = 1 /\ m.up = TRUE
      /\ \A a \in Addr : DOMAIN m.client[a] = ClientFields
  BY DEF ServerInit, ClientFields
<1>3. <<>> \in Seq(Addr) /\ Len(<<>>) = 0 /\ DOMAIN <<>> = {}
  OBVIOUS
<1>4. Shape(m)
  <2>1. m.connected \in Seq(Addr) /\ m.disconnected \in Seq(Addr)
    BY <1>2, <1>3
  <2>2. DOMAIN m.file = Fd /\ DOMAIN m.map = Fd /\ m.alive \subseteq Addr
        /\ m.connection_id \in Nat \ {0}
    BY <1>2
  <2>3. m.up \in BOOLEAN
    BY <1>2, Zenon
  <2> QED
    BY <1>1, <1>2, <2>1, <2>2, <2>3 DEF Shape
<1>5. Entries(m.connected) = {} /\ Entries(m.disconnected) = {}
  BY <1>2, <1>3 DEF Entries
<1>6. Lists(m)
  BY <1>2, <1>3, <1>5 DEF Lists, Once
<1>7. MasterOK(m)
  BY <1>2, <1>4, <1>6 DEF MasterOK, Piped, Apart, Closed, Out
<1>8. game = [p \in Pid |-> "none"]
  BY DEF ServerInit
<1> QED
  BY <1>7, <1>8 DEF ServerInv

LEMMA Steps ==
  ASSUME ServerInv, [ServerNext]_serverVars
  PROVE  ServerInv'
<1>1. CASE UNCHANGED serverVars
  BY <1>1 DEF ServerInv, serverVars
<1>2. CASE Master
  BY <1>2, AcceptStep, NewConnectionStep, FreedStep, DisconnectedStep, SockStep, PipeStep,
     LoopStep, CleanUpStep, ShutStep DEF Master
<1>3. CASE ShutdownTimeout \/ signal_quit
  BY <1>3, LoopStep
<1>4. CASE World \/ Traffic
  BY <1>4, WorldStep
<1> QED
  BY <1>1, <1>2, <1>3, <1>4 DEF ServerNext, QuietNext

-----------------------------------------------------------------------------
(* What the properties are, in terms of the invariant.                     *)

LEMMA InvGivesLists == ServerInv => ListsRight
<1> SUFFICES ASSUME ServerInv PROVE ListsRight
  OBVIOUS
<1>1. Shape(m) /\ Lists(m) /\ \A a \in m.alive : Placed(m, a)
  BY DEF ServerInv, MasterOK, Fine
<1>2. Range(m.connected) = Entries(m.connected) /\ Range(m.disconnected) = Entries(m.disconnected)
  BY DEF Range, Entries
<1>3. IsInjective(m.connected) /\ IsInjective(m.disconnected)
  BY <1>1 DEF IsInjective, Lists, Once
<1>4. Listed = m.alive
  BY <1>1, <1>2 DEF Listed, Lists
<1> QED
  BY <1>1, <1>2, <1>3, <1>4 DEF ListsRight, Lists, Placed

LEMMA InvGivesFds == ServerInv => OwnsFds
BY DEF ServerInv, MasterOK, Fine, Owns, OwnsFds

LEMMA InvGivesWaits == ServerInv => WaitsWhole
<1> SUFFICES ASSUME ServerInv, NEW a \in Range(m.disconnected)
            PROVE  /\ m.client[a].sock = NoFd /\ m.client[a].pipe_in # NoFd
                   /\ m.client[a].pipe_out # NoFd /\ m.client[a].pid \in Pid
                   /\ m.client[a].unsent = None
  BY DEF WaitsWhole
<1>1. a \in Entries(m.disconnected)
  BY DEF Range, Entries
<1>2. a \in m.alive
  BY <1>1 DEF ServerInv, MasterOK, Lists
<1> QED
  BY <1>1, <1>2 DEF ServerInv, MasterOK, Fine, Placed, Plays, Whole

LEMMA InvGivesReach == ServerInv => NoOrphan
<1> SUFFICES ASSUME ServerInv, NEW p \in Pid, game[p] = "running"
            PROVE  \/ \E a \in Listed : m.client[a].pid = p
                   \/ p \in m.sigterm
                   \/ FdsOf(m, Out(p)) = {}
  BY DEF NoOrphan
<1>1. Reached(m, p)
  BY DEF ServerInv
<1>2. Listed = m.alive
  BY InvGivesLists DEF ListsRight
<1> QED
  BY <1>1, <1>2 DEF Reached, FdsOf

-----------------------------------------------------------------------------
(* The run's specification is a special case of ServerSpec. *)
LEMMA QuietIsServer == QuietSpec => ServerSpec
<1>1. [QuietNext]_serverVars => [ServerNext]_serverVars
  BY DEF ServerNext
<1> QED
  BY <1>1, PTL DEF QuietSpec, ServerSpec

LEMMA Always == ServerSpec => []ServerInv
BY Start, Steps, PTL DEF ServerSpec

(* server.c's two lists: each client_data is on the one of its state, once, and
   client_count counts them; so a server that stops because it is 0 leaves
   nobody behind. *)
THEOREM ListsStayRight == ServerSpec => []ListsRight
BY Always, InvGivesLists, PTL

(* fd_to_client: what a client_data says of descriptors is so, however many the
   kernel reuses within one batch of events. *)
THEOREM FdsStayOwned == ServerSpec => []OwnsFds
BY Always, InvGivesFds, PTL

(* "in these client_data structures, sockfd will be -1, but everything else is
   valid", of the clients that wait for their owner. *)
THEOREM WaitingIsWhole == ServerSpec => []WaitsWhole
BY Always, InvGivesWaits, PTL

(* cleanup_game_process, close_client_pipe, fork_client: no game process runs on
   that is on no list, was not told to end and would not notice. *)
THEOREM NoGameIsLost == ServerSpec => []NoOrphan
BY Always, InvGivesReach, PTL
=============================================================================
