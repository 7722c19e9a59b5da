-------------------------- MODULE NetSessionProofs --------------------------
(***************************************************************************)
(* What holds of a player's commands over the network for any number of    *)
(* commands, retries and faults.                                           *)
(*                                                                         *)
(* Two inductive invariants.  InOrder says of every command that is on its *)
(* way that it is not older than what the game has executed; OrderKept     *)
(* follows.  Calm says where the one message of a calm session can be;     *)
(* that a command is executed once, and its answer its own, follows.       *)
(***************************************************************************)
EXTENDS NetSession, TLAPS

(* The commands among the messages of s lie between lo and hi. *)
Within(s, lo, hi) ==
  \A i \in 1..Len(s) : s[i].k = "cmd" => lo <= s[i].n /\ s[i].n \in 1..hi

(* No command of s is younger than one of t. *)
NotAfter(s, t) ==
  \A i \in 1..Len(s), j \in 1..Len(t) : s[i].k = "cmd" /\ t[j].k = "cmd" => s[i].n <= t[j].n

Sorted(s) ==
  \A i, j \in 1..Len(s) : i < j /\ s[i].k = "cmd" /\ s[j].k = "cmd" => s[i].n <= s[j].n

(* What the game may still get: the order in buf and inp does not matter,
   since the game takes a command only when it is all there is. *)
InOrder ==
  /\ gcmd <= n
  /\ pc = "waiting" => n > 0
  /\ pc = "waiting" /\ msg.k = "cmd" => msg.n = n
  /\ Within(buf, gcmd, n) /\ Within(inp, gcmd, n) /\ Within(up, gcmd, n)
  /\ NotAfter(buf, up) /\ NotAfter(inp, up) /\ Sorted(up)

(* Nothing is on its way. *)
Silent == up = <<>> /\ down = <<>> /\ inp = <<>> /\ out = <<>>

(* The commands before the current one got their answers, executed once each,
   the later ones did not begin; the current one was begun "times" times. *)
Tally(times, answered) ==
  /\ \A i \in Cmd : runs[i] = IF i < n THEN 1 ELSE IF i = n THEN times ELSE 0
  /\ \A i \in Cmd : answer[i] = IF i < n \/ (i = n /\ answered) THEN i ELSE 0

(* The command is on its way to the game, perhaps behind an escape, or stuck
   in read_input's buffer, where only an escape gets it out. *)
Underway(x) ==
  \/ up = <<x>> /\ inp = <<>> /\ buf = <<>>
  \/ up = <<x>> /\ inp = <<Esc>> /\ buf \in {<<>>, <<x>>}
  \/ up = <<>> /\ inp = <<Esc, x>> /\ buf \in {<<>>, <<x>>}
  \/ up = <<>> /\ inp = <<x>> /\ buf = <<>>
  \/ up = <<>> /\ inp = <<>> /\ buf = <<x>>

(* Exactly one message of the current command is anywhere. *)
Asked ==
  /\ gproc = "ask" /\ buf = <<>>
  /\ \/ up = <<>> /\ inp = <<>> /\ down = <<M("ask", n)>> /\ out = <<>>
     \/ up = <<>> /\ inp = <<>> /\ down = <<>> /\ out = <<M("ask", n)>>
     \/ msg = M("ans", n) /\ down = <<>> /\ out = <<>> /\ up = <<msg>> /\ inp = <<>>
     \/ msg = M("ans", n) /\ down = <<>> /\ out = <<>> /\ up = <<>> /\ inp = <<msg>>

Done ==
  /\ gproc = "top" /\ buf = <<>> /\ up = <<>> /\ inp = <<>>
  /\ \/ down = <<M("res", n)>> /\ out = <<>>
     \/ down = <<>> /\ out = <<M("res", n)>>

CalmIdle == Silent /\ buf = <<>> /\ gproc # "ask" /\ Tally(1, TRUE)

(* The states of a call: nothing could be sent, the command is sent, the game
   has begun it. *)
NotSent ==
  /\ net # "up" /\ Silent /\ buf = <<>> /\ gproc # "ask"
  /\ msg = M("cmd", n) /\ Tally(0, FALSE)
Sent ==
  /\ net = "up" /\ gproc = "top" /\ down = <<>> /\ out = <<>>
  /\ msg = M("cmd", n) /\ Underway(msg) /\ Tally(0, FALSE)
Begun == net = "up" /\ gcmd = n /\ (Asked \/ Done) /\ Tally(1, FALSE)

CalmWaiting == n > 0 /\ (NotSent \/ Sent \/ Begun)

CalmFailed == n > 0 /\ Silent /\ Tally(0, FALSE)

Calm ==
  calm =>
    /\ net = "up" => link /\ gproc # "none"
    /\ pc = "idle" => CalmIdle
    /\ pc = "waiting" => CalmWaiting
    /\ pc = "failed" => CalmFailed

SessionInv == SessionTypeOK /\ InOrder
CalmInv == SessionTypeOK /\ Calm

-----------------------------------------------------------------------------
(* Sequences of messages. *)

LEMMA Messages ==
  /\ Esc \in Msg /\ Esc.k = "esc" /\ \A x \in Msg : x.k = "cmd" => x # Esc
  /\ \A i \in 0..MaxCmds :
       \A k \in {"cmd", "ans", "res", "ask", "error", "retry"} :
         M(k, i) \in Msg /\ M(k, i).k = k /\ M(k, i).n = i
BY SessionAssumption DEF Esc, M, Msg

LEMMA NoMessages == <<>> \in Seq(Msg)
OBVIOUS

LEMMA HeadOK ==
  ASSUME NEW s \in Seq(Msg), s # <<>>
  PROVE  Tail(s) \in Seq(Msg) /\ Head(s) \in Msg /\ Head(s).n \in 0..MaxCmds
<1>1. Tail(s) \in Seq(Msg) /\ Head(s) \in Msg
  OBVIOUS
<1> QED
  BY <1>1 DEF Msg

LEMMA AppendOK ==
  ASSUME NEW s \in Seq(Msg), NEW x \in Msg, NEW lo \in Nat, NEW hi \in Nat,
         Within(s, lo, hi), x.k = "cmd" => lo <= x.n /\ x.n \in 1..hi
  PROVE  /\ Append(s, x) \in Seq(Msg)
         /\ Within(Append(s, x), lo, hi)
BY DEF Within

LEMMA TailOK ==
  ASSUME NEW s \in Seq(Msg), s # <<>>, NEW lo \in Nat, NEW hi \in Nat, Within(s, lo, hi)
  PROVE  /\ Tail(s) \in Seq(Msg)
         /\ Within(Tail(s), lo, hi)
         /\ Sorted(s) => Sorted(Tail(s))
         /\ \A t \in Seq(Msg) : NotAfter(t, s) => NotAfter(t, Tail(s))
BY DEF Within, Sorted, NotAfter

(* What follows the head is not older. *)
LEMMA HeadFirst ==
  ASSUME NEW s \in Seq(Msg), s # <<>>, Sorted(s),
         NEW t \in Seq(Msg), NotAfter(t, s)
  PROVE  /\ Head(s) \in Msg
         /\ NotAfter(Append(t, Head(s)), Tail(s))
<1>1. Head(s) = s[1] /\ Head(s) \in Msg /\ Tail(s) \in Seq(Msg) /\ Len(Tail(s)) = Len(s) - 1
      /\ \A j \in 1..Len(Tail(s)) : Tail(s)[j] = s[j+1]
  OBVIOUS
<1>2. Append(t, Head(s)) \in Seq(Msg) /\ Len(Append(t, Head(s))) = Len(t) + 1
      /\ \A i \in 1..Len(t) : Append(t, Head(s))[i] = t[i]
      /\ Append(t, Head(s))[Len(t) + 1] = s[1]
  BY <1>1
<1>3. NotAfter(Append(t, Head(s)), Tail(s))
  BY <1>1, <1>2 DEF NotAfter, Sorted
<1> QED
  BY <1>1, <1>3

(* What one read() makes complete is a message that came alone. *)
LEMMA OneMessage ==
  ASSUME NEW s \in Seq(Msg), NEW t \in Seq(Msg), t # <<>>, Len(s \o t) = 1
  PROVE  s = <<>> /\ t = <<t[1]>> /\ (s \o t)[1] = t[1] /\ t[1] \in Msg
<1>1. \A a, b \in Nat : b # 0 /\ a + b = 1 => a = 0 /\ b = 1
  OBVIOUS
<1>2. Len(s) \in Nat /\ Len(t) \in Nat /\ Len(t) # 0
  OBVIOUS
<1>3. Len(s \o t) = Len(s) + Len(t)
  OBVIOUS
<1>4. Len(s) + Len(t) = 1
  BY <1>3
<1>6. Len(s) = 0 /\ Len(t) = 1
  BY <1>1, <1>2, <1>4
<1>5. s = <<>>
  BY <1>6
<1>7. t[1] \in Msg
  BY <1>6
<1>8. t = <<t[1]>>
  BY <1>6
<1>9. s \o t = t
  BY <1>5
<1> QED
  BY <1>5, <1>7, <1>8, <1>9

LEMMA EscapesOK ==
  ASSUME NEW s \in Seq(Msg), NEW times \in Nat, NEW lo \in Nat, NEW hi \in Nat,
         Within(s, lo, hi)
  PROVE  LET t == s \o [i \in 1..times |-> Esc]
         IN  t \in Seq(Msg) /\ Within(t, lo, hi)
<1> DEFINE e == [i \in 1..times |-> Esc]
<1>1. e \in Seq(Msg) /\ Len(e) = times /\ \A i \in 1..times : e[i] = Esc
  BY Messages
<1> HIDE DEF e
<1>2. s \o e \in Seq(Msg) /\ Len(s \o e) = Len(s) + Len(e)
      /\ \A i \in 1..Len(s) + Len(e) : (s \o e)[i] = IF i <= Len(s) THEN s[i] ELSE e[i - Len(s)]
  BY <1>1
<1>3. Within(s \o e, lo, hi)
  BY <1>1, <1>2, Messages DEF Within
<1> QED
  BY <1>2, <1>3 DEF e

-----------------------------------------------------------------------------
(* Types, for both invariants. *)

LEMMA RejoinTypes ==
  ASSUME SessionTypeOK, NEW times \in {1, 2}, Rejoin(times)
  PROVE  /\ net' = "up" /\ down' \in Seq(Msg) /\ link' = TRUE
         /\ inp' \in Seq(Msg) /\ out' \in Seq(Msg) /\ buf' \in Seq(Msg)
         /\ gproc' \in {"none", "top", "ask"} /\ gcmd' \in 0..MaxCmds
<1> USE DEF SessionTypeOK
<1>1. CASE gproc # "none"
  <2>1. inp \o [i \in 1..times |-> Esc] \in Seq(Msg)
    BY Messages
  <2>2. inp' = inp \o [i \in 1..times |-> Esc] /\ UNCHANGED <<gproc, gcmd, buf, out>>
    BY <1>1 DEF Rejoin
  <2>3. inp' \in Seq(Msg)
    BY <2>1, <2>2
  <2> QED
    BY <2>2, <2>3 DEF Rejoin
<1>2. CASE gproc = "none"
  <2>1. [i \in 1..(times - 1) |-> Esc] \in Seq(Msg)
    BY Messages
  <2>2. /\ inp' = [i \in 1..(times - 1) |-> Esc]
        /\ out' = <<>> /\ buf' = <<>> /\ gproc' = "top" /\ UNCHANGED gcmd
    BY <1>2 DEF Rejoin
  <2>3. inp' \in Seq(Msg)
    BY <2>1, <2>2
  <2> QED
    BY <2>2, <2>3 DEF Rejoin
<1> QED
  BY <1>1, <1>2

LEMMA AgainTypes ==
  ASSUME SessionTypeOK, NEW times \in {1, 2}, Again(times)
  PROVE  /\ pc' = pc /\ n' = n /\ msg' = msg /\ answer' = answer /\ runs' = runs
         /\ retry' \in 0..Retries
         /\ net' = "up" /\ down' \in Seq(Msg) /\ link' = TRUE /\ up' \in Seq(Msg)
         /\ inp' \in Seq(Msg) /\ out' \in Seq(Msg) /\ buf' \in Seq(Msg)
         /\ gproc' \in {"none", "top", "ask"} /\ gcmd' \in 0..MaxCmds
<1>1. retry' \in 0..Retries
  BY SessionAssumption DEF Again, SessionTypeOK
<1>2. up' \in Seq(Msg)
  BY DEF Again, SessionTypeOK
<1> QED
  BY <1>1, <1>2, RejoinTypes, NoMessages DEF Again

LEMMA ClientTypes == SessionTypeOK /\ (Issue \/ Client) => SessionTypeOK'
<1> SUFFICES ASSUME SessionTypeOK, Issue \/ Client PROVE SessionTypeOK'
  OBVIOUS
<1> USE SessionAssumption
<1>1. CASE Issue
  BY <1>1, Messages DEF Issue, SessionTypeOK, SendMsg, process
<1>2. CASE Answer
  <2>1. Tail(down) \in Seq(Msg) /\ Head(down).n \in 0..MaxCmds
    BY <1>2, HeadOK DEF Answer, SessionTypeOK
  <2>2. [answer EXCEPT ![n] = Head(down).n] \in [Cmd -> 0..MaxCmds]
    BY <2>1 DEF SessionTypeOK
  <2> QED
    BY <1>2, <2>1, <2>2 DEF Answer, SessionTypeOK, process
<1>3. CASE Broken
  BY <1>3 DEF Broken, SessionTypeOK, process
<1>4. CASE Question
  <2>1. Tail(down) \in Seq(Msg) /\ Head(down).n \in 0..MaxCmds
    BY <1>4, HeadOK DEF Question, SessionTypeOK
  <2>2. msg' \in Msg /\ up' \in Seq(Msg)
    BY <1>4, <2>1, Messages DEF Question, SendMsg, SessionTypeOK
  <2> QED
    BY <1>4, <2>1, <2>2 DEF Question, SessionTypeOK, process
<1>5. CASE Timeout
  <2>a. faults' \in 0..MaxFaults
    BY <1>5 DEF Timeout, SessionTypeOK
  <2>b. calm' \in BOOLEAN
    BY <1>5 DEF Timeout, SessionTypeOK
  <2>1. CASE Again(1)
    BY <2>a, <2>b, <2>1, AgainTypes DEF SessionTypeOK
  <2>2. CASE Unreachable("failed") /\ UNCHANGED retry
    BY <2>a, <2>b, <2>2, NoMessages DEF Unreachable, SessionTypeOK, process
  <2> QED
    BY <1>5, <2>1, <2>2 DEF Timeout
<1>6. CASE ServerError
  <2>1. CASE Again(2)
    BY <1>6, <2>1, AgainTypes, NoMessages DEF ServerError, SessionTypeOK
  <2>2. ASSUME NEW then \in {"idle", "failed"}, Unreachable(then), retry' \in {retry, retry - 1},
               retry' # retry => retry > 0
        PROVE  SessionTypeOK'
    BY <1>6, <2>2 DEF ServerError, Unreachable, SessionTypeOK, process
  <2>3. CASE Rejoin(1) /\ up' = <<>> /\ pc' = "idle" /\ UNCHANGED <<n, msg, retry, answer, runs>>
    BY <1>6, <2>3, RejoinTypes, NoMessages DEF ServerError, SessionTypeOK
  <2> QED
    BY <1>6, <2>1, <2>2, <2>3 DEF ServerError
<1> QED
  BY <1>1, <1>2, <1>3, <1>4, <1>5, <1>6 DEF Client

LEMMA ExitTypes ==
  ASSUME SessionTypeOK, NEW last \in Seq(Msg), ExitClient(last)
  PROVE  /\ gproc' = "none" /\ buf' = <<>> /\ inp' = <<>> /\ out' = <<>> /\ up' = <<>>
         /\ link' = FALSE /\ net' \in {"up", "cut", "closed"} /\ down' \in Seq(Msg)
<1>1. down \o out \in Seq(Msg) /\ down \o out \o last \in Seq(Msg)
  BY DEF SessionTypeOK
<1>2. down' \in Seq(Msg)
  BY <1>1 DEF ExitClient, SessionTypeOK
<1> QED
  BY <1>2 DEF ExitClient, SessionTypeOK

LEMMA ExitKeepsTypes ==
  ASSUME SessionTypeOK, NEW last \in Seq(Msg), ExitClient(last), faults' \in 0..MaxFaults,
         UNCHANGED <<client, gcmd, runs, calm>>
  PROVE  SessionTypeOK'
  BY ExitTypes, NoMessages DEF SessionTypeOK, client

LEMMA ServerTypes == SessionTypeOK /\ (Relay \/ Cut \/ Read \/ Inactive) => SessionTypeOK'
<1> SUFFICES ASSUME SessionTypeOK, Relay \/ Cut \/ Read \/ Inactive PROVE SessionTypeOK'
  OBVIOUS
<1> USE SessionAssumption DEF client, wire, process
<1>1. CASE ToGame
  BY <1>1 DEF ToGame, SessionTypeOK
<1>2. CASE ToClient
  BY <1>2 DEF ToClient, SessionTypeOK
<1>3. CASE HangUpSeen
  BY <1>3 DEF HangUpSeen, SessionTypeOK
<1>4. CASE Cut
  <2>1. up' \in Seq(Msg) /\ down' \in Seq(Msg)
    BY <1>4, NoMessages DEF Cut, SessionTypeOK
  <2>2. faults' \in 0..MaxFaults /\ calm' \in BOOLEAN
    BY <1>4, NoMessages DEF Cut, SessionTypeOK
  <2> QED
    BY <1>4, <2>1, <2>2 DEF Cut, SessionTypeOK
<1>6. CASE Inactive
  <2>1. <<>> \in Seq(Msg) /\ faults' \in 0..MaxFaults
    BY <1>6 DEF Inactive, SessionTypeOK
  <2> QED
    BY <1>6, <2>1, ExitKeepsTypes, NoMessages DEF Inactive
<1>7. CASE Read
  <2>1. inp # <<>> /\ Head(inp) \in Msg /\ Tail(inp) \in Seq(Msg) /\ buf \o inp \in Seq(Msg)
    BY <1>7 DEF Read, SessionTypeOK
  <2>2. ASSUME NEW x \in Msg, Handle(x) PROVE SessionTypeOK'
    <3>1. CASE gproc = "top" /\ x.k = "cmd"
      <4>1. x.n \in 0..MaxCmds /\ Begin(x.n) /\ inp' = <<>> /\ buf' = <<>> /\ UNCHANGED <<wire, link>>
        BY <2>2, <3>1 DEF Handle, Msg
      <4>2. out' \in Seq(Msg) /\ gproc' \in {"top", "ask"} /\ gcmd' \in 0..MaxCmds
        <5>1. M("ask", x.n) \in Msg /\ M("res", x.n) \in Msg
          BY <4>1, Messages
        <5>2. out \in Seq(Msg)
          BY DEF SessionTypeOK
        <5>3. CASE x.n \in Asking
          <6>1. out' = Append(out, M("ask", x.n)) /\ gproc' = "ask" /\ gcmd' = x.n
            BY <4>1, <5>3 DEF Begin
          <6> QED
            BY <4>1, <5>1, <5>2, <6>1
        <5>4. CASE x.n \notin Asking
          <6>1. out' = Append(out, M("res", x.n)) /\ gproc' = "top" /\ gcmd' = x.n
            BY <4>1, <5>4 DEF Begin
          <6> QED
            BY <4>1, <5>1, <5>2, <6>1
        <5> QED
          BY <5>3, <5>4
      <4>3. runs' \in [Cmd -> Nat]
        <5>1. runs' = [runs EXCEPT ![x.n] = @ + 1]
          BY <4>1 DEF Begin
        <5>2. CASE x.n \in Cmd
          BY <5>1, <5>2 DEF SessionTypeOK
        <5>3. CASE x.n \notin Cmd
          <6>1. runs' = runs
            BY <5>1, <5>3 DEF SessionTypeOK
          <6> QED
            BY <6>1 DEF SessionTypeOK
        <5> QED
          BY <5>2, <5>3
      <4> QED
        BY <1>7, <4>1, <4>2, <4>3 DEF Read, SessionTypeOK
    <3>2. CASE gproc = "ask" /\ x.k = "ans"
      <4>1. /\ gproc' = "top" /\ out' = Append(out, M("res", gcmd))
            /\ inp' = <<>> /\ buf' = <<>> /\ UNCHANGED <<gcmd, runs, wire, link>>
        BY <2>2, <3>2 DEF Handle
      <4>2. out' \in Seq(Msg)
        BY <4>1, Messages DEF SessionTypeOK
      <4> QED
        BY <1>7, <4>1, <4>2 DEF Read, SessionTypeOK
    <3>3. ASSUME NEW last \in Seq(Msg), ExitClient(last), UNCHANGED <<gcmd, runs>>
          PROVE  SessionTypeOK'
      BY <1>7, <3>3, ExitKeepsTypes, NoMessages DEF Read, SessionTypeOK
    <3>4. <<M("retry", 0)>> \in Seq(Msg) /\ <<M("error", 0)>> \in Seq(Msg)
      BY Messages
    <3> QED
      BY <2>2, <3>1, <3>2, <3>3, <3>4 DEF Handle
  <2>3. CASE Head(inp) = Esc /\ inp' = <<>> /\ buf' = Tail(inp)
             /\ UNCHANGED <<wire, link, out, gproc, gcmd, runs>>
    BY <1>7, <2>1, <2>3 DEF Read, SessionTypeOK
  <2>4. CASE ExitClient(<<>>) /\ UNCHANGED <<gcmd, runs>>
    <3>1. <<>> \in Seq(Msg)
      OBVIOUS
    <3> QED
      BY <1>7, <2>4, <3>1, ExitKeepsTypes, NoMessages DEF Read, SessionTypeOK
  <2>5. CASE Len(buf \o inp) = 1 /\ Handle((buf \o inp)[1])
    BY <2>1, <2>2, <2>5
  <2> QED
    BY <1>7, <2>3, <2>4, <2>5 DEF Read
<1> QED
  BY <1>1, <1>2, <1>3, <1>4, <1>6, <1>7 DEF Relay

LEMMA TypesKept == SessionTypeOK /\ [SessionNext]_sessionVars => SessionTypeOK'
<1> SUFFICES ASSUME SessionTypeOK, [SessionNext]_sessionVars PROVE SessionTypeOK'
  OBVIOUS
<1>1. CASE UNCHANGED sessionVars
  BY <1>1 DEF SessionTypeOK, sessionVars, client, wire, process
<1> QED
  BY <1>1, ClientTypes, ServerTypes DEF SessionNext

LEMMA TypesInit == SessionInit => SessionTypeOK
<1> SUFFICES ASSUME SessionInit PROVE SessionTypeOK
  OBVIOUS
<1>1. msg \in Msg
  BY SessionAssumption, Messages DEF SessionInit
<1>2. up \in Seq(Msg) /\ down \in Seq(Msg) /\ inp \in Seq(Msg) /\ out \in Seq(Msg) /\ buf \in Seq(Msg)
  BY NoMessages DEF SessionInit
<1>3. runs \in [Cmd -> Nat] /\ answer \in [Cmd -> 0..MaxCmds]
  BY SessionAssumption DEF SessionInit
<1> QED
  BY <1>1, <1>2, <1>3, SessionAssumption DEF SessionInit, SessionTypeOK

(* Every variable keeps its type. *)
THEOREM TypeCorrect == SessionSpec => []SessionTypeOK
<1> QED
  BY TypesInit, TypesKept, PTL DEF SessionSpec

-----------------------------------------------------------------------------
(* The order of the commands. *)

LEMMA Empty ==
  ASSUME NEW s \in Seq(Msg), NEW lo \in Nat, NEW hi \in Nat
  PROVE  Within(<<>>, lo, hi) /\ Sorted(<<>>) /\ NotAfter(s, <<>>) /\ NotAfter(<<>>, s)
BY DEF Within, Sorted, NotAfter

LEMMA Wider ==
  ASSUME NEW s \in Seq(Msg), NEW lo \in Nat, NEW hi \in Nat, Within(s, lo, hi)
  PROVE  Within(s, lo, hi + 1)
BY DEF Within, Msg

(* What is sent last is the youngest. *)
LEMMA SentLast ==
  ASSUME NEW t \in Seq(Msg), NEW x \in Msg, NEW lo \in Nat, NEW hi \in Nat,
         Within(t, lo, hi), Sorted(t), x.k = "cmd" => x.n >= hi
  PROVE  /\ Sorted(Append(t, x))
         /\ \A s \in Seq(Msg) :
              Within(s, lo, hi) /\ NotAfter(s, t) => NotAfter(s, Append(t, x))
<1>1. /\ Append(t, x) \in Seq(Msg) /\ Len(Append(t, x)) = Len(t) + 1
      /\ \A i \in 1..Len(t) : Append(t, x)[i] = t[i] /\ t[i] \in Msg
      /\ Append(t, x)[Len(t) + 1] = x
  OBVIOUS
<1>4. \A y \in Msg : y.n \in Nat
  BY SessionAssumption DEF Msg
<1>2. Sorted(Append(t, x))
  <2> SUFFICES ASSUME NEW i \in 1..(Len(t) + 1), NEW j \in 1..(Len(t) + 1), i < j,
                      Append(t, x)[i].k = "cmd", Append(t, x)[j].k = "cmd"
               PROVE  Append(t, x)[i].n <= Append(t, x)[j].n
    BY <1>1 DEF Sorted
  <2>1. Len(t) \in Nat
    OBVIOUS
  <2>2. CASE j \in 1..Len(t)
    BY <1>1, <2>1, <2>2 DEF Sorted
  <2>3. CASE j = Len(t) + 1
    <3>1. i \in 1..Len(t) /\ Append(t, x)[i] = t[i] /\ Append(t, x)[j] = x
      BY <1>1, <2>1, <2>3
    <3>2. t[i].n \in Nat /\ x.n \in Nat /\ t[i].n <= hi
      BY <1>1, <1>4, <3>1 DEF Within
    <3> QED
      BY <3>1, <3>2
  <2> QED
    BY <2>1, <2>2, <2>3
<1>3. ASSUME NEW s \in Seq(Msg), Within(s, lo, hi), NotAfter(s, t)
      PROVE  NotAfter(s, Append(t, x))
  BY <1>1, <1>3, <1>4 DEF NotAfter, Within
<1> QED
  BY <1>2, <1>3

LEMMA Alone ==
  ASSUME NEW x \in Msg, NEW lo \in Nat, NEW hi \in Nat, lo <= hi,
         x.k = "cmd" => x.n = hi /\ hi > 0
  PROVE  /\ <<x>> \in Seq(Msg) /\ Within(<<x>>, lo, hi) /\ Sorted(<<x>>)
         /\ \A s \in Seq(Msg) : Within(s, lo, hi) => NotAfter(s, <<x>>)
BY DEF Within, Sorted, NotAfter, Msg

LEMMA EscapesNotAfter ==
  ASSUME NEW times \in Nat, NEW t \in Seq(Msg), NEW lo \in Nat, NEW hi \in Nat
  PROVE  LET e == [i \in 1..times |-> Esc]
         IN  e \in Seq(Msg) /\ Within(e, lo, hi) /\ NotAfter(e, t)
<1> DEFINE e == [i \in 1..times |-> Esc]
<1>1. e \in Seq(Msg) /\ Len(e) = times /\ \A i \in 1..times : e[i] = Esc
  BY Messages
<1> HIDE DEF e
<1>2. Within(e, lo, hi) /\ NotAfter(e, t)
  BY <1>1, Messages DEF Within, NotAfter
<1> QED
  BY <1>1, <1>2 DEF e

(* Reconnecting and sending again keeps the order. *)
LEMMA RejoinOrder ==
  ASSUME SessionInv, NEW times \in {1, 2}, Rejoin(times)
  PROVE  /\ gcmd' = gcmd
         /\ Within(buf', gcmd, n) /\ Within(inp', gcmd, n)
<1>1. CASE gproc # "none"
  <2>1. inp' = inp \o [i \in 1..times |-> Esc] /\ gcmd' = gcmd /\ buf' = buf
    BY <1>1 DEF Rejoin
  <2>2. gcmd \in Nat /\ n \in Nat /\ times \in Nat /\ inp \in Seq(Msg)
        /\ Within(inp, gcmd, n) /\ Within(buf, gcmd, n)
    BY SessionAssumption DEF SessionInv, SessionTypeOK, InOrder
  <2>3. Within(inp \o [i \in 1..times |-> Esc], gcmd, n)
    BY <2>2, EscapesOK
  <2> QED
    BY <2>1, <2>2, <2>3
<1>2. CASE gproc = "none"
  <2>1. inp' = [i \in 1..(times - 1) |-> Esc] /\ gcmd' = gcmd /\ buf' = <<>>
    BY <1>2 DEF Rejoin
  <2>2. gcmd \in Nat /\ n \in Nat /\ times - 1 \in Nat
    BY SessionAssumption DEF SessionInv, SessionTypeOK
  <2>3. Within([i \in 1..(times - 1) |-> Esc], gcmd, n) /\ Within(<<>>, gcmd, n)
    BY <2>2, EscapesNotAfter, Empty, NoMessages
  <2> QED
    BY <2>1, <2>3
<1> QED
  BY <1>1, <1>2

LEMMA AgainOrder ==
  ASSUME SessionInv, SessionTypeOK', pc = "waiting", NEW times \in {1, 2}, Again(times)
  PROVE  InOrder' /\ gcmd' = gcmd
<1>1. /\ gcmd' = gcmd /\ n' = n /\ pc' = pc /\ msg' = msg /\ up' = <<msg>>
      /\ Within(buf', gcmd, n) /\ Within(inp', gcmd, n)
  BY RejoinOrder DEF Again
<1>2. gcmd \in Nat /\ n \in Nat /\ msg \in Msg /\ gcmd <= n /\ n > 0
      /\ (msg.k = "cmd" => msg.n = n)
  BY SessionAssumption DEF SessionInv, InOrder, SessionTypeOK
<1>3. Within(<<msg>>, gcmd, n) /\ Sorted(<<msg>>)
      /\ \A s \in Seq(Msg) : Within(s, gcmd, n) => NotAfter(s, <<msg>>)
  BY <1>2, Alone
<1>4. buf' \in Seq(Msg) /\ inp' \in Seq(Msg)
  BY DEF SessionTypeOK
<1> QED
  BY <1>1, <1>2, <1>3, <1>4 DEF InOrder

LEMMA ClientOrder == SessionInv /\ SessionTypeOK' /\ (Issue \/ Client) => InOrder' /\ gcmd' = gcmd
<1> SUFFICES ASSUME SessionInv, SessionTypeOK', Issue \/ Client PROVE InOrder' /\ gcmd' = gcmd
  OBVIOUS
<1> USE SessionAssumption DEF process
<1>a. /\ up \in Seq(Msg) /\ inp \in Seq(Msg) /\ buf \in Seq(Msg) /\ down \in Seq(Msg)
      /\ gcmd \in Nat /\ n \in Nat /\ gcmd <= n
      /\ Within(buf, gcmd, n) /\ Within(inp, gcmd, n) /\ Within(up, gcmd, n)
      /\ NotAfter(buf, up) /\ NotAfter(inp, up) /\ Sorted(up)
  BY DEF SessionInv, SessionTypeOK, InOrder
<1>1. CASE Issue
  <2>1. n' = n + 1 /\ msg' = M("cmd", n + 1) /\ UNCHANGED <<inp, buf, gcmd>>
        /\ up' = IF net = "up" THEN Append(up, M("cmd", n + 1)) ELSE up
    BY <1>1 DEF Issue, SendMsg
  <2>2. M("cmd", n + 1) \in Msg /\ M("cmd", n + 1).n = n + 1 /\ M("cmd", n + 1).k = "cmd"
    BY <1>1, <1>a, Messages DEF Issue
  <2>3. Within(buf, gcmd, n + 1) /\ Within(inp, gcmd, n + 1) /\ Within(up, gcmd, n + 1)
    BY <1>a, Wider
  <2>4. CASE net = "up"
    <3>1. Within(Append(up, M("cmd", n + 1)), gcmd, n + 1)
      BY <1>a, <2>2, <2>3, AppendOK
    <3>2. Sorted(Append(up, M("cmd", n + 1)))
          /\ NotAfter(buf, Append(up, M("cmd", n + 1))) /\ NotAfter(inp, Append(up, M("cmd", n + 1)))
      BY <1>a, <2>2, <2>3, SentLast
    <3> QED
      BY <1>a, <2>1, <2>2, <2>3, <2>4, <3>1, <3>2 DEF InOrder
  <2>5. CASE net # "up"
    BY <1>a, <2>1, <2>2, <2>3, <2>5 DEF InOrder
  <2> QED
    BY <2>4, <2>5
<1>2. CASE Answer
  BY <1>2 DEF Answer, SessionInv, InOrder
<1>3. CASE Broken
  BY <1>3 DEF Broken, SessionInv, InOrder
<1>4. CASE Question
  <2>1. Head(down).n \in 0..MaxCmds
    BY <1>4, HeadOK DEF Question, SessionInv, SessionTypeOK
  <2> DEFINE x == M("ans", Head(down).n)
  <2>2. x \in Msg /\ x.k # "cmd"
    BY <2>1, Messages
  <2>3. msg' = x /\ UNCHANGED <<pc, n, inp, buf, gcmd>> /\ pc = "waiting"
        /\ up' = IF net = "up" THEN Append(up, x) ELSE up
    BY <1>4 DEF Question, SendMsg
  <2> HIDE DEF x
  <2>4. Within(Append(up, x), gcmd, n)
    BY <1>a, <2>2, AppendOK
  <2>5. Sorted(Append(up, x)) /\ NotAfter(buf, Append(up, x)) /\ NotAfter(inp, Append(up, x))
    BY <1>a, <2>2, SentLast
  <2> QED
    BY <1>a, <2>2, <2>3, <2>4, <2>5 DEF SessionInv, InOrder
<1>b. ASSUME NEW then \in {"idle", "failed"}, Unreachable(then) PROVE InOrder' /\ gcmd' = gcmd
  BY <1>a, <1>b, Empty, NoMessages DEF Unreachable, InOrder
<1>5. CASE Timeout
  BY <1>5, <1>b, AgainOrder DEF Timeout
<1>6. CASE ServerError
  <2>1. CASE Rejoin(1) /\ up' = <<>> /\ pc' = "idle" /\ UNCHANGED <<n, msg, retry, answer, runs>>
    <3>1. gcmd' = gcmd /\ Within(buf', gcmd, n) /\ Within(inp', gcmd, n)
      BY <2>1, RejoinOrder
    <3>2. buf' \in Seq(Msg) /\ inp' \in Seq(Msg)
      BY DEF SessionTypeOK
    <3> QED
      BY <1>a, <2>1, <3>1, <3>2, Empty, NoMessages DEF InOrder
  <2>2. pc = "waiting"
    BY <1>6 DEF ServerError
  <2> QED
    BY <1>6, <1>b, <2>1, <2>2, AgainOrder DEF ServerError
<1> QED
  BY <1>1, <1>2, <1>3, <1>4, <1>5, <1>6 DEF Client

LEMMA ServerOrder ==
  SessionInv /\ SessionTypeOK' /\ (Relay \/ Cut \/ Read \/ Inactive) => InOrder' /\ gcmd' >= gcmd
<1> SUFFICES ASSUME SessionInv, SessionTypeOK', Relay \/ Cut \/ Read \/ Inactive
             PROVE  InOrder' /\ gcmd' >= gcmd
  OBVIOUS
<1> USE SessionAssumption DEF client, wire, process
<1>a. /\ up \in Seq(Msg) /\ inp \in Seq(Msg) /\ buf \in Seq(Msg) /\ down \in Seq(Msg)
      /\ gcmd \in Nat /\ n \in Nat /\ gcmd <= n
      /\ Within(buf, gcmd, n) /\ Within(inp, gcmd, n) /\ Within(up, gcmd, n)
      /\ NotAfter(buf, up) /\ NotAfter(inp, up) /\ Sorted(up)
      /\ pc = "waiting" => n > 0
      /\ pc = "waiting" /\ msg.k = "cmd" => msg.n = n
  BY DEF SessionInv, SessionTypeOK, InOrder
<1>b. ASSUME NEW last \in Seq(Msg), ExitClient(last), UNCHANGED <<client, gcmd>>
      PROVE  InOrder' /\ gcmd' >= gcmd
  <2>1. inp' = <<>> /\ buf' = <<>> /\ up' = <<>> /\ gcmd' = gcmd /\ UNCHANGED <<n, pc, msg>>
    BY <1>b DEF ExitClient
  <2>2. Within(<<>>, gcmd, n) /\ Sorted(<<>>) /\ NotAfter(<<>>, <<>>)
    BY <1>a, Empty, NoMessages
  <2> QED
    BY <1>a, <2>1, <2>2 DEF InOrder
<1>1. CASE ToGame
  <2>1. /\ up # <<>> /\ inp' = Append(inp, Head(up)) /\ up' = Tail(up)
        /\ UNCHANGED <<pc, n, msg, buf, gcmd>>
    BY <1>1 DEF ToGame
  <2>2. Within(Tail(up), gcmd, n) /\ Sorted(Tail(up)) /\ NotAfter(buf, Tail(up))
    BY <1>a, <2>1, TailOK
  <2>3. Head(up) \in Msg /\ NotAfter(Append(inp, Head(up)), Tail(up))
    BY <1>a, <2>1, HeadFirst
  <2>4. Within(Append(inp, Head(up)), gcmd, n)
    <3>1. Head(up).k = "cmd" => gcmd <= Head(up).n /\ Head(up).n \in 1..n
      BY <1>a, <2>1 DEF Within
    <3> QED
      BY <1>a, <2>3, <3>1, AppendOK
  <2> QED
    BY <1>a, <2>1, <2>2, <2>3, <2>4 DEF InOrder
<1>2. CASE ToClient
  BY <1>2, <1>a DEF ToClient, InOrder
<1>3. CASE HangUpSeen
  BY <1>3, <1>a DEF HangUpSeen, InOrder
<1>4. CASE Cut
  BY <1>4, <1>a, Empty DEF Cut, InOrder
<1>5. CASE Inactive
  BY <1>5, <1>b, NoMessages DEF Inactive
<1>6. CASE Read
  <2>1. inp # <<>> /\ UNCHANGED client
    BY <1>6 DEF Read
  <2>2. CASE inp' = <<>> /\ buf' = Tail(inp) /\ UNCHANGED <<wire, gcmd>>
    <3>1. Within(Tail(inp), gcmd, n) /\ Tail(inp) \in Seq(Msg)
      BY <1>a, <2>1, TailOK
    <3>2. NotAfter(Tail(inp), up)
      BY <1>a, <2>1 DEF NotAfter
    <3> QED
      BY <1>a, <2>1, <2>2, <3>1, <3>2, Empty DEF InOrder
  <2>3. CASE Len(buf \o inp) = 1 /\ Handle((buf \o inp)[1])
    <3> DEFINE x == (buf \o inp)[1]
    <3>1. Len(inp) = 1 /\ x = inp[1] /\ x \in Msg
      <4>1. Len(buf \o inp) = 1
        BY <2>3
      <4>2. inp = <<inp[1]>> /\ (buf \o inp)[1] = inp[1] /\ inp[1] \in Msg
        BY <1>a, <2>1, <4>1, OneMessage
      <4> QED
        BY <4>2
    <3>2. x.k = "cmd" => gcmd <= x.n /\ x.n \in 1..n /\ Within(up, x.n, n)
      <4>1. inp[1].k = "cmd" => gcmd <= inp[1].n /\ inp[1].n \in 1..n
        BY <1>a, <3>1 DEF Within
      <4>2. inp[1].k = "cmd" => Within(up, inp[1].n, n)
        BY <1>a, <3>1 DEF Within, NotAfter
      <4> QED
        BY <3>1, <4>1, <4>2
    <3> HIDE DEF x
    <3>3. CASE x.k = "cmd" /\ Begin(x.n) /\ inp' = <<>> /\ buf' = <<>> /\ UNCHANGED <<wire, link>>
      <4>1. gcmd' = x.n
        BY <3>3 DEF Begin
      <4> QED
        BY <1>a, <2>1, <3>2, <3>3, <4>1, Empty, NoMessages DEF InOrder
    <3>4. CASE inp' = <<>> /\ buf' = <<>> /\ UNCHANGED <<gcmd, runs, wire, link>>
      BY <1>a, <2>1, <3>4, Empty, NoMessages DEF InOrder
    <3>5. <<M("retry", 0)>> \in Seq(Msg) /\ <<M("error", 0)>> \in Seq(Msg)
      BY Messages
    <3>6. Handle(x)
      BY <2>3 DEF x
    <3> QED
      BY <1>b, <2>1, <3>3, <3>4, <3>5, <3>6 DEF Handle
  <2>4. CASE ExitClient(<<>>) /\ UNCHANGED <<gcmd, runs>>
    BY <1>b, <2>1, <2>4, NoMessages
  <2> QED
    BY <1>6, <2>2, <2>3, <2>4 DEF Read
<1> QED
  BY <1>1, <1>2, <1>3, <1>4, <1>5, <1>6 DEF Relay

LEMMA OrderStep == SessionInv /\ [SessionNext]_sessionVars => SessionInv' /\ [gcmd' >= gcmd]_sessionVars
<1> SUFFICES ASSUME SessionInv, [SessionNext]_sessionVars
             PROVE  SessionInv' /\ [gcmd' >= gcmd]_sessionVars
  OBVIOUS
<1>1. SessionTypeOK'
  BY TypesKept DEF SessionInv
<1>2. gcmd \in Nat
  BY SessionAssumption DEF SessionInv, SessionTypeOK
<1>3. CASE UNCHANGED sessionVars
  <2>1. InOrder'
    BY <1>3 DEF SessionInv, InOrder, Within, NotAfter, Sorted, sessionVars, client, wire, process
  <2> QED
    BY <1>1, <1>3, <2>1 DEF SessionInv
<1>4. CASE SessionNext
  BY <1>1, <1>2, <1>4, ClientOrder, ServerOrder DEF SessionNext, SessionInv
<1> QED
  BY <1>3, <1>4

(* Commands are executed in the order the player gave them, whatever breaks:
   the game never executes an older command after a younger one, though the
   client sends commands again over new connections. *)
THEOREM OrderIsKept == SessionSpec => OrderKept
<1>1. SessionInit => SessionInv
  <2> SUFFICES ASSUME SessionInit PROVE SessionInv
    OBVIOUS
  <2>1. InOrder
    BY SessionAssumption DEF SessionInit, InOrder, Within, NotAfter, Sorted
  <2> QED
    BY <2>1, TypesInit DEF SessionInv
<1> QED
  BY <1>1, OrderStep, PTL DEF SessionSpec, OrderKept

-----------------------------------------------------------------------------
(* Calm sessions. *)

LEMMA Pair ==
  ASSUME NEW x, NEW y
  PROVE  Append(<<y>>, x) = <<y, x>>
<1> DEFINE a == Append(<<y>>, x)
<1>1. a \in Seq({x, y}) /\ Len(a) = 2 /\ a[1] = y /\ a[2] = x
  OBVIOUS
<1> HIDE DEF a
<1>2. a = <<y, x>>
  BY <1>1
<1> QED
  BY <1>2 DEF a

LEMMA Singles ==
  ASSUME NEW x, NEW y
  PROVE  /\ <<x>> # <<>> /\ Head(<<x>>) = x /\ Tail(<<x>>) = <<>> /\ Len(<<x>>) = 1
         /\ Append(<<>>, x) = <<x>> /\ Append(<<y>>, x) = <<y, x>>
         /\ <<y, x>> # <<>> /\ Head(<<y, x>>) = y /\ Tail(<<y, x>>) = <<x>>
         /\ <<>> \o <<x>> = <<x>> /\ <<x>>[1] = x
<1>1. /\ <<x>> # <<>> /\ Head(<<x>>) = x /\ Tail(<<x>>) = <<>> /\ Len(<<x>>) = 1
  OBVIOUS
<1>2. Append(<<>>, x) = <<x>> /\ Append(<<y>>, x) = <<y, x>>
  BY Pair
<1>3. <<y, x>> # <<>> /\ Head(<<y, x>>) = y
  OBVIOUS
<1>4. Tail(<<y, x>>) = <<x>>
  OBVIOUS
<1>5. <<>> \o <<x>> = <<x>> /\ <<x>>[1] = x
  OBVIOUS
<1> QED
  BY <1>1, <1>2, <1>3, <1>4, <1>5

LEMMA OneEscape ==
  [i \in 1..1 |-> Esc] = <<Esc>> /\ [i \in 1..(1 - 1) |-> Esc] = <<>>
OBVIOUS

LEMMA TallyGiven ==
  ASSUME SessionTypeOK, Tally(1, TRUE), n' = n + 1, UNCHANGED <<runs, answer>>
  PROVE  Tally(0, FALSE)'
BY SessionAssumption DEF Tally, SessionTypeOK, Cmd

LEMMA TallyBegun ==
  ASSUME SessionTypeOK, Tally(0, FALSE), n > 0, runs' = [runs EXCEPT ![n] = @ + 1],
         UNCHANGED <<n, answer>>
  PROVE  Tally(1, FALSE)'
BY SessionAssumption DEF Tally, SessionTypeOK, Cmd

LEMMA TallyAnswered ==
  ASSUME SessionTypeOK, Tally(1, FALSE), n > 0, answer' = [answer EXCEPT ![n] = n],
         UNCHANGED <<n, runs>>
  PROVE  Tally(1, TRUE)'
BY SessionAssumption DEF Tally, SessionTypeOK, Cmd

LEMMA TallySame ==
  ASSUME UNCHANGED <<n, runs, answer>>, NEW times, NEW answered, Tally(times, answered)
  PROVE  Tally(times, answered)'
BY DEF Tally

(* What there is to know of a message by its kind. *)
LEMMA Kinds ==
  ASSUME SessionTypeOK
  PROVE  /\ M("cmd", n).k = "cmd" /\ M("cmd", n).n = n /\ M("cmd", n) # Esc
         /\ M("ans", n).k = "ans" /\ M("ans", n).n = n /\ M("ans", n) # Esc
         /\ M("ask", n).k = "ask" /\ M("ask", n).n = n
         /\ M("res", n).k = "res" /\ M("res", n).n = n
BY DEF M, Esc

LEMMA CalmIssue ==
  ASSUME SessionTypeOK, Calm, calm, Issue
  PROVE  Calm'
<1> USE DEF process
<1>1. /\ up = <<>> /\ down = <<>> /\ inp = <<>> /\ out = <<>> /\ buf = <<>> /\ gproc # "ask"
      /\ Tally(1, TRUE) /\ (net = "up" => link /\ gproc # "none")
  BY DEF Calm, CalmIdle, Silent, Issue
<1>2. /\ n' = n + 1 /\ msg' = M("cmd", n + 1) /\ pc' = "waiting" /\ n' > 0
      /\ UNCHANGED <<answer, net, down, link, inp, out, gproc, gcmd, buf, runs>>
      /\ up' = IF net = "up" THEN Append(up, M("cmd", n + 1)) ELSE up
  BY DEF Issue, SendMsg, SessionTypeOK
<1>3. Tally(0, FALSE)'
  BY <1>1, <1>2, TallyGiven
<1>4. CASE net = "up"
  <2>1. gproc = "top"
    BY <1>1, <1>4 DEF SessionTypeOK
  <2>2. up' = <<msg'>>
    BY <1>1, <1>2, <1>4, Singles
  <2>3. Underway(msg)'
    BY <1>1, <1>2, <2>2 DEF Underway
  <2>4. Sent'
    BY <1>1, <1>2, <1>3, <1>4, <2>1, <2>3 DEF Sent
  <2> QED
    BY <1>1, <1>2, <1>4, <2>1, <2>4 DEF Calm, CalmWaiting, Sent
<1>5. CASE net # "up"
  <2>1. NotSent'
    BY <1>1, <1>2, <1>3, <1>5 DEF NotSent, Silent
  <2> QED
    BY <1>2, <1>5, <2>1 DEF Calm, CalmWaiting, NotSent
<1> QED
  BY <1>4, <1>5

(* The call waits: one of the three states. *)
LEMMA CalmCall ==
  ASSUME SessionTypeOK, Calm, calm, pc = "waiting"
  PROVE  n > 0 /\ (net = "up" => link /\ gproc # "none") /\ (NotSent \/ Sent \/ Begun)
BY DEF Calm, CalmWaiting, NotSent, Sent, Begun

LEMMA CalmAnswer ==
  ASSUME SessionTypeOK, Calm, calm, Answer
  PROVE  Calm'
<1> USE DEF process
<1>1. pc = "waiting" /\ down # <<>> /\ Head(down).k = "res"
  BY DEF Answer
<1>2. Begun /\ n > 0 /\ link /\ gproc # "none"
  BY <1>1, CalmCall DEF NotSent, Sent, Silent, Begun
<1>3. Done /\ down = <<M("res", n)>> /\ out = <<>>
  BY <1>1, <1>2, Kinds, Singles DEF Begun, Asked, Done
<1>4. /\ down' = <<>> /\ answer' = [answer EXCEPT ![n] = n] /\ pc' = "idle"
      /\ UNCHANGED <<n, net, up, link, inp, out, gproc, gcmd, buf, runs>>
  BY <1>3, Kinds, Singles DEF Answer
<1>5. Tally(1, TRUE)'
  BY <1>2, <1>4, TallyAnswered DEF Begun
<1> QED
  BY <1>2, <1>3, <1>4, <1>5 DEF Calm, CalmIdle, Silent, Done

LEMMA CalmQuestion ==
  ASSUME SessionTypeOK, Calm, calm, Question
  PROVE  Calm'
<1> USE DEF process
<1>1. pc = "waiting" /\ down # <<>> /\ Head(down).k = "ask"
  BY DEF Question
<1>2. Begun /\ n > 0 /\ link /\ gproc # "none"
  BY <1>1, CalmCall DEF NotSent, Sent, Silent, Begun
<1>3. Asked /\ down = <<M("ask", n)>> /\ out = <<>> /\ up = <<>> /\ inp = <<>> /\ net = "up"
  BY <1>1, <1>2, Kinds, Singles DEF Begun, Asked, Done
<1>4. /\ down' = <<>> /\ msg' = M("ans", n) /\ up' = <<msg'>>
      /\ UNCHANGED <<pc, n, answer, net, link, inp, out, gproc, gcmd, buf, runs>>
  BY <1>3, Kinds, Singles DEF Question, SendMsg
<1>5. Tally(1, FALSE)'
  BY <1>2, <1>4, TallySame DEF Begun
<1>6. Begun'
  BY <1>2, <1>3, <1>4, <1>5 DEF Begun, Asked
<1> QED
  BY <1>1, <1>2, <1>4, <1>6 DEF Calm, CalmWaiting, Begun

(* No answer is broken in a calm session, and the server finds no error. *)
LEMMA CalmNoError ==
  ASSUME SessionTypeOK, Calm, calm
  PROVE  ~Broken /\ ~ServerError
<1>1. ASSUME pc = "waiting" PROVE down = <<>> \/ down = <<M("ask", n)>> \/ down = <<M("res", n)>>
  BY <1>1, CalmCall DEF NotSent, Sent, Begun, Silent, Asked, Done
<1>2. ~Broken
  <2>1. ASSUME pc = "waiting" PROVE Len(down) \in {0, 1}
    BY <1>1, <2>1, Singles
  <2>2. \A k \in {0, 1} : 2..k = {}
    OBVIOUS
  <2> QED
    BY <2>1, <2>2 DEF Broken
<1>3. ~ServerError
  BY <1>1, Singles, Kinds DEF ServerError
<1> QED
  BY <1>2, <1>3

(* Sending the command again, behind an escape if the game still runs. *)
LEMMA CalmTimeout ==
  ASSUME SessionTypeOK, Calm, calm, calm', Timeout
  PROVE  Calm'
<1> USE DEF process
<1>1. pc = "waiting" /\ down = <<>> /\ NothingComes
  BY DEF Timeout
<1>2. n > 0 /\ (NotSent \/ Sent \/ Begun)
  BY <1>1, CalmCall
<1>3. /\ up = <<>> /\ inp = <<>> /\ out = <<>> /\ msg = M("cmd", n) /\ Tally(0, FALSE)
      /\ gproc # "ask" /\ buf \in {<<>>, <<msg>>} /\ (gproc = "none" => buf = <<>>)
  <2>1. ASSUME Begun PROVE FALSE
    BY <1>1, <2>1, Singles DEF Begun, Asked, Done, NothingComes
  <2>2. CASE Sent
    BY <1>1, <2>2, Singles DEF Sent, Underway, NothingComes
  <2>3. CASE NotSent
    BY <2>3 DEF NotSent, Silent
  <2> QED
    BY <1>2, <2>1, <2>2, <2>3
<1>4. CASE Again(1)
  <2>1. /\ net' = "up" /\ down' = <<>> /\ link' = TRUE /\ up' = <<msg>>
        /\ UNCHANGED <<pc, n, msg, answer, runs>>
    BY <1>4 DEF Again, Rejoin
  <2>2. gproc' = "top" /\ out' = <<>> /\ Underway(msg)'
    <3>1. CASE gproc # "none"
      <4>1. inp' = inp \o [i \in 1..1 |-> Esc] /\ UNCHANGED <<gproc, gcmd, buf, out>>
        BY <1>4, <3>1 DEF Again, Rejoin
      <4>2. inp' = <<Esc>>
        BY <1>3, <4>1, OneEscape, Singles
      <4>3. gproc = "top"
        BY <1>3, <3>1 DEF SessionTypeOK
      <4> QED
        BY <1>3, <2>1, <4>1, <4>2, <4>3 DEF Underway
    <3>2. CASE gproc = "none"
      <4>1. inp' = [i \in 1..(1 - 1) |-> Esc] /\ out' = <<>> /\ buf' = <<>> /\ gproc' = "top"
        BY <1>4, <3>2 DEF Again, Rejoin
      <4>2. inp' = <<>>
        BY <4>1, OneEscape
      <4> QED
        BY <2>1, <4>1, <4>2 DEF Underway
    <3> QED
      BY <3>1, <3>2
  <2>3. Tally(0, FALSE)'
    BY <1>3, <2>1, TallySame
  <2>4. Sent'
    BY <1>3, <2>1, <2>2, <2>3 DEF Sent
  <2> QED
    BY <1>1, <1>2, <2>1, <2>2, <2>4 DEF Calm, CalmWaiting, Sent
<1>5. CASE Unreachable("failed")
  <2>1. /\ pc' = "failed" /\ net' = "closed" /\ up' = <<>> /\ down' = <<>>
        /\ UNCHANGED <<n, msg, answer, link, inp, out, gproc, gcmd, buf, runs>>
    BY <1>5 DEF Unreachable
  <2>2. Tally(0, FALSE)'
    BY <1>3, <2>1, TallySame
  <2> QED
    BY <1>2, <1>3, <2>1, <2>2 DEF Calm, CalmFailed, Silent
<1> QED
  BY <1>4, <1>5 DEF Timeout

LEMMA CalmRelay ==
  ASSUME SessionTypeOK, Calm, calm, Relay
  PROVE  Calm'
<1> USE DEF process, client, wire
<1>1. CASE ToGame
  <2>1. /\ link /\ up # <<>> /\ gproc # "none" /\ inp' = Append(inp, Head(up)) /\ up' = Tail(up)
        /\ UNCHANGED <<pc, n, msg, answer, net, down, link, out, gproc, gcmd, buf, runs, calm>>
    BY <1>1 DEF ToGame
  <2>2. pc = "waiting"
    BY <2>1 DEF SessionTypeOK, Calm, CalmIdle, CalmFailed, Silent
  <2>3. n > 0 /\ (net = "up" => link /\ gproc # "none") /\ (NotSent \/ Sent \/ Begun)
    BY <2>2, CalmCall
  <2>4. CASE Sent
    <3>1. /\ Append(<<>>, msg) = <<msg>> /\ Append(<<Esc>>, msg) = <<Esc, msg>>
          /\ Head(<<msg>>) = msg /\ Tail(<<msg>>) = <<>>
      BY Singles
    <3>3. ASSUME up = <<msg>> /\ inp = <<>> /\ buf = <<>>
          PROVE  Underway(msg)'
      <4>2. up' = <<>> /\ inp' = <<msg>> /\ buf' = <<>> /\ msg' = msg
        BY <2>1, <3>1, <3>3
      <4> QED
        BY <4>2 DEF Underway
    <3>4. ASSUME up = <<msg>> /\ inp = <<Esc>> /\ buf \in {<<>>, <<msg>>}
          PROVE  Underway(msg)'
      <4>2. up' = <<>> /\ inp' = <<Esc, msg>> /\ buf' \in {<<>>, <<msg>>} /\ msg' = msg
        BY <2>1, <3>1, <3>4
      <4> QED
        BY <4>2 DEF Underway
    <3>6. Underway(msg) /\ up # <<>>
      BY <2>1, <2>4 DEF Sent
    <3>5. Underway(msg)'
      BY <3>3, <3>4, <3>6 DEF Underway
    <3>2. Sent'
      BY <2>1, <2>4, <3>5, TallySame DEF Sent
    <3> QED
      BY <2>1, <2>2, <2>3, <3>2 DEF Calm, CalmWaiting, Sent
  <2>5. CASE Begun
    <3>1. Asked /\ msg = M("ans", n) /\ down = <<>> /\ out = <<>> /\ up = <<msg>> /\ inp = <<>>
      BY <2>1, <2>5 DEF Begun, Asked, Done
    <3>2. Asked'
      BY <2>1, <3>1, Singles DEF Asked
    <3>3. Begun'
      BY <2>1, <2>5, <3>2, TallySame DEF Begun
    <3> QED
      BY <2>1, <2>2, <2>3, <3>3 DEF Calm, CalmWaiting, Begun
  <2> QED
    BY <2>1, <2>3, <2>4, <2>5 DEF NotSent, Silent
<1>2. CASE ToClient
  <2>1. /\ out # <<>> /\ out' = Tail(out)
        /\ down' = IF link /\ net = "up" THEN Append(down, Head(out)) ELSE down
        /\ UNCHANGED <<pc, n, msg, answer, net, up, link, inp, gproc, gcmd, buf, runs, calm>>
    BY <1>2 DEF ToClient
  <2>2. pc = "waiting"
    BY <2>1 DEF SessionTypeOK, Calm, CalmIdle, CalmFailed, Silent
  <2>3. n > 0 /\ (net = "up" => link /\ gproc # "none") /\ (NotSent \/ Sent \/ Begun)
    BY <2>2, CalmCall
  <2>4. Begun
    BY <2>1, <2>3 DEF NotSent, Silent, Sent
  <2>5. (Asked \/ Done)'
    <3>1. link /\ net = "up"
      BY <2>3, <2>4 DEF Begun
    <3>2. CASE Asked
      <4>1. up = <<>> /\ inp = <<>> /\ down = <<>> /\ out = <<M("ask", n)>>
        BY <2>1, <3>2 DEF Asked
      <4>2. down' = <<M("ask", n)>> /\ out' = <<>>
        BY <2>1, <3>1, <4>1, Singles
      <4> QED
        BY <2>1, <3>2, <4>1, <4>2 DEF Asked
    <3>3. CASE Done
      <4>1. down = <<>> /\ out = <<M("res", n)>>
        BY <2>1, <3>3 DEF Done
      <4>2. down' = <<M("res", n)>> /\ out' = <<>>
        BY <2>1, <3>1, <4>1, Singles
      <4> QED
        BY <2>1, <3>3, <4>1, <4>2 DEF Done
    <3> QED
      BY <2>4, <3>2, <3>3 DEF Begun
  <2>6. Begun'
    BY <2>1, <2>4, <2>5, TallySame DEF Begun
  <2> QED
    BY <2>1, <2>2, <2>3, <2>6 DEF Calm, CalmWaiting, Begun
<1>3. CASE HangUpSeen
  <2>1. net # "up" /\ UNCHANGED <<pc, n, msg, answer, net, up, down, inp, out, gproc, gcmd, buf, runs, calm>>
    BY <1>3 DEF HangUpSeen
  <2>2. \A t, b : Tally(t, b) => Tally(t, b)'
    BY <2>1 DEF Tally
  <2> QED
    BY <2>1, <2>2 DEF Calm, CalmIdle, CalmWaiting, CalmFailed, Silent, NotSent, Sent, Begun
<1> QED
  BY <1>1, <1>2, <1>3 DEF Relay

(* A fault between two commands. *)
LEMMA CalmFault ==
  ASSUME SessionTypeOK, Calm, calm, calm', Cut \/ Inactive
  PROVE  Calm'
<1> USE DEF process, client, wire
<1>1. pc = "idle" /\ UNCHANGED <<pc, n, runs, answer>>
  BY DEF Cut, Inactive
<1>2. Silent /\ buf = <<>> /\ gproc # "ask" /\ Tally(1, TRUE) /\ (net = "up" => link)
  BY <1>1 DEF Calm, CalmIdle
<1>3. Tally(1, TRUE)'
  BY <1>1, <1>2, TallySame
<1>4. CASE Cut
  BY <1>1, <1>2, <1>3, <1>4 DEF Cut, Silent, Calm, CalmIdle
<1>5. CASE Inactive
  <2>1. /\ gproc' = "none" /\ buf' = <<>> /\ inp' = <<>> /\ out' = <<>> /\ up' = <<>>
        /\ net' = IF link /\ net = "up" THEN "closed" ELSE net
        /\ down' \in {down \o out \o <<>>, down \o out, down}
    BY <1>5 DEF Inactive, ExitClient
  <2>2. down = <<>> /\ out = <<>>
    BY <1>2 DEF Silent
  <2>3. down' = <<>>
    BY <2>1, <2>2
  <2>4. net' # "up"
    BY <1>2, <2>1
  <2> QED
    BY <1>1, <1>3, <2>1, <2>3, <2>4 DEF Calm, CalmIdle, Silent
<1> QED
  BY <1>4, <1>5

(* The command is begun from its own message only, and only once. *)
LEMMA CalmRead ==
  ASSUME SessionTypeOK, Calm, calm, Read
  PROVE  Calm'
<1> USE DEF process, client, wire
<1>1. gproc # "none" /\ inp # <<>> /\ UNCHANGED <<pc, n, msg, answer, calm>>
  BY DEF Read
<1>2. pc = "waiting"
  BY <1>1 DEF SessionTypeOK, Calm, CalmIdle, CalmFailed, Silent
<1>3. n > 0 /\ (net = "up" => link /\ gproc # "none") /\ (NotSent \/ Sent \/ Begun)
  BY <1>2, CalmCall
<1>4. CASE Sent
  <2>1. msg = M("cmd", n) /\ msg # Esc /\ msg.k = "cmd" /\ msg.n = n /\ down = <<>> /\ out = <<>>
        /\ net = "up" /\ gproc = "top" /\ Tally(0, FALSE)
    BY <1>4, Kinds DEF Sent
  <2>2. CASE Head(inp) = Esc
    <3>1. inp' = <<>> /\ buf' = Tail(inp) /\ UNCHANGED <<net, up, down, link, out, gproc, gcmd, runs>>
      BY <2>2 DEF Read
    <3>4. ASSUME up = <<msg>> /\ inp = <<Esc>>
          PROVE  Underway(msg)'
      <4>1. buf' = <<>>
        BY <3>1, <3>4, Singles
      <4>2. up' = <<msg>> /\ inp' = <<>> /\ buf' = <<>> /\ msg' = msg
        BY <1>1, <3>1, <3>4, <4>1
      <4> QED
        BY <4>2 DEF Underway
    <3>5. ASSUME up = <<>> /\ inp = <<Esc, msg>>
          PROVE  Underway(msg)'
      <4>1. buf' = <<msg>>
        BY <3>1, <3>5, Singles
      <4>2. up' = <<>> /\ inp' = <<>> /\ buf' = <<msg>> /\ msg' = msg
        BY <1>1, <3>1, <3>5, <4>1
      <4> QED
        BY <4>2 DEF Underway
    <3>6. inp # <<msg>>
      BY <2>1, <2>2, Singles
    <3>7. Underway(msg) /\ inp # <<>>
      BY <1>1, <1>4 DEF Sent
    <3>2. Underway(msg)'
      BY <3>4, <3>5, <3>6, <3>7 DEF Underway
    <3>3. Sent'
      BY <1>1, <2>1, <3>1, <3>2, TallySame DEF Sent
    <3> QED
      BY <1>1, <1>2, <1>3, <3>1, <3>3 DEF Calm, CalmWaiting, Sent
  <2>3. CASE Head(inp) # Esc
    <3>1. up = <<>> /\ inp = <<msg>> /\ buf = <<>>
      BY <1>1, <1>4, <2>3, Singles DEF Sent, Underway
    <3>2. Handle(msg)
      <4>1. buf \o inp = <<msg>> /\ Len(buf \o inp) = 1 /\ (buf \o inp)[1] = msg
        BY <3>1, Singles
      <4> QED
        BY <2>3, <4>1 DEF Read
    <3>3. Begin(n) /\ inp' = <<>> /\ buf' = <<>> /\ UNCHANGED <<net, up, down, link>>
      BY <2>1, <3>2 DEF Handle
    <3>4. runs' = [runs EXCEPT ![n] = @ + 1] /\ gcmd' = n
      BY <3>3 DEF Begin
    <3>5. Tally(1, FALSE)'
      BY <1>1, <1>3, <2>1, <3>4, TallyBegun
    <3>6. (Asked \/ Done)'
      <4>1. CASE n \in Asking
        <5>1. gproc' = "ask" /\ out' = Append(out, M("ask", n))
          BY <3>3, <4>1 DEF Begin
        <5>2. out' = <<M("ask", n)>>
          BY <2>1, <5>1, Singles
        <5> QED
          BY <1>1, <2>1, <3>1, <3>3, <5>1, <5>2 DEF Asked
      <4>2. CASE n \notin Asking
        <5>1. gproc' = "top" /\ out' = Append(out, M("res", n))
          BY <3>3, <4>2 DEF Begin
        <5>2. out' = <<M("res", n)>>
          BY <2>1, <5>1, Singles
        <5> QED
          BY <1>1, <2>1, <3>1, <3>3, <5>1, <5>2 DEF Done
      <4> QED
        BY <4>1, <4>2
    <3>7. Begun'
      BY <1>1, <2>1, <3>3, <3>4, <3>5, <3>6 DEF Begun
    <3> QED
      BY <1>1, <1>2, <1>3, <2>1, <3>3, <3>6, <3>7 DEF Calm, CalmWaiting, Begun, Asked, Done
  <2> QED
    BY <2>2, <2>3
<1>5. CASE Begun
  <2>1. /\ Asked /\ msg = M("ans", n) /\ down = <<>> /\ out = <<>> /\ up = <<>> /\ inp = <<msg>>
        /\ buf = <<>> /\ gproc = "ask" /\ net = "up" /\ gcmd = n
    BY <1>1, <1>5 DEF Begun, Asked, Done
  <2>2. msg # Esc /\ msg.k = "ans"
    BY <2>1, Kinds
  <2>3. buf \o inp = <<msg>> /\ Len(buf \o inp) = 1 /\ (buf \o inp)[1] = msg /\ Head(inp) = msg
    BY <2>1, Singles
  <2>4. Handle(msg)
    BY <2>2, <2>3 DEF Read
  <2>5. /\ gproc' = "top" /\ out' = Append(out, M("res", gcmd)) /\ inp' = <<>> /\ buf' = <<>>
        /\ UNCHANGED <<gcmd, runs, net, up, down, link>>
    BY <2>1, <2>2, <2>4 DEF Handle
  <2>6. out' = <<M("res", n)>>
    BY <2>1, <2>5, Singles
  <2>7. Done'
    BY <1>1, <2>1, <2>5, <2>6 DEF Done
  <2>8. Begun'
    BY <1>1, <1>5, <2>5, <2>7, TallySame DEF Begun
  <2> QED
    BY <1>1, <1>2, <1>3, <2>1, <2>5, <2>8 DEF Calm, CalmWaiting, Begun
<1> QED
  BY <1>1, <1>3, <1>4, <1>5 DEF NotSent, Silent

LEMMA CalmStep == CalmInv /\ [SessionNext]_sessionVars => CalmInv'
<1> SUFFICES ASSUME CalmInv, [SessionNext]_sessionVars PROVE CalmInv'
  OBVIOUS
<1>1. SessionTypeOK /\ SessionTypeOK' /\ Calm
  BY TypesKept DEF CalmInv
<1>2. CASE UNCHANGED sessionVars
  <2>1. Calm'
    BY <1>1, <1>2 DEF Calm, CalmIdle, CalmWaiting, CalmFailed, Silent, NotSent, Sent, Begun,
                     Tally, Underway, Asked, Done, sessionVars, client, wire, process
  <2> QED
    BY <1>1, <2>1 DEF CalmInv
<1>3. CASE SessionNext
  <2>1. CASE ~calm'
    BY <1>1, <2>1 DEF CalmInv, Calm
  <2>2. CASE calm'
    <3>1. calm
      <4>1. CASE Issue
        BY <2>2, <4>1 DEF Issue
      <4>2. CASE Client
        BY <2>2, <4>2 DEF Client, Answer, Broken, Question, Timeout, ServerError
      <4>3. CASE Relay
        BY <2>2, <4>3 DEF Relay, ToGame, ToClient, HangUpSeen
      <4>4. CASE Cut \/ Read \/ Inactive
        BY <2>2, <4>4 DEF Cut, Read, Inactive
      <4> QED
        BY <1>3, <4>1, <4>2, <4>3, <4>4 DEF SessionNext
    <3>2. Calm'
      BY <1>1, <1>3, <2>2, <3>1, CalmIssue, CalmAnswer, CalmQuestion, CalmNoError, CalmTimeout,
         CalmRelay, CalmFault, CalmRead DEF SessionNext, Client
    <3> QED
      BY <1>1, <3>2 DEF CalmInv
  <2> QED
    BY <2>1, <2>2
<1> QED
  BY <1>2, <1>3

(* As long as nothing fails while a command runs, every command is executed
   once and answered with its own answer: connections that break in between,
   and game processes that end, lose no command and double none. *)
THEOREM OnceWhileCalm == SessionSpec => []OnceWhenCalm
<1>1. SessionInit => CalmInv
  <2> SUFFICES ASSUME SessionInit PROVE CalmInv
    OBVIOUS
  <2>1. Calm
    BY SessionAssumption DEF SessionInit, Calm, CalmIdle, Silent, Tally, Cmd
  <2> QED
    BY <2>1, TypesInit DEF CalmInv
<1>2. CalmInv => OnceWhenCalm
  <2> SUFFICES ASSUME CalmInv, calm, NEW i \in Cmd
               PROVE  runs[i] <= 1 /\ (answer[i] # 0 => answer[i] = i /\ runs[i] = 1)
    BY DEF OnceWhenCalm, ExecutedOnce
  <2>1. n \in 0..MaxCmds /\ pc \in {"idle", "waiting", "failed"}
    BY DEF CalmInv, SessionTypeOK
  <2>2. Tally(1, TRUE) \/ Tally(0, FALSE) \/ Tally(1, FALSE)
    BY <2>1 DEF CalmInv, Calm, CalmIdle, CalmWaiting, CalmFailed, NotSent, Sent, Begun
  <2> QED
    BY <2>1, <2>2, SessionAssumption DEF Tally, Cmd
<1> QED
  BY <1>1, <1>2, CalmStep, PTL DEF SessionSpec

=============================================================================
